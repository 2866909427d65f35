----------------------------- MODULE XmlContent -----------------------------
(***************************************************************************)
(* Elements and namespaces in expat (lib/expat/lib/xmlparse.c): doContent, *)
(* storeAtts, addBinding, the CDATA section processor, epilogProcessor,    *)
(* storeRawNames, getContext and setContext.                               *)
(*                                                                         *)
(* A start tag is a token that carries its name and its attributes; a name *)
(* is a pair <<prefix, local part>>, with "" for no prefix.  A binding is  *)
(* a cell; lists linked through nextTagBinding are sequences of cells, the *)
(* head first.  A buffer that realloc or malloc replaces gets a new        *)
(* generation, so that a pointer into the old one can be told.             *)
(***************************************************************************)
EXTENDS Integers, Sequences, FiniteSets, SequencesExt

CONSTANTS
  Setups,           \* the values of ns, triplets and startLevel looked at
  StartTags,        \* start tags: [name, atts], atts a sequence of [name, value]
  Defaults(_),      \* the default attributes declared for an element name
  IdAttribute(_),   \* the attribute of type ID declared for it, or Null
  Contexts,         \* contexts an external entity may be parsed in
  NsPrefixes,         \* namespace prefixes, "" for the default namespace
  Width(_),         \* length of a name part or URI
  Spare,            \* EXPAND_SPARE
  InitTagBuf,       \* INIT_TAG_BUF_SIZE
  InitAttsVersion,  \* INIT_ATTS_VERSION
  MinPower,         \* the least log2 of the size of m_nsAtts
  MaxDepth,         \* bound: m_tagLevel
  Null

ASSUME ContentAssumption ==
  /\ {Spare, InitTagBuf, InitAttsVersion, MinPower, MaxDepth} \subseteq Nat \ {0}
  /\ Null \notin Nat
  /\ {"", "xml"} \subseteq NsPrefixes
  /\ Setups \subseteq BOOLEAN \X BOOLEAN \X {0, 1}
  /\ \A tag \in StartTags :
       /\ tag.name[1] \in NsPrefixes
       /\ \A list \in {tag.atts, Defaults(tag.name)} :
            /\ list \in Seq(ToSet(list))
            /\ \A i \in DOMAIN list : list[i].name[1] = "xmlns" => list[i].name[2] \in NsPrefixes
       /\ \A i, j \in DOMAIN Defaults(tag.name) :
            Defaults(tag.name)[i].name = Defaults(tag.name)[j].name => i = j
  /\ \A context \in Contexts :
       context \in Seq(ToSet(context)) /\ \A i \in DOMAIN context : context[i][1] \in NsPrefixes

(* The tokenizer wants a name after a colon, and getContext lists a prefix *)
(* once.                                                                   *)
ASSUME NamesAssumption ==
  /\ \A tag \in StartTags : \A list \in {tag.atts, Defaults(tag.name)} : \A i \in DOMAIN list :
       /\ list[i].name = <<list[i].name[1], list[i].name[2]>>
       /\ list[i].name[1] = "xmlns" => list[i].name[2] # ""
  /\ \A context \in Contexts : \A i, j \in DOMAIN context : context[i][1] = context[j][1] => i = j

VARIABLES
  ns,           \* m_ns
  triplets,     \* m_ns_triplets
  startLevel,   \* startTagLevel: 0 in a document, 1 in an external entity
  processor,    \* m_processor
  via,          \* the processor the call under way has gone through
  call,         \* "idle" or "running"
  final,        \* whether the last piece has been read to its end; whether a piece is
                \* the last is asked when there is no whole token left in it
  status,       \* m_parsingStatus.parsing
  error,        \* the error the document has failed with, or "NONE"
  tags,         \* m_tagStack, the innermost tag last
  freeTags,     \* m_freeTagList: the sizes of the buffers
  bound,        \* the binding field of every prefix: a cell, or 0 for NULL
  cells,        \* all bindings
  freeBindings, \* m_freeBindingList
  inherited,    \* m_inheritedBindings
  flags,        \* the mark before every attribute name: 0, 1 or 2
  nsAtts,       \* m_nsAtts, m_nsAttsVersion and m_nsAttsPower
  idIndex,      \* m_idAttIndex, counting attributes from 1, -1 for none
  work,         \* the token being handled, see NoWork
  called,       \* the handler call of the last step, if it made one
  over          \* for the properties: whether the root element has ended

setup == <<ns, triplets, startLevel>>
callVars == <<via, call, final>>
bindingVars == <<bound, cells, freeBindings, inherited>>
attVars == <<flags, nsAtts, idIndex>>
vars == <<ns, triplets, startLevel, processor, via, call, final, status, error, tags, freeTags,
          bound, cells, freeBindings, inherited, flags, nsAtts, idIndex, work, called, over>>

Xml == "http://www.w3.org/XML/1998/namespace"
Xmlns == "http://www.w3.org/2000/xmlns/"

(* getAttributeId: namespace declarations, and the prefix of the others.   *)
Declares(name) == ns /\ (name[1] = "xmlns" \/ name = <<"", "xmlns">>)
DeclaredPrefix(name) == IF name[1] = "xmlns" THEN name[2] ELSE ""
Prefixed(name) == ns /\ name[1] # ""

AttNames == UNION {{tag.atts[i].name : i \in DOMAIN tag.atts} \cup
                   {Defaults(tag.name)[i].name : i \in DOMAIN Defaults(tag.name)} : tag \in StartTags}
NoTag == [name |-> <<"", "">>, atts |-> <<>>]
NoWork ==
  [at       |-> "token",  \* what is done next
   tag      |-> NoTag,    \* the start tag being handled
   empty    |-> FALSE,    \* whether it is an empty-element tag
   i        |-> 1,        \* the attribute looked at
   atts     |-> <<>>,     \* appAtts: names, with names expanded so far, and values
   count    |-> 0,        \* m_nSpecifiedAtts
   prefixed |-> 0,        \* nPrefixes
   bindings |-> <<>>,     \* *bindingsPtr
   str      |-> Null]     \* tagNamePtr->str of an empty-element tag

-----------------------------------------------------------------------------
(* addBinding: what is refused.                                            *)
BindingError(prefix, uri) ==
  IF uri = "" /\ prefix # "" THEN "UNDECLARING_PREFIX"
  ELSE IF prefix = "xmlns" THEN "RESERVED_PREFIX_XMLNS"
  ELSE IF uri = "separator" THEN "SYNTAX"
  ELSE IF prefix = "xml" /\ uri # Xml THEN "RESERVED_PREFIX_XML"
  ELSE IF (prefix # "xml" /\ uri = Xml) \/ uri = Xmlns THEN "RESERVED_NAMESPACE_URI"
  ELSE "NONE"

(* addBinding: a cell from the free list or a new one, in b = [bound,      *)
(* cells, free, list], where list is *bindingsPtr.                         *)
AddBinding(b, prefix, name, uri) ==
  LET cell == IF b.free # <<>> THEN Head(b.free) ELSE Len(b.cells) + 1
      old  == IF b.free # <<>> THEN b.cells[cell] ELSE [alloc |-> 0, gen |-> 0]
      fits == b.free # <<>> /\ Width(uri) <= old.alloc
      new  == [prefix |-> prefix, uri |-> uri, att |-> name, prev |-> b.bound[prefix],
               alloc |-> IF fits THEN old.alloc ELSE Width(uri) + Spare,
               gen |-> IF fits THEN old.gen ELSE old.gen + 1,
               tail |-> <<>>]
  IN [bound |-> [b.bound EXCEPT ![prefix] = IF uri = "" /\ prefix = "" THEN 0 ELSE cell],
      cells |-> IF b.free # <<>> THEN [b.cells EXCEPT ![cell] = new] ELSE Append(b.cells, new),
      free  |-> IF b.free # <<>> THEN Tail(b.free) ELSE <<>>,
      list  |-> <<cell>> \o b.list]

(* setContext: a binding for every pair of prefix and URI.                 *)
NoBindings == [bound |-> [p \in NsPrefixes |-> 0], cells |-> <<>>, free |-> <<>>, list |-> <<>>]
SetContext(context) ==
  LET after[i \in 0 .. Len(context)] ==
        IF i = 0 THEN NoBindings ELSE AddBinding(after[i - 1], context[i][1], Null, context[i][2])
  IN after[Len(context)]

(* Mutant: the default namespace is left out.                              *)
GetContextPrefixes ==
  LET others == SetToSeq({p \in NsPrefixes \ {""} : bound[p] # 0})
  IN [i \in DOMAIN others |-> <<others[i], cells[bound[others[i]]].uri>>]

(* getContext: the default namespace first, then every other bound prefix. *)
GetContext ==
  LET others == SetToSeq({p \in NsPrefixes \ {""} : bound[p] # 0})
      pair(p) == <<p, cells[bound[p]].uri>>
  IN (IF bound[""] # 0 THEN <<pair("")>> ELSE <<>>) \o [i \in DOMAIN others |-> pair(others[i])]

(* startParsing binds the prefix xml; an external entity is given all.     *)
Init ==
  /\ \E s \in Setups : ns = s[1] /\ triplets = s[2] /\ startLevel = s[3]
  /\ \E context \in (IF ~ns THEN {<<>>} ELSE IF startLevel = 0 THEN {<<<<"xml", Xml>>>>} ELSE Contexts) :
       LET b == SetContext(context) IN bound = b.bound /\ cells = b.cells /\ inherited = b.list
  /\ freeBindings = <<>>
  /\ processor = "content" /\ via = "content" /\ call = "idle" /\ final = FALSE
  /\ status = "PARSING" /\ error = "NONE"
  /\ tags = <<>> /\ freeTags = <<>>
  /\ flags = [name \in AttNames |-> 0]
  /\ nsAtts = [version |-> 0, power |-> 0, table |-> {}]
  /\ idIndex = -1
  /\ work = NoWork
  /\ called = <<"none">>
  /\ over = FALSE

-----------------------------------------------------------------------------
Level == Len(tags) + startLevel        \* m_tagLevel
At(place) == call = "running" /\ error = "NONE" /\ work.at = place
Token == At("token") /\ ~final
Goto(place) == work' = [NoWork EXCEPT !.at = place]

(* A handler may call XML_StopParser.                                      *)
Stopped ==
  status' \in CASE status = "PARSING" -> {"PARSING", "SUSPENDED", "FINISHED"}
                [] status = "SUSPENDED" -> {"SUSPENDED", "FINISHED"}
                [] status = "FINISHED" -> {"FINISHED"}
Handler(name) == called' = name /\ Stopped
NoHandler == called' = <<"none">> /\ UNCHANGED status

(* What a binding on the free list still holds means nothing: only the     *)
(* size of its buffer is kept.                                             *)
Freed(cell) == [cell EXCEPT !.prefix = "", !.uri = "", !.att = Null, !.prev = 0, !.gen = 0, !.tail = <<>>]

(* freeBindings: what was bound before the binding made first of a prefix. *)
Withdrawn(list) ==
  [p \in NsPrefixes |->
     LET own == {i \in DOMAIN list : cells[list[i]].prefix = p}
     IN IF own = {} THEN bound[p] ELSE cells[list[Max(own)]].prev]
PrefixesOf(list) == [i \in DOMAIN list |-> cells[list[i]].prefix]

(* An error ends the parse.                                                *)
Fail(code) ==
  /\ error' = code
  /\ processor' = "error"
  /\ UNCHANGED <<setup, callVars, bindingVars, attVars, tags, freeTags, work, over>>
Refuse(code) == Fail(code) /\ NoHandler

(* Mutant: the bindings of an empty-element tag are forgotten.             *)
FailInTagForgets(code) ==
  /\ error' = code
  /\ processor' = "error"
  /\ work' = [work EXCEPT !.bindings = <<>>]
  /\ tags' = IF work.empty THEN tags ELSE [tags EXCEPT ![Len(tags)].bindings = work.bindings]
  /\ NoHandler
  /\ UNCHANGED <<setup, callVars, freeTags, bindingVars, over>>

(* An error in a start tag: the bindings made so far stay with an open     *)
(* tag, freeBindings frees those of an empty-element tag and tells so.     *)
FailInTag(code) ==
  /\ error' = code
  /\ processor' = "error"
  /\ work' = [work EXCEPT !.bindings = <<>>]
  /\ \/ /\ work.empty
        /\ freeBindings' = Reverse(work.bindings) \o freeBindings
        /\ bound' = Withdrawn(work.bindings)
        /\ IF work.bindings = <<>> THEN NoHandler ELSE Handler(<<"withdraw">> \o PrefixesOf(work.bindings))
        /\ UNCHANGED tags
     \/ /\ ~work.empty
        /\ tags' = [tags EXCEPT ![Len(tags)].bindings = work.bindings]
        /\ NoHandler
        /\ UNCHANGED <<freeBindings, bound>>
  /\ UNCHANGED <<setup, callVars, freeTags, cells, inherited, over>>

-----------------------------------------------------------------------------
(* Start tags                                                              *)
NameWidth(name) == Width(name[2]) + (IF name[1] = "" THEN 0 ELSE Width(name[1]) + 1)
Doubled(size, need) == CHOOSE s \in {size * 2 ^ k : k \in 0..6} :
                         s >= need /\ (s = size \/ s \div 2 < need)

(* An open tag: str is where its name is, in the buffer of the tag or in   *)
(* the uri buffer of a binding, raw where its raw name is: in the input,   *)
(* after the name in the tag's own buffer, or gone with the input.         *)
InTag(gen) == [cell |-> 0, gen |-> gen]
NewTag(tag, size) ==
  [name |-> tag.name, atts |-> tag.atts, size |-> Doubled(size, NameWidth(tag.name) + 1), gen |-> 0,
   raw |-> "input", str |-> InTag(0), local |-> Null, prefix |-> "", bindings |-> <<>>,
   told |-> <<>>]                       \* atts and told are for the properties
StartTag(tag, empty) ==
  /\ Token /\ processor = "content"
  /\ Level < MaxDepth
  /\ work' = [NoWork EXCEPT !.at = "attributes", !.tag = tag, !.empty = empty, !.str = InTag(0)]
  /\ IF empty THEN UNCHANGED <<tags, freeTags>>
     ELSE /\ tags' = Append(tags, NewTag(tag, IF freeTags = <<>> THEN InitTagBuf ELSE Head(freeTags)))
          /\ freeTags' = IF freeTags = <<>> THEN <<>> ELSE Tail(freeTags)
  /\ NoHandler
  /\ UNCHANGED <<setup, processor, callVars, error, bindingVars, attVars, over>>

(* storeAtts goes through addBinding, which tells the application.         *)
BindPrefix(att, mark) ==
  LET prefix == DeclaredPrefix(att.name)
      code == BindingError(prefix, att.value)
      b == AddBinding([bound |-> bound, cells |-> cells, free |-> freeBindings, list |-> work.bindings],
                      prefix, att.name, att.value)
  IN \/ FailInTag(IF code = "NONE" THEN "NO_MEMORY" ELSE code) /\ flags' = mark
     \/ /\ code = "NONE"
        /\ bound' = b.bound /\ cells' = b.cells /\ freeBindings' = b.free
        /\ work' = [work EXCEPT !.bindings = b.list, !.i = @ + 1]
        /\ flags' = mark
        /\ Handler(<<"declare", prefix>>)
        /\ UNCHANGED <<setup, processor, callVars, error, tags, freeTags, inherited, over>>

Listed(att, marked) ==
  /\ work' = [work EXCEPT !.atts = Append(@, att), !.i = @ + 1,
                          !.prefixed = IF Prefixed(att.name) THEN @ + 1 ELSE @]
  /\ flags' = marked
  /\ NoHandler
  /\ UNCHANGED <<setup, processor, callVars, error, bindingVars, tags, freeTags, over>>

Marked(name) == [flags EXCEPT ![name] = IF Prefixed(name) /\ ~Declares(name) THEN 2 ELSE 1]
Attribute ==
  /\ At("attributes")
  /\ work.i <= Len(work.tag.atts)
  /\ LET att == work.tag.atts[work.i] IN
     \/ flags[att.name] # 0 /\ FailInTag("DUPLICATE_ATTRIBUTE") /\ UNCHANGED attVars
     \/ /\ flags[att.name] = 0
        /\ IF Declares(att.name) THEN BindPrefix(att, Marked(att.name)) ELSE Listed(att, Marked(att.name))
        /\ UNCHANGED <<nsAtts, idIndex>>

AttributesDone ==
  /\ At("attributes")
  /\ work.i > Len(work.tag.atts)
  /\ work' = [work EXCEPT !.at = "defaults", !.i = 1, !.count = Len(work.atts)]
  /\ LET id == IdAttribute(work.tag.name)
         found == {i \in DOMAIN work.atts : work.atts[i].name = id}
     IN idIndex' = IF id = Null \/ flags[id] = 0 THEN -1
                   ELSE IF found # {} THEN CHOOSE i \in found : \A j \in found : i <= j
                   ELSE idIndex
  /\ NoHandler
  /\ UNCHANGED <<setup, processor, callVars, error, bindingVars, flags, nsAtts, tags, freeTags, over>>

Skip ==
  /\ work' = [work EXCEPT !.i = @ + 1]
  /\ NoHandler
  /\ UNCHANGED <<setup, processor, callVars, error, bindingVars, flags, tags, freeTags, over>>
(* Mutant: a default is added though the attribute is specified.           *)
DefaultAlways ==
  /\ At("defaults")
  /\ LET defaults == Defaults(work.tag.name) IN
     /\ work.i <= Len(defaults)
     /\ LET att == defaults[work.i] IN
        IF att.value = Null THEN Skip
        ELSE IF Declares(att.name) THEN BindPrefix(att, flags)
        ELSE Listed(att, Marked(att.name))
  /\ UNCHANGED <<nsAtts, idIndex>>

Default ==
  /\ At("defaults")
  /\ LET defaults == Defaults(work.tag.name) IN
     /\ work.i <= Len(defaults)
     /\ LET att == defaults[work.i] IN
        IF flags[att.name] # 0 \/ att.value = Null THEN Skip
        ELSE IF Declares(att.name) THEN BindPrefix(att, flags)
        ELSE Listed(att, Marked(att.name))
  /\ UNCHANGED <<nsAtts, idIndex>>

(* Mutant: the version is not renewed when it comes to its end.            *)
NewTableNoWrap(n) ==
  LET grown == 2 * n >= 2 ^ nsAtts.power IN
  [power |-> IF grown THEN nsAtts.power + 2 ELSE nsAtts.power,
   version |-> (IF grown THEN InitAttsVersion ELSE nsAtts.version) - 1,
   table |-> IF grown THEN {} ELSE nsAtts.table]

(* Mutant: the old entries stay valid when the version is renewed.         *)
NewTableKept(n) ==
  LET grown == 2 * n >= 2 ^ nsAtts.power IN
  [power |-> IF grown THEN nsAtts.power + 2 ELSE nsAtts.power,
   version |-> (IF grown \/ nsAtts.version = 0 THEN InitAttsVersion ELSE nsAtts.version) - 1,
   table |-> IF grown THEN {} ELSE nsAtts.table]

(* The table of expanded names is made larger, or its entries are          *)
(* invalidated by another version.                                         *)
NewPower(n) ==
  IF 2 * n < 2 ^ nsAtts.power THEN nsAtts.power
  ELSE LET p == CHOOSE k \in nsAtts.power .. nsAtts.power + 31 :
                  n \div 2 ^ k = 0 /\ (k = nsAtts.power \/ n \div 2 ^ (k - 1) # 0)
       IN IF p + 1 < MinPower THEN MinPower ELSE p + 1
NewTable(n) ==
  LET grown == 2 * n >= 2 ^ nsAtts.power
      renewed == grown \/ nsAtts.version = 0
  IN [power |-> NewPower(n),
      version |-> (IF renewed THEN InitAttsVersion ELSE nsAtts.version) - 1,
      table |-> IF renewed THEN {} ELSE nsAtts.table]
DefaultsDone ==
  /\ At("defaults")
  /\ work.i > Len(Defaults(work.tag.name))
  /\ work' = [work EXCEPT !.at = IF work.prefixed > 0 THEN "expand" ELSE "element", !.i = 1]
  /\ nsAtts' = IF work.prefixed > 0 THEN NewTable(work.prefixed) ELSE nsAtts
  /\ NoHandler
  /\ UNCHANGED <<setup, processor, callVars, error, bindingVars, flags, idIndex, tags, freeTags, over>>

(* Prefixed names are expanded and compared; the marks are taken off.      *)
Expand ==
  /\ At("expand")
  /\ LET name == work.atts[work.i].name
         b    == bound[name[1]]
         full == <<cells[b].uri, name[2]>>
         seen == \E entry \in nsAtts.table : entry.version = nsAtts.version /\ entry.name = full
         left == work.prefixed - 1
         shown == IF triplets THEN Append(full, cells[b].prefix) ELSE full
     IN /\ flags' = [flags EXCEPT ![name] = 0]
        /\ \/ /\ flags[name] # 2
              /\ work' = [work EXCEPT !.i = @ + 1]
              /\ UNCHANGED <<setup, processor, callVars, error, bindingVars, tags, freeTags, over>>
              /\ NoHandler /\ UNCHANGED nsAtts
           \/ /\ flags[name] = 2 /\ (b = 0 \/ seen)
              /\ FailInTag(IF b = 0 THEN "UNBOUND_PREFIX" ELSE "DUPLICATE_ATTRIBUTE")
              /\ UNCHANGED nsAtts
           \/ /\ flags[name] = 2 /\ b # 0 /\ ~seen
              /\ nsAtts' = [nsAtts EXCEPT !.table = @ \cup {[version |-> nsAtts.version, name |-> full]}]
              /\ work' = [work EXCEPT !.atts[work.i].name = shown, !.i = @ + 1, !.prefixed = left,
                                      !.at = IF left = 0 THEN "element" ELSE "expand"]
              /\ UNCHANGED <<setup, processor, callVars, error, bindingVars, tags, freeTags, over>>
              /\ NoHandler
  /\ UNCHANGED idIndex

(* Mutant: the marks of the namespace declarations stay on.                *)
ClearedAttributes ==
  [name \in AttNames |-> IF name \in {work.atts[i].name : i \in work.i .. Len(work.atts)}
                         THEN 0 ELSE flags[name]]

Cleared ==
  LET rest == {work.atts[i].name : i \in work.i .. Len(work.atts)}
      declared == {cells[c].att : c \in ToSet(work.bindings)}
  IN [name \in AttNames |-> IF name \in rest \cup declared THEN 0 ELSE flags[name]]

(* The binding of the element's prefix, its default binding, or none.      *)
OwnName == [cell |-> 0, gen |-> IF work.empty THEN 0 ELSE Last(tags).gen]
Name(str, own) == IF str.cell = 0 THEN <<own>> ELSE <<cells[str.cell].uri>> \o cells[str.cell].tail

(* Mutant: they are not.                                                   *)
RedirectedNone(cell, old, new, all) == all

(* Tags whose name is in the uri buffer that is replaced are redirected.   *)
Redirected(cell, old, new, all) ==
  [i \in DOMAIN all |-> IF all[i].str = [cell |-> cell, gen |-> old]
                        THEN [all[i] EXCEPT !.str.gen = new] ELSE all[i]]
Expanded(cell) ==
  LET prefix == cells[cell].prefix
      tail   == IF triplets /\ prefix # "" THEN <<work.tag.name[2], prefix>> ELSE <<work.tag.name[2]>>
      need   == Width(cells[cell].uri) + Width(work.tag.name[2]) + 1
                  + IF Len(tail) = 2 THEN Width(prefix) + 1 ELSE 0
      grows  == need > cells[cell].alloc
      gen    == IF grows THEN cells[cell].gen + 1 ELSE cells[cell].gen
      str    == [cell |-> cell, gen |-> gen]
  IN /\ cells' = [cells EXCEPT ![cell].gen = gen, ![cell].tail = tail,
                               ![cell].alloc = IF grows THEN need + Spare ELSE @]
     /\ work' = [work EXCEPT !.at = "start", !.str = str]
     /\ LET moved == IF grows THEN Redirected(cell, cells[cell].gen, gen, tags) ELSE tags IN
        tags' = IF work.empty THEN moved
                ELSE [moved EXCEPT ![Len(tags)].str = str, ![Len(tags)].local = Last(tags).gen,
                                   ![Len(tags)].prefix = prefix]

ElementName ==
  /\ At("element")
  /\ flags' = Cleared
  /\ LET prefix == work.tag.name[1] IN
     \/ /\ ~ns \/ (prefix = "" /\ bound[""] = 0)
        /\ work' = [work EXCEPT !.at = "start", !.str = OwnName]
        /\ NoHandler
        /\ UNCHANGED <<setup, processor, callVars, error, bindingVars, tags, freeTags, over>>
     \/ /\ ns /\ bound[prefix] # 0
        /\ Expanded(bound[prefix])
        /\ NoHandler
        /\ UNCHANGED <<setup, processor, callVars, error, bound, freeBindings, inherited, freeTags, over>>
     \/ ns /\ prefix # "" /\ bound[prefix] = 0 /\ FailInTag("UNBOUND_PREFIX")
  /\ UNCHANGED <<nsAtts, idIndex>>

StartCall ==
  /\ At("start")
  /\ LET name == Name(work.str, work.tag.name) IN
     /\ Handler(<<"start", name>>)
     /\ tags' = IF work.empty THEN tags
                ELSE [tags EXCEPT ![Len(tags)].bindings = work.bindings, ![Len(tags)].told = name]
  /\ work' = IF work.empty THEN [work EXCEPT !.at = "end"] ELSE [NoWork EXCEPT !.at = "check"]
  /\ UNCHANGED <<setup, processor, callVars, error, bindingVars, attVars, freeTags, over>>

EmptyEnd ==
  /\ At("end")
  /\ Handler(<<"end", Name(work.str, work.tag.name)>>)
  /\ work' = [NoWork EXCEPT !.at = "withdraw", !.bindings = work.bindings]
  /\ over' = (Level = 0)
  /\ UNCHANGED <<setup, processor, callVars, error, bindingVars, attVars, tags, freeTags>>

-----------------------------------------------------------------------------
(* End tags                                                                *)
(* Mutant: the name is taken as it is.                                     *)
RewrittenNot(tag) == cells

(* The end of the name is written again: an element inside may have        *)
(* written over it.                                                        *)
Rewritten(tag) ==
  IF tag.local = Null THEN cells
  ELSE [cells EXCEPT ![tag.str.cell].tail =
          IF triplets /\ tag.prefix # "" THEN <<tag.name[2], tag.prefix>> ELSE <<tag.name[2]>>]
EndTag(name) ==
  /\ Token /\ processor = "content" /\ Level > 0
  /\ \/ Level = startLevel /\ Refuse("ASYNC_ENTITY")
     \/ /\ Level > startLevel
        /\ name # Last(tags).name
        /\ Refuse("TAG_MISMATCH")
     \/ /\ Level > startLevel
        /\ name = Last(tags).name
        /\ cells' = Rewritten(Last(tags))
        /\ LET tag == Last(tags) IN
           Handler(<<"end", IF tag.str.cell = 0 THEN <<tag.name>>
                            ELSE <<cells'[tag.str.cell].uri>> \o cells'[tag.str.cell].tail>>)
        /\ tags' = Front(tags)
        /\ freeTags' = <<Last(tags).size>> \o freeTags
        /\ work' = [NoWork EXCEPT !.at = "withdraw", !.bindings = Last(tags).bindings]
        /\ over' = (Level = 1)
        /\ UNCHANGED <<setup, processor, callVars, error, bound, freeBindings, inherited, attVars>>

(* Mutant: the prefix is left without a binding.                           *)
WithdrawToNone ==
  /\ At("withdraw")
  /\ work.bindings # <<>>
  /\ LET cell == Head(work.bindings) IN
     /\ Handler(<<"withdraw", cells[cell].prefix>>)
     /\ bound' = [bound EXCEPT ![cells[cell].prefix] = 0]
     /\ freeBindings' = <<cell>> \o freeBindings
     /\ cells' = [cells EXCEPT ![cell] = Freed(@)]
  /\ work' = [work EXCEPT !.bindings = Tail(@)]
  /\ UNCHANGED <<setup, processor, callVars, error, inherited, attVars, tags, freeTags, over>>

(* One round of the loop over the bindings, in the end tag or freeBindings.*)
Withdraw ==
  /\ At("withdraw")
  /\ work.bindings # <<>>
  /\ LET cell == Head(work.bindings) IN
     /\ Handler(<<"withdraw", cells[cell].prefix>>)
     /\ bound' = [bound EXCEPT ![cells[cell].prefix] = cells[cell].prev]
     /\ freeBindings' = <<cell>> \o freeBindings
     /\ cells' = [cells EXCEPT ![cell] = Freed(@)]
  /\ work' = [work EXCEPT !.bindings = Tail(@)]
  /\ UNCHANGED <<setup, processor, callVars, error, inherited, attVars, tags, freeTags, over>>

(* After the root element the epilog is read, by a later call when the     *)
(* parser was suspended.                                                   *)
Left ==
  /\ At("withdraw")
  /\ work.bindings = <<>>
  /\ IF Level = 0 /\ status # "FINISHED"
     THEN processor' = "epilog" /\ Goto(IF status = "SUSPENDED" THEN "check" ELSE "token")
     ELSE Goto("check") /\ UNCHANGED processor
  /\ NoHandler
  /\ UNCHANGED <<setup, callVars, error, bindingVars, attVars, tags, freeTags, over>>

(* The end of the loop in doContent and in epilogProcessor.                *)
Check ==
  /\ At("check")
  /\ \/ status = "FINISHED" /\ Refuse("ABORTED")
     \/ /\ status # "FINISHED"
        /\ Goto(IF status = "SUSPENDED" THEN "return" ELSE "token")
        /\ NoHandler
        /\ UNCHANGED <<setup, processor, callVars, error, bindingVars, attVars, tags, freeTags, over>>

-----------------------------------------------------------------------------
(* Other tokens                                                            *)
Quiet == UNCHANGED <<setup, callVars, error, bindingVars, attVars, tags, freeTags, over>>

(* Text, comments and instructions.                                        *)
Content ==
  /\ Token /\ processor = "content" /\ Level > 0
  /\ Handler(<<"data">>)
  /\ Goto("check")
  /\ UNCHANGED processor /\ Quiet

(* A reference to an external entity: the application gets the context.    *)
ExternalEntity ==
  /\ Token /\ processor = "content" /\ Level > 0
  /\ Handler(<<"entity", GetContext>>)
  /\ Goto("check")
  /\ UNCHANGED processor /\ Quiet

Broken ==
  {"INVALID_TOKEN", "UNCLOSED_TOKEN", "PARTIAL_CHAR"}
    \cup (IF At("token") /\ processor = "content" THEN {"MISPLACED_XML_PI", "BAD_CHAR_REF"} ELSE {})
InvalidToken ==
  /\ At("cdata") \/ (Token /\ (processor = "epilog" \/ Level > 0))
  /\ \E code \in Broken : Refuse(code)

OpenCdata ==
  /\ Token /\ processor = "content" /\ Level > 0
  /\ Handler(<<"openCdata">>)
  /\ Goto("cdata")
  /\ UNCHANGED processor /\ Quiet

(* doCdataSection leaves the section open for cdataSectionProcessor when   *)
(* it is suspended in it or comes to the end of the input.                 *)
CdataText ==
  /\ At("cdata")
  /\ Handler(<<"data">>)
  /\ \/ /\ status' # "FINISHED"
        /\ processor' = IF status' = "SUSPENDED" THEN "cdata" ELSE processor
        /\ Goto(IF status' = "SUSPENDED" THEN "return" ELSE "cdata")
        /\ Quiet
     \/ /\ status' = "FINISHED"
        /\ Fail("ABORTED")

(* Back in doContent the status is looked at; from cdataSectionProcessor   *)
(* doContent is called first.                                              *)
CloseCdata ==
  /\ At("cdata")
  /\ Handler(<<"closeCdata">>)
  /\ \/ /\ status' # "FINISHED"
        /\ processor' = "content" /\ via' = "content"
        /\ Goto(IF via = "cdata" THEN "token" ELSE "check")
        /\ UNCHANGED <<setup, call, final, error, bindingVars, attVars, tags, freeTags, over>>
     \/ /\ status' = "FINISHED"
        /\ Fail("ABORTED")

CdataEnds ==
  /\ At("cdata")
  /\ \/ Refuse("UNCLOSED_CDATA_SECTION")
     \/ /\ processor' = "cdata"
        /\ Goto("return")
        /\ NoHandler /\ Quiet

(* Blanks, comments and instructions after the root element.               *)
Misc ==
  /\ Token /\ processor = "epilog"
  /\ Handler(<<"misc">>)
  /\ Goto("check")
  /\ UNCHANGED processor /\ Quiet
Junk ==
  /\ Token /\ processor = "epilog"
  /\ Refuse("JUNK_AFTER_DOC_ELEMENT")

(* No whole token is left: the end of a piece, or of the document.         *)
EndError ==
  IF startLevel = 0 THEN "NO_ELEMENTS" ELSE IF Level # startLevel THEN "ASYNC_ENTITY" ELSE "NONE"
Incomplete == processor = "content" /\ EndError # "NONE"
Finish ==
  /\ final' = TRUE
  /\ Goto("return")
  /\ UNCHANGED <<setup, processor, via, call, error, bindingVars, attVars, tags, freeTags, over>>
PieceEnds ==
  /\ At("token")
  /\ \/ ~final /\ Goto("return") /\ UNCHANGED processor /\ NoHandler /\ Quiet
     \/ ~Incomplete /\ Finish /\ NoHandler
     \/ Incomplete /\ Refuse(EndError)

(* A carriage return or brackets at the very end are text.                 *)
TrailingText ==
  /\ Token /\ processor = "content" /\ Level > 0
  /\ Handler(<<"data">>)
  /\ \/ ~Incomplete /\ Finish
     \/ Incomplete /\ Fail(EndError)

(* storeRawNames, from contentProcessor: every tag above the first one     *)
(* stored already gets a copy of its raw name behind its name.             *)
Stored(tag) ==
  LET need  == 2 * NameWidth(tag.name) + 1
      grows == need > tag.size
      gen   == tag.gen + 1
  IN IF ~grows THEN [tag EXCEPT !.raw = "own"]
     ELSE [tag EXCEPT !.raw = "own", !.size = need, !.gen = gen,
                      !.str = IF @ = InTag(tag.gen) THEN InTag(gen) ELSE @,
                      !.local = IF @ = Null THEN Null ELSE gen]
FirstToStore ==
  LET stored == {i \in DOMAIN tags : tags[i].raw = "own"} IN
  IF stored = {} THEN 1 ELSE Max(stored) + 1
StoreRawNames == [i \in DOMAIN tags |-> IF i < FirstToStore THEN tags[i] ELSE Stored(tags[i])]

Return ==
  /\ At("return")
  /\ \/ /\ via = "content" /\ \E i \in DOMAIN tags : tags[i].raw # "own" /\ Stored(tags[i]).gen # tags[i].gen
        /\ Refuse("NO_MEMORY")
     \/ /\ tags' = IF via = "content" THEN StoreRawNames ELSE tags
        /\ status' = IF final /\ status = "PARSING" THEN "FINISHED" ELSE status
        /\ call' = "idle" /\ called' = <<"none">>
        /\ work' = NoWork
        /\ UNCHANGED <<setup, processor, via, final, error, bindingVars, attVars, freeTags, over>>

-----------------------------------------------------------------------------
(* XML_Parse gives the next piece, in another place; XML_ResumeParser goes *)
(* on with the piece there is.                                             *)
Enter ==
  /\ call = "idle" /\ error = "NONE"
  /\ call' = "running" /\ via' = processor /\ called' = <<"none">>
  /\ Goto(IF processor = "cdata" THEN "cdata" ELSE "token")
  /\ UNCHANGED <<setup, processor, final, error, bindingVars, attVars, freeTags, over>>
Parse ==
  /\ status = "PARSING"
  /\ tags' = [i \in DOMAIN tags |-> IF tags[i].raw = "input" THEN [tags[i] EXCEPT !.raw = "gone"] ELSE tags[i]]
  /\ Enter
  /\ UNCHANGED status
Resume ==
  /\ status = "SUSPENDED"
  /\ status' = "PARSING"
  /\ Enter
  /\ UNCHANGED tags

Names == {tag.name : tag \in StartTags}
Next ==
  \/ Parse \/ Resume
  \/ \E tag \in StartTags, empty \in BOOLEAN : StartTag(tag, empty)
  \/ Attribute \/ AttributesDone \/ Default \/ DefaultsDone \/ Expand \/ ElementName \/ StartCall
  \/ EmptyEnd \/ Withdraw \/ Left \/ Check
  \/ \E name \in Names : EndTag(name)
  \/ Content \/ ExternalEntity \/ InvalidToken
  \/ OpenCdata \/ CdataText \/ CloseCdata \/ CdataEnds
  \/ Misc \/ Junk
  \/ PieceEnds \/ TrailingText \/ Return
Spec == Init /\ [][Next]_vars

-----------------------------------------------------------------------------
(* Type invariant.                                                         *)
Cells == 0 .. Len(cells)
TypeOK ==
  /\ {ns, triplets, final, over} \subseteq BOOLEAN
  /\ startLevel \in {0, 1}
  /\ processor \in {"content", "cdata", "epilog", "error"}
  /\ call \in {"idle", "running"}
  /\ status \in {"PARSING", "SUSPENDED", "FINISHED"}
  /\ Len(tags) <= MaxDepth
  /\ bound \in [NsPrefixes -> Cells]
  /\ flags \in [AttNames -> 0..2]
  /\ nsAtts.version \in 0 .. InitAttsVersion - 1
  /\ idIndex \in {-1} \cup (Nat \ {0})

(* What a start tag means, by the namespace recommendation.                *)
Defaulted(tag, d) == d.value # Null /\ ~\E i \in DOMAIN tag.atts : tag.atts[i].name = d.name
Effective(tag) == tag.atts \o SelectSeq(Defaults(tag.name), LAMBDA d : Defaulted(tag, d))
AttsOf(tag) == ToSet(tag.atts) \cup {d \in ToSet(Defaults(tag.name)) : Defaulted(tag, d)}
DeclaredBy(tag, prefix) ==
  {att.value : att \in {a \in AttsOf(tag) : Declares(a.name) /\ DeclaredPrefix(a.name) = prefix}}
InScope(stack, prefix) ==
  LET declaring == {i \in DOMAIN stack : DeclaredBy(stack[i], prefix) # {}}
  IN IF declaring # {} THEN CHOOSE uri \in DeclaredBy(stack[Max(declaring)], prefix) : TRUE
     ELSE IF \E c \in ToSet(inherited) : cells[c].prefix = prefix
     THEN cells[CHOOSE c \in ToSet(inherited) : cells[c].prefix = prefix].uri
     ELSE ""
Stack == IF work.empty THEN Append(tags, work.tag) ELSE tags
FullAttName(name) ==
  IF ~Prefixed(name) THEN name
  ELSE <<InScope(Stack, name[1]), name[2]>> \o (IF triplets THEN <<name[1]>> ELSE <<>>)
FullName(name) ==
  IF ~ns \/ InScope(Stack, name[1]) = "" THEN <<name>>
  ELSE <<InScope(Stack, name[1]), name[2]>> \o (IF triplets /\ name[1] # "" THEN <<name[1]>> ELSE <<>>)
Reported(tag) == SelectSeq(Effective(tag), LAMBDA att : ~Declares(att.name))

StoringAtts == work.at \in {"attributes", "defaults", "expand", "element"}
Between == error = "NONE" /\ work.at = "token"

(* Between tokens a prefix means what the innermost open element that      *)
(* declares it says, whether by an attribute or by a default of the DTD:   *)
(* the chain through prevPrefixBinding (addBinding, doContent) never loses *)
(* or revives a declaration, however elements nest.                        *)
PrefixesScoped ==
  Between => \A p \in NsPrefixes : (IF bound[p] = 0 THEN "" ELSE cells[bound[p]].uri) = InScope(tags, p)

(* An external entity parsed with the context the application was given    *)
(* starts with the prefixes that are in scope at the reference             *)
(* (getContext, setContext).                                               *)
ContextPassed ==
  Between => LET b == SetContext(GetContext) IN
             \A p \in NsPrefixes : (IF b.bound[p] = 0 THEN "" ELSE b.cells[b.bound[p]].uri) = InScope(tags, p)

(* Prefixes mean the same by the bindings as by the tags, here and in the  *)
(* parser of an external entity (addBinding, getContext).                  *)
ScopesKept == PrefixesScoped /\ ContextPassed

(* Every binding is on exactly one of the lists that XML_ParserFree goes   *)
(* through, after errors in the middle of a start tag too: none is lost    *)
(* and none is freed twice.                                                *)
Lists == <<inherited>> \o [i \in DOMAIN tags |-> tags[i].bindings] \o <<work.bindings, freeBindings>>
BindingsOnce ==
  /\ \A i, j \in DOMAIN Lists : \A k \in DOMAIN Lists[i], m \in DOMAIN Lists[j] :
       Lists[i][k] = Lists[j][m] => i = j /\ k = m
  /\ UNION {ToSet(Lists[i]) : i \in DOMAIN Lists} = DOMAIN cells

(* The start handler gets the attributes of the tag and the defaults it    *)
(* does not specify, each with its expanded name, without the namespace    *)
(* declarations; m_nSpecifiedAtts and m_idAttIndex fit them (storeAtts).   *)
AttributesReported ==
  error = "NONE" /\ work.at = "start" =>
    LET reported == Reported(work.tag)
        id == {i \in DOMAIN work.tag.atts : work.tag.atts[i].name = IdAttribute(work.tag.name)}
    IN /\ work.atts = [i \in DOMAIN reported |-> [reported[i] EXCEPT !.name = FullAttName(@)]]
       /\ work.count = Cardinality({i \in DOMAIN work.tag.atts : ~Declares(work.tag.atts[i].name)})
       /\ idIndex = -1 <=> id = {}
       /\ idIndex # -1 => reported[idIndex].name = IdAttribute(work.tag.name)
       /\ Name(work.str, work.tag.name) = FullName(work.tag.name)

(* A start tag is refused for a duplicate attribute if and only if it has  *)
(* one, by its name or by its expanded name: neither the marks before the  *)
(* names nor the entries and versions of m_nsAtts left by earlier tags     *)
(* (storeAtts) make a difference.                                          *)
HasDuplicate(tag) ==
  \/ \E i, j \in DOMAIN tag.atts : i # j /\ tag.atts[i].name = tag.atts[j].name
  \/ LET all == Reported(tag) IN
     \E i, j \in DOMAIN all : /\ i # j /\ Prefixed(all[i].name) /\ Prefixed(all[j].name)
                              /\ SubSeq(FullAttName(all[i].name), 1, 2) = SubSeq(FullAttName(all[j].name), 1, 2)
DuplicatesFound ==
  /\ error = "NONE" /\ work.at = "start" => ~HasDuplicate(work.tag)
  /\ error = "DUPLICATE_ATTRIBUTE" => HasDuplicate(work.tag)

(* The marks that say an attribute was specified are off whenever no start *)
(* tag is being handled: a mark left on would make a later tag lose a      *)
(* default or be refused (storeAtts).                                      *)
MarksOff == error = "NONE" /\ ~StoringAtts => \A name \in AttNames : flags[name] = 0

(* The table of expanded names keeps a free place, however many prefixed   *)
(* attributes there are: the search for one would not end else (storeAtts).*)
TableHasRoom ==
  error = "NONE" /\ work.at \in {"expand", "element", "start"} =>
    work.prefixed + Cardinality({e \in nsAtts.table : e.version = nsAtts.version}) < 2 ^ nsAtts.power

(* Duplicates are found exactly, whatever earlier tags left (storeAtts).   *)
DuplicatesExact == DuplicatesFound /\ MarksOff /\ TableHasRoom

(* Nothing that is kept of an open tag points into memory that is gone:    *)
(* its name may be in the uri buffer of a binding that is replaced while   *)
(* it is open (storeAtts), its own buffer may move, and its raw name is in *)
(* the input until storeRawNames copies it.                                *)
NamesAlive ==
  /\ Between => \A i \in DOMAIN tags :
       /\ tags[i].raw # "gone"
       /\ tags[i].local \in {Null, tags[i].gen}
       /\ IF tags[i].str.cell = 0 THEN tags[i].str.gen = tags[i].gen
          ELSE /\ tags[i].str.gen = cells[tags[i].str.cell].gen
               /\ tags[i].str.cell \notin ToSet(freeBindings)
  /\ error = "NONE" /\ work.at = "end" /\ work.str.cell # 0 => work.str.gen = cells[work.str.cell].gen

(* Memory: no binding is lost and no pointer outlives what it points to.   *)
MemoryInv == TypeOK /\ BindingsOnce /\ NamesAlive

(* The calls the application sees are those of XmlEvents: elements nest,   *)
(* an end call has the very name of its start call though elements in      *)
(* between have written over it, namespace declarations are withdrawn in   *)
(* reverse order, and nothing but comments, instructions and blanks        *)
(* follows the root element, with the parser stopped and resumed anywhere. *)
Told == IF (StoringAtts \/ work.at = "start") /\ ~work.empty THEN Front(tags) ELSE tags
TagsTold == [i \in DOMAIN Told |-> [name |-> tags[i].told, prefixes |-> PrefixesOf(tags[i].bindings)]]
Uris == {Xml} \cup {att.value : att \in UNION {ToSet(tag.atts) \cup ToSet(Defaults(tag.name)) : tag \in StartTags}}
              \cup UNION {{context[i][2] : i \in DOMAIN context} : context \in Contexts}
Elements == {<<name>> : name \in Names} \cup
            UNION {{<<uri, name[2]>>, <<uri, name[2], name[1]>>} : uri \in Uris, name \in Names}
Empties == [name |-> Name(work.str, work.tag.name), prefixes |-> PrefixesOf(work.bindings)]
OpenNow == IF work.at = "end" THEN Append(TagsTold, Empties) ELSE TagsTold
DeclaredNow == IF StoringAtts \/ work.at = "start" THEN PrefixesOf(work.bindings) ELSE <<>>
WithdrawnNow == IF work.at = "withdraw" THEN PrefixesOf(work.bindings) ELSE <<>>
CalledNow == IF called[1] = "entity" THEN <<"entity">> ELSE called
Events == INSTANCE XmlEvents WITH
  Names <- Elements, document <- startLevel = 0, open <- OpenNow, declared <- DeclaredNow,
  withdrawn <- WithdrawnNow, called <- CalledNow
CallsOrdered == Events!EventsSpec
=============================================================================
