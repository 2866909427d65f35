------------------------------- MODULE XmlTok -------------------------------
(***************************************************************************)
(* The scanners of lib/expat/lib/xmltok_impl.c: which token a text begins  *)
(* with, and where it ends.                                                *)
(*                                                                         *)
(* A text is a sequence of units: characters of one byte by class (BT_),   *)
(* and L and T, the bytes of a character of two.  CDATA[ and the names xml *)
(* and XML are one unit each.  The encodings are those of a parser with    *)
(* namespaces; in the others the colon is a letter as x is.                *)
(*                                                                         *)
(* A scanner is an automaton: Moves lead from state to state, Found ends a *)
(* token with or before (back = 1) the character just read, AtEnd says     *)
(* what is returned when the text ends (otherwise XML_TOK_PARTIAL), and    *)
(* what no rule allows is XML_TOK_INVALID at that character.  A state with *)
(* a Fallback reads what it has no rule for as that state would.           *)
(***************************************************************************)
EXTENDS Integers, Sequences, TLC, SequencesExt

White == {"S", "TAB", "CR", "LF"}
Quotes == {"'", "\""}
Digits == {"0", "1", "7", "8", "9"}
HexDigits == Digits \cup {"a", "d", "e", "f"}
NmStart == {"x", "a", "d", "e", "f", "xml", "XML", "c2"}
NmChar == NmStart \cup Digits \cup {"-", "."}
Markup == {"<", ">", "!", "?", "/", "-", "[", "]", "&", ";", "#", "%", "=", ":",
           "(", ")", "*", "+", ",", "|", "CDATA[", ".", "o"}
Char == White \cup Quotes \cup NmChar \cup Markup   \* c2 is a character of two bytes
Class == Char \cup {"bad", "L"}

-----------------------------------------------------------------------------
(* scanComment after "<!-", and scanPi after "<?".                         *)
CommentMoves ==
  {<<"<!-", {"-"}, "comment">>, <<"comment", {"-"}, "comment-">>,
   <<"comment", Char \ {"-"}, "comment">>, <<"comment-", {"-"}, "comment--">>}
CommentFound == {<<"comment--", {">"}, "COMMENT", 0>>}

(* checkPiTarget: the name xml is reserved, in any case, unless it is the  *)
(* XML declaration's.                                                      *)
PiTargets == {<<"pi", "PI">>, <<"xml", "XML_DECL">>}
PiMoves ==
  {<<"<?", NmStart \ {"xml", "XML"}, "pi">>, <<"<?", {"xml"}, "xml">>, <<"<?", {"XML"}, "XML">>}
    \cup {<<s, NmChar, "pi">> : s \in {"pi", "xml", "XML"}}
    \cup UNION {{<<t[1], White, t[1] \o " body">>, <<t[1] \o " body", Char \ {"?"}, t[1] \o " body">>,
                 <<t[1] \o " body", {"?"}, t[1] \o " ?">>, <<t[1], {"?"}, t[1] \o "?">>} : t \in PiTargets}
PiFound == UNION {{<<t[1] \o " ?", {">"}, t[2], 0>>, <<t[1] \o "?", {">"}, t[2], 0>>} : t \in PiTargets}

(* scanDecl after "<!".                                                    *)
DeclMoves ==
  {<<"<!decl", {"-"}, "<!-">>, <<"<!decl", NmStart \ {"c2"}, "decl">>,
   <<"decl", NmStart \ {"c2"}, "decl">>, <<"decl", {"%"}, "decl%">>}
DeclFound ==
  {<<"<!decl", {"["}, "COND_SECT_OPEN", 0>>, <<"decl", White, "DECL_OPEN", 1>>,
   <<"decl%", Class \ (White \cup {"%"}), "DECL_OPEN", 2>>,
   <<"decl%", White \cup {"%"}, "INVALID", 2>>}

-----------------------------------------------------------------------------
(* scanRef, scanCharRef and scanHexCharRef after "&", in a state of the    *)
(* caller's; the ; is the caller's as well.                                *)
RefMoves(s) ==
  {<<s, NmStart, s \o "name">>, <<s \o "name", NmChar, s \o "name">>,
   <<s, {"#"}, s \o "#">>, <<s \o "#", Digits, s \o "#0">>, <<s \o "#0", Digits, s \o "#0">>,
   <<s \o "#", {"x"}, s \o "#x">>,
   <<s \o "#x", HexDigits, s \o "#xf">>, <<s \o "#xf", HexDigits, s \o "#xf">>}
RefEnds(s) == {<<s \o "name", "ENTITY_REF">>, <<s \o "#0", "CHAR_REF">>, <<s \o "#xf", "CHAR_REF">>}
RefFound(s) == {<<e[1], {";"}, e[2], 0>> : e \in RefEnds(s)}

(* scanPercent after "%".                                                  *)
PercentMoves == {<<"%", NmStart, "%name">>, <<"%name", NmChar, "%name">>}
PercentFound == {<<"%name", {";"}, "PARAM_ENTITY_REF", 0>>, <<"%", White \cup {"%"}, "PERCENT", 1>>}

(* scanAtts after the first character of an attribute's name.              *)
AttsMoves ==
  {<<s, NmChar, s>> : s \in {"att", "att:att"}}
    \cup {<<"att", {":"}, "att:">>, <<"att:", NmStart, "att:att">>}
    \cup {<<s, White, "att ">> : s \in {"att", "att:att", "att "}}
    \cup {<<s, {"="}, "=">> : s \in {"att", "att:att", "att "}}
    \cup {<<"=", White, "=">>}
    \cup UNION {{<<"=", {q}, q>>, <<q, Char \ {q, "<", "&"}, q>>, <<q, {"&"}, q \o "&">>,
                 <<q, {q}, "value">>} \cup RefMoves(q \o "&") : q \in Quotes}
    \cup UNION {{<<e[1], {";"}, q>> : e \in RefEnds(q \o "&")} : q \in Quotes}
    \cup {<<s, White, "atts ">> : s \in {"value", "atts "}}
    \cup {<<s, {"/"}, "atts/">> : s \in {"value", "atts "}}
    \cup {<<"atts ", NmStart, "att">>}
AttsFound ==
  {<<s, {">"}, "START_TAG_WITH_ATTS", 0>> : s \in {"value", "atts "}}
    \cup {<<"atts/", {">"}, "EMPTY_ELEMENT_WITH_ATTS", 0>>}

(* scanLt after "<", with scanCdataSection, which wants six bytes before   *)
(* it compares the first.                                                  *)
Waiting(n) == "<![" \o ToString(n)
TagMoves ==
  {<<"<", NmStart, "tag">>, <<"<", {"!"}, "<!">>, <<"<", {"?"}, "<?">>, <<"<", {"/"}, "</">>,
   <<"<!", {"-"}, "<!-">>, <<"<!", {"["}, "<![">>, <<"<![", Class \ {"CDATA["}, Waiting(1)>>,
   <<"tag", {":"}, "tag:">>, <<"tag:", NmStart, "tag:tag">>, <<"tag ", NmStart, "att">>}
    \cup {<<s, NmChar, s>> : s \in {"tag", "tag:tag"}}
    \cup {<<s, White, "tag ">> : s \in {"tag", "tag:tag", "tag "}}
    \cup {<<s, {"/"}, "tag/">> : s \in {"tag", "tag:tag", "tag "}}
    \cup {<<Waiting(n), Class, Waiting(n + 1)>> : n \in 1..4}
TagFound ==
  {<<"<![", {"CDATA["}, "CDATA_SECT_OPEN", 0>>, <<Waiting(5), Class, "INVALID", 6>>, <<"tag/", {">"}, "EMPTY_ELEMENT_NO_ATTS", 0>>}
    \cup {<<s, {">"}, "START_TAG_NO_ATTS", 0>> : s \in {"tag", "tag:tag", "tag "}}

(* scanEndTag after "</".                                                  *)
EndTagMoves ==
  {<<"</", NmStart, "</tag">>, <<"</tag", NmChar \cup {":"}, "</tag">>}
    \cup {<<s, White, "</tag ">> : s \in {"</tag", "</tag "}}
EndTagFound == {<<s, {">"}, "END_TAG", 0>> : s \in {"</tag", "</tag "}}

-----------------------------------------------------------------------------
(* contentTok.  "]]>" may not stand in character data.                     *)
ContentMoves ==
  {<<"content", {"<"}, "<">>, <<"content", {"&"}, "&">>, <<"content", {"CR"}, "CR">>,
   <<"content", {"]"}, "]">>, <<"]", {"]"}, "]]">>,
   <<"content", Char \ {"<", "&", "CR", "LF", "]"}, "data">>,
   <<"data", Char \ {"<", "&", "CR", "LF", "]"}, "data">>,
   <<"data", {"]"}, "data]">>, <<"data]", {"]"}, "data]]">>, <<"data]]", {"]"}, "data]]">>,
   <<"]]", {"]"}, "data]]">>}
ContentFound ==
  {<<"content", {"LF"}, "DATA_NEWLINE", 0>>, <<"CR", {"LF"}, "DATA_NEWLINE", 0>>,
   <<"CR", Class \ {"LF"}, "DATA_NEWLINE", 1>>,
   <<"data", {"<", "&", "CR", "LF", "bad"}, "DATA_CHARS", 1>>,
   <<"]]", {">"}, "INVALID", 1>>, <<"data]]", {">"}, "INVALID", 1>>}
(* Mutant: a ] at the end of a piece is data.                              *)
ContentAtEndBracket ==
  {<<"CR", "TRAILING_CR", 0>>, <<"]", "DATA_CHARS", 0>>, <<"]]", "DATA_CHARS", 0>>,
   <<"data", "DATA_CHARS", 0>>, <<"data]", "DATA_CHARS", 1>>, <<"data]]", "DATA_CHARS", 2>>}

(* Mutant: a CR at the end of a piece is a newline.                        *)
ContentAtEndCr ==
  {<<"CR", "DATA_NEWLINE", 0>>, <<"]", "TRAILING_RSQB", 0>>, <<"]]", "TRAILING_RSQB", 0>>,
   <<"data", "DATA_CHARS", 0>>, <<"data]", "DATA_CHARS", 1>>, <<"data]]", "DATA_CHARS", 2>>}

ContentAtEnd ==
  {<<"CR", "TRAILING_CR", 0>>, <<"]", "TRAILING_RSQB", 0>>, <<"]]", "TRAILING_RSQB", 0>>,
   <<"data", "DATA_CHARS", 0>>, <<"data]", "DATA_CHARS", 1>>, <<"data]]", "DATA_CHARS", 2>>}

(* cdataSectionTok.                                                        *)
CdataMoves ==
  {<<"cdata", {"]"}, "cdata]">>, <<"cdata]", {"]"}, "cdata]]">>, <<"cdata", {"CR"}, "cdata CR">>,
   <<"cdata", Char \ {"CR", "LF", "]"}, "cdata chars">>,
   <<"cdata chars", Char \ {"CR", "LF", "]"}, "cdata chars">>}
CdataFound ==
  {<<"cdata]]", {">"}, "CDATA_SECT_CLOSE", 0>>, <<"cdata]]", Class \ {">"}, "DATA_CHARS", 2>>,
   <<"cdata", {"LF"}, "DATA_NEWLINE", 0>>, <<"cdata CR", {"LF"}, "DATA_NEWLINE", 0>>,
   <<"cdata CR", Class \ {"LF"}, "DATA_NEWLINE", 1>>,
   <<"cdata chars", {"CR", "LF", "]", "bad"}, "DATA_CHARS", 1>>}
CdataAtEnd == {<<"cdata chars", "DATA_CHARS", 0>>}

-----------------------------------------------------------------------------
(* scanLit and scanPoundName.                                              *)
LiteralMoves ==
  UNION {{<<"lit" \o q, Char \ {q}, "lit" \o q>>, <<"lit" \o q, {q}, "literal">>} : q \in Quotes}
    \cup {<<"#", NmStart, "#name">>, <<"#name", NmChar, "#name">>}
LiteralFound ==
  {<<"literal", White \cup {">", "%", "["}, "LITERAL", 1>>,
   <<"#name", White \cup {")", ">", "%", "|"}, "POUND_NAME", 1>>}
LiteralAtEnd == {<<"literal", "-LITERAL", 0>>, <<"#name", "-POUND_NAME", 0>>}

(* Names of the prolog: NAME, with a prefix PREFIXED_NAME, else NMTOKEN.   *)
Names == {"NAME", "PREFIXED_NAME", "NMTOKEN"}
NameMoves ==
  {<<"prolog", NmStart, "NAME">>, <<"prolog", Digits \cup {"-", ".", ":"}, "NMTOKEN">>,
   <<"NAME", {":"}, "NAME:">>, <<"NAME:", NmChar, "PREFIXED_NAME">>,
   <<"PREFIXED_NAME", {":"}, "NMTOKEN">>, <<"NMTOKEN", {":"}, "NMTOKEN">>}
    \cup {<<n, NmChar, n>> : n \in Names}
NameFound ==
  {<<n, White \cup {">", ")", ",", "|", "[", "%"}, n, 1>> : n \in Names}
    \cup {<<n, {"+"}, "NAME_PLUS", 0>> : n \in Names \ {"NMTOKEN"}}
    \cup {<<n, {"*"}, "NAME_ASTERISK", 0>> : n \in Names \ {"NMTOKEN"}}
    \cup {<<n, {"?"}, "NAME_QUESTION", 0>> : n \in Names \ {"NMTOKEN"}}
NameAtEnd == {<<n, "-" \o n, 0>> : n \in Names}

(* prologTok.  A CR that ends the text is left for the LF that may follow. *)
PrologMoves ==
  {<<"prolog", {q}, "lit" \o q>> : q \in Quotes}
    \cup {<<"prolog", {"<"}, "prolog<">>, <<"prolog<", {"!"}, "<!decl">>, <<"prolog<", {"?"}, "<?">>,
          <<"prolog", {"S", "TAB", "LF"}, "S">>, <<"prolog", {"CR"}, "S?">>,
          <<"prolog", {"%"}, "%">>, <<"prolog", {"]"}, "prolog]">>, <<"prolog", {")"}, "prolog)">>,
          <<"prolog", {"#"}, "#">>, <<"prolog]", {"]"}, "prolog]]">>}
    \cup UNION {{<<s, {"S", "TAB", "LF"}, "S">>, <<s, {"CR"}, "S CR">>} : s \in {"S", "S CR", "S?"}}
PrologFound ==
  {<<"prolog<", (NmStart \ {"c2"}) \cup {"L"}, "INSTANCE_START", 2>>,
   <<"prolog", {","}, "COMMA", 0>>, <<"prolog", {"["}, "OPEN_BRACKET", 0>>,
   <<"prolog", {"("}, "OPEN_PAREN", 0>>, <<"prolog", {"|"}, "OR", 0>>,
   <<"prolog", {">"}, "DECL_CLOSE", 0>>,
   <<"prolog]]", {">"}, "COND_SECT_CLOSE", 0>>, <<"prolog]]", Class \ {">"}, "CLOSE_BRACKET", 2>>,
   <<"prolog]", Class \ {"]"}, "CLOSE_BRACKET", 1>>,
   <<"prolog)", {"*"}, "CLOSE_PAREN_ASTERISK", 0>>, <<"prolog)", {"?"}, "CLOSE_PAREN_QUESTION", 0>>,
   <<"prolog)", {"+"}, "CLOSE_PAREN_PLUS", 0>>,
   <<"prolog)", White \cup {">", ",", "|", ")"}, "CLOSE_PAREN", 1>>}
    \cup {<<s, Class \ White, "PROLOG_S", 1>> : s \in {"S", "S CR", "S?"}}
PrologAtEnd ==
  {<<"S", "PROLOG_S", 0>>, <<"S CR", "PROLOG_S", 1>>, <<"S?", "-PROLOG_S", 0>>,
   <<"prolog]", "-CLOSE_BRACKET", 0>>, <<"prolog)", "-CLOSE_PAREN", 0>>}

-----------------------------------------------------------------------------
(* attributeValueTok and entityValueTok, on texts that were scanned before.*)
ValueScanners == {<<"attribute", {"S", "TAB"}>>, <<"entity", {"%"}>>}
ValueMoves ==
  UNION {{<<v[1], {"&"}, v[1] \o "&">>, <<v[1], {"CR"}, v[1] \o " CR">>,
          <<v[1], Char \ ({"&", "CR", "LF", "<"} \cup v[2]), v[1] \o " chars">>,
          <<v[1] \o " chars", Char \ ({"&", "CR", "LF", "<"} \cup v[2]), v[1] \o " chars">>}
           \cup RefMoves(v[1] \o "&") : v \in ValueScanners}
    \cup {<<s, {"<"}, "entity chars">> : s \in {"entity", "entity chars"}}
    \cup {<<"entity", {"%"}, "entity%">>, <<"entity%", NmStart, "%name">>}
ValueFound ==
  UNION {{<<v[1], {"LF"}, "DATA_NEWLINE", 0>>, <<v[1] \o " CR", {"LF"}, "DATA_NEWLINE", 0>>,
          <<v[1] \o " CR", Class \ {"LF"}, "DATA_NEWLINE", 1>>,
          <<v[1] \o " chars", {"&", "CR", "LF"} \cup v[2], "DATA_CHARS", 1>>}
           \cup RefFound(v[1] \o "&") : v \in ValueScanners}
    \cup {<<"attribute", {"S", "TAB"}, "ATTRIBUTE_VALUE_S", 0>>}
ValueAtEnd ==
  UNION {{<<v[1] \o " CR", "TRAILING_CR", 0>>, <<v[1] \o " chars", "DATA_CHARS", 0>>} : v \in ValueScanners}

(* ignoreSectionTok; level counts the sections within, up to MaxLevel.     *)
MaxLevel == 2
Ignore(level) == "ignore" \o ToString(level)
IgnoreMoves ==
  UNION {LET s == Ignore(n) IN
         {<<s, Char \ {"<", "]"}, s>>, <<s, {"<"}, s \o "<">>, <<s \o "<", {"!"}, s \o "<!">>,
          <<s, {"]"}, s \o "]">>, <<s \o "]", {"]"}, s \o "]]">>} : n \in 0..MaxLevel}
    \cup {<<Ignore(n) \o "<!", {"["}, Ignore(n + 1)>> : n \in 0..MaxLevel - 1}
    \cup {<<Ignore(n) \o "]]", {">"}, Ignore(n - 1)>> : n \in 1..MaxLevel}
IgnoreFound == {<<Ignore(0) \o "]]", {">"}, "IGNORE_SECT", 0>>}

-----------------------------------------------------------------------------
Moves ==
  CommentMoves \cup PiMoves \cup DeclMoves \cup RefMoves("&") \cup PercentMoves \cup AttsMoves
    \cup TagMoves \cup EndTagMoves \cup ContentMoves \cup CdataMoves \cup LiteralMoves
    \cup NameMoves \cup PrologMoves \cup ValueMoves \cup IgnoreMoves
Found ==
  CommentFound \cup PiFound \cup DeclFound \cup RefFound("&") \cup PercentFound \cup AttsFound
    \cup TagFound \cup EndTagFound \cup ContentFound \cup CdataFound \cup LiteralFound
    \cup NameFound \cup PrologFound \cup ValueFound \cup IgnoreFound
AtEnd == ContentAtEnd \cup CdataAtEnd \cup LiteralAtEnd \cup NameAtEnd \cup PrologAtEnd \cup ValueAtEnd

States == {m[1] : m \in Moves} \cup {m[3] : m \in Moves}
Fallback(s) ==
  CASE s = "comment-" -> "comment" [] s \in {"pi ?", "xml ?"} -> (IF s = "pi ?" THEN "pi body" ELSE "xml body")
    [] s \in {"]", "]]", "data]", "data]]"} -> "data" [] s = "cdata]" -> "cdata chars"
    [] s = "NAME:" -> "NMTOKEN"
    [] \E n \in 0..MaxLevel : s \in {Ignore(n) \o x : x \in {"<", "<!", "]", "]]"}} ->
         Ignore(CHOOSE n \in 0..MaxLevel : s \in {Ignore(n) \o x : x \in {"<", "<!", "]", "]]"}})
    [] OTHER -> s

None == <<"", 0>>
Targets(s, c) == {m[3] : m \in {n \in Moves : n[1] = s /\ c \in n[2]}}
Tokens(s, c) == {<<f[3], f[4]>> : f \in {g \in Found : g[1] = s /\ c \in g[2]}}
Allowed(s, c) == Targets(s, c) \cup Tokens(s, c) # {}
Rule(s, c) ==
  LET t == IF Allowed(s, c) THEN s ELSE Fallback(s)
      targets == Targets(t, c)
      tokens == Tokens(t, c)
  IN CASE targets # {} -> [state |-> CHOOSE x \in targets : TRUE, token |-> None]
       [] tokens # {} -> [state |-> "", token |-> CHOOSE x \in tokens : TRUE]
       [] OTHER -> [state |-> "", token |-> <<"INVALID", 1>>]
Table == [s \in States |-> [c \in Class |-> Rule(s, c)]]
EndTable ==
  [s \in States |-> IF \E e \in AtEnd : e[1] = s
                    THEN LET e == CHOOSE e \in AtEnd : e[1] = s IN <<e[2], e[3]>> ELSE <<"PARTIAL", 0>>]

-----------------------------------------------------------------------------
ClassOf(unit) == IF unit \in {"T", "N"} THEN "bad" ELSE unit

(* The state after the character of class c, which begins at from and ends *)
(* at i, or the token it ends.  chars are the places characters begin at.  *)
Read(table, run, c, from, i) ==
  LET rule == table[run.state][c]
      chars == Append(run.chars, from)
      back == rule.token[2]
  IN [run EXCEPT !.state = rule.state, !.tok = rule.token[1], !.chars = chars,
                 !.next = IF back = 0 THEN i + 1 ELSE chars[Len(chars) + 1 - back],
                 !.lead = FALSE]

(* A character of two bytes is looked at when both are there; where it is  *)
(* an error anyway, its first byte is enough.                              *)
ReadUnit(table, text, run, i) ==
  LET rules == table[run.state]
      waits == rules["c2"].token[1] # "INVALID" /\ rules["L"].token[1] = "INVALID"
  IN
  CASE run.tok # "" -> run
    [] run.lead -> Read(table, run, IF text[i] = "T" THEN "c2" ELSE "bad", i - 1, i)
    [] ~run.lead /\ text[i] = "L" /\ waits -> [run EXCEPT !.lead = TRUE]
    [] OTHER -> Read(table, run, ClassOf(text[i]), i, i)

(* Mutant: the first byte of a character belongs to the data before it.    *)
EndedHalf(table, text, run) ==
  LET end == EndTable[run.state] IN
  CASE run.tok # "" -> [tok |-> run.tok, next |-> run.next]
    [] run.lead /\ Len(text) > 1 -> [tok |-> "DATA_CHARS", next |-> Len(text) + 1]
    [] run.lead -> [tok |-> "PARTIAL_CHAR", next |-> Len(text) + 1]
    [] OTHER -> [tok |-> end[1],
                 next |-> IF end[2] = 0 THEN Len(text) + 1
                          ELSE run.chars[Len(run.chars) + 1 - end[2]]]

(* What is returned at the end of the text.                                *)
Ended(table, text, run) ==
  LET end == EndTable[run.state]
      bad == table[run.state]["bad"].token
  IN CASE run.tok # "" -> [tok |-> run.tok, next |-> run.next]
       [] run.lead /\ bad[1] = "DATA_CHARS" -> [tok |-> bad[1], next |-> Len(text)]
       [] run.lead -> [tok |-> "PARTIAL_CHAR", next |-> Len(text) + 1]
       [] OTHER -> [tok |-> end[1],
                    next |-> IF end[2] = 0 THEN Len(text) + 1
                             ELSE run.chars[Len(run.chars) + 1 - end[2]]]

(* The token that a scanner finds at from: what it is, and where the next  *)
(* one begins.  Where there is no text there is NONE.                      *)
Tok(scanner, text, from) ==
  LET start == [state |-> scanner, tok |-> "", next |-> from, chars |-> <<>>, lead |-> FALSE]
      places == [k \in 1..Len(text) + 1 - from |-> from + k - 1]
      table == Table
  IN IF from > Len(text) THEN [tok |-> IF scanner = Ignore(0) THEN "PARTIAL" ELSE "NONE", next |-> from]
     ELSE Ended(table, text, FoldLeft(LAMBDA run, i : ReadUnit(table, text, run, i), start, places))

-----------------------------------------------------------------------------
(* getAtts: the attributes of a start tag that was scanned, by the quotes  *)
(* around their values.  normalized says that the value needs no copy.     *)
NewAttribute(at) == [name |-> at, value |-> 0, end |-> 0, normalized |-> TRUE]
Denormalized(atts) == [atts EXCEPT ![Len(atts)].normalized = FALSE]
(* Mutant: a blank before the closing quote is not looked for.             *)
StaysNormalizedTrailing(text, value, i, open) ==
  /\ i # value
  /\ text[i] = "S"
  /\ text[i + 1] # "S"

StaysNormalized(text, value, i, open) ==
  /\ i # value
  /\ text[i] = "S"
  /\ text[i + 1] \notin {"S", open}
Denormalizes(text, a, i) ==
  \/ text[i] \in {"&", "CR", "LF"}
  \/ text[i] \in {"S", "TAB"} /\ ~StaysNormalized(text, a.atts[Len(a.atts)].value, i, a.open)
(* Mutant: any quote ends a value.                                         *)
AttsStepAnyQuote(text, a, i) ==
  LET unit == text[i] IN
  CASE a.state = "done" -> a
    [] a.state = "inValue" /\ unit \in Quotes -> [a EXCEPT !.state = "other", !.atts[Len(a.atts)].end = i]
    [] a.state = "inValue" /\ Denormalizes(text, a, i) -> [a EXCEPT !.atts = Denormalized(a.atts)]
    [] a.state = "inName" /\ unit \in White -> [a EXCEPT !.state = "other"]
    [] a.state = "other" /\ unit \in NmStart \cup {"L"} ->
         [a EXCEPT !.state = "inName", !.atts = Append(a.atts, NewAttribute(i))]
    [] a.state # "inValue" /\ unit \in Quotes ->
         [a EXCEPT !.state = "inValue", !.open = unit, !.atts[Len(a.atts)].value = i + 1]
    [] a.state # "inValue" /\ unit \in {">", "/"} -> [a EXCEPT !.state = "done"]
    [] OTHER -> a

AttsStep(text, a, i) ==
  LET unit == text[i] IN
     CASE a.state = "done" -> a
       [] a.state = "inValue" /\ unit = a.open ->
            [a EXCEPT !.state = "other", !.atts[Len(a.atts)].end = i]
       [] a.state = "inValue" /\ Denormalizes(text, a, i) ->
            [a EXCEPT !.atts = Denormalized(a.atts)]
       [] a.state = "inName" /\ unit \in White -> [a EXCEPT !.state = "other"]
       [] a.state = "other" /\ unit \in NmStart \cup {"L"} ->
            [a EXCEPT !.state = "inName", !.atts = Append(a.atts, NewAttribute(i))]
       [] a.state # "inValue" /\ unit \in Quotes ->
            [a EXCEPT !.state = "inValue", !.open = unit, !.atts[Len(a.atts)].value = i + 1]
       [] a.state # "inValue" /\ unit \in {">", "/"} -> [a EXCEPT !.state = "done"]
       [] OTHER -> a
GetAtts(text, from) ==
  LET places == [k \in 1..Len(text) - from |-> from + k] IN
  FoldLeft(LAMBDA a, i : AttsStep(text, a, i), [state |-> "inName", open |-> "", atts |-> <<>>], places).atts

(* charRefNumber and checkCharRefNumber of a reference that was scanned:   *)
(* the number of its character, or -1 for a number that is none.           *)
Digit ==
  ("0" :> 0) @@ ("1" :> 1) @@ ("7" :> 7) @@ ("8" :> 8) @@ ("9" :> 9)
    @@ ("a" :> 10) @@ ("d" :> 13) @@ ("e" :> 14) @@ ("f" :> 15)
NotXml == (0..8) \cup {11, 12} \cup (14..31)
CheckCharRefNumber(n) ==
  IF n \in NotXml \/ n \in 55296..57343 \/ n \in {65534, 65535} THEN -1 ELSE n
(* Mutant: the first number beyond the last character is let through.      *)
CharRefNumberBeyond(ref) ==
  LET base == IF ref[3] = "x" THEN 16 ELSE 10
      digits == SelectSeq(SubSeq(ref, 3, Len(ref) - 1), LAMBDA u : u # "x")
      add(n, d) == IF n = -1 \/ n * base + Digit[d] > 1114112 THEN -1 ELSE n * base + Digit[d]
      n == FoldLeft(add, 0, digits)
  IN IF n = -1 THEN -1 ELSE CheckCharRefNumber(n)

CharRefNumber(ref) ==
  LET base == IF ref[3] = "x" THEN 16 ELSE 10
      digits == SelectSeq(SubSeq(ref, 3, Len(ref) - 1), LAMBDA u : u # "x")
      add(n, d) == IF n = -1 \/ n * base + Digit[d] >= 1114112 THEN -1 ELSE n * base + Digit[d]
      n == FoldLeft(add, 0, digits)
  IN IF n = -1 THEN -1 ELSE CheckCharRefNumber(n)

(* updatePosition: the place after the units first..last, given the place  *)
(* before them.  A CR takes the LF after it along when that is there.      *)
PositionStep(text, pos, i, first, last) ==
  CASE text[i] = "T" -> pos
    [] text[i] = "LF" /\ i > first /\ text[i - 1] = "CR" -> pos
    [] text[i] \in {"CR", "LF"} -> [line |-> pos.line + 1, column |-> 0]
    [] OTHER -> [pos EXCEPT !.column = pos.column + 1]
UpdatePosition(text, pos, first, last) ==
  FoldLeft(LAMBDA p, i : PositionStep(text, p, i, first, last), pos,
           [k \in 1..last - first + 1 |-> first + k - 1])
=============================================================================
