----------------------------- MODULE XmlStream ------------------------------
(***************************************************************************)
(* A text that arrives in pieces and the tokens found in it: the loops of  *)
(* doContent, doCdataSection, doIgnoreSection and doProlog around the      *)
(* scanners of XmlTok, and the position they leave (xmlparse.c).           *)
(*                                                                         *)
(* After every piece the scanner reads from the last token on.  What may   *)
(* become another token when more arrives has to wait for it, and only the *)
(* last piece ends a token by itself.                                      *)
(***************************************************************************)
EXTENDS XmlTok

CONSTANT Starts   \* [scanner, text, units, more]: what a text begins with, and how it goes on

VARIABLES
  start,    \* the way this text began
  text,     \* what has arrived
  final,    \* whether the caller has said that this was all
  run,      \* the scanner, where it reads, the tokens found, and how it ended
  place,    \* the line and column counted so far
  counted   \* up to where they are counted

vars == <<start, text, final, run, place, counted>>

Begin(scanner) == [scanner |-> scanner, from |-> 1, tokens |-> <<>>, status |-> "reading"]
Init ==
  /\ start \in Starts
  /\ text = start.text
  /\ final = FALSE
  /\ run = Begin(start.scanner)
  /\ place = [line |-> 1, column |-> 0]
  /\ counted = 0

-----------------------------------------------------------------------------
(* The scanner that goes on after a token.                                 *)
NextScanner(scanner, tok) ==
  CASE tok = "CDATA_SECT_OPEN" -> "cdata"
    [] tok \in {"CDATA_SECT_CLOSE", "INSTANCE_START"} -> "content"
    [] tok = "IGNORE_SECT" -> "prolog"
    [] OTHER -> scanner

(* Data is reported as it comes: where it is cut means nothing.            *)
Mergeable == {"DATA_CHARS", "PROLOG_S"}
(* Mutant: data that goes on is not reported.                              *)
WithTokenOnce(tokens, t) ==
  IF tokens # <<>> /\ t.tok \in Mergeable /\ tokens[Len(tokens)].tok = t.tok
  THEN tokens ELSE Append(tokens, t)

WithToken(tokens, t) ==
  IF tokens # <<>> /\ t.tok \in Mergeable /\ tokens[Len(tokens)].tok = t.tok
  THEN [tokens EXCEPT ![Len(tokens)].next = t.next]
  ELSE Append(tokens, t)

(* Negative tokens are complete only if the text is.                       *)
Trailing ==
  [tok \in {"-LITERAL", "-POUND_NAME", "-NAME", "-PREFIXED_NAME", "-NMTOKEN", "-PROLOG_S",
            "-CLOSE_BRACKET", "-CLOSE_PAREN", "TRAILING_CR", "TRAILING_RSQB"} |->
     CASE tok = "-LITERAL" -> "LITERAL" [] tok = "-POUND_NAME" -> "POUND_NAME"
       [] tok = "-NAME" -> "NAME" [] tok = "-PREFIXED_NAME" -> "PREFIXED_NAME"
       [] tok = "-NMTOKEN" -> "NMTOKEN" [] tok = "-PROLOG_S" -> "PROLOG_S"
       [] tok = "-CLOSE_BRACKET" -> "CLOSE_BRACKET" [] tok = "-CLOSE_PAREN" -> "CLOSE_PAREN"
       [] tok = "TRAILING_CR" -> "DATA_NEWLINE" [] OTHER -> "DATA_CHARS"]

Incomplete == {"NONE", "PARTIAL", "PARTIAL_CHAR"} \cup DOMAIN Trailing
Errors == {"INVALID", "PARTIAL", "PARTIAL_CHAR"}
(* m_eventPtr of an error: where the character is that may not stand there,*)
(* or where the token begins that does not end.                            *)
ErrorAt(from, found) == IF found.tok = "INVALID" THEN found.next ELSE from

Took(r, tok, next) ==
  [r EXCEPT !.tokens = WithToken(r.tokens, [tok |-> tok, from |-> r.from, next |-> next]),
            !.from = next, !.scanner = NextScanner(r.scanner, tok)]
Take(r, found, t, all) ==
  CASE r.status # "reading" -> r
    [] found.tok \in Incomplete /\ ~all -> r
    [] found.tok = "NONE" -> [r EXCEPT !.status = "end"]
    [] found.tok \in Errors -> [r EXCEPT !.status = found.tok, !.from = ErrorAt(r.from, found)]
    [] found.tok \in DOMAIN Trailing -> Took(r, Trailing[found.tok], Len(t) + 1)
    [] OTHER -> Took(r, found.tok, found.next)
Step(r, t, all) == Take(r, Tok(r.scanner, t, r.from), t, all)

-----------------------------------------------------------------------------
(* XML_Parse with one more unit; the values of attributes and entities are *)
(* looked at when they are whole.                                          *)
Values == {"attribute", "entity"}
Arrive ==
  /\ ~final
  /\ run.status = "reading"
  /\ Len(text) < Len(start.text) + start.more
  /\ \E unit \in start.units : text' = Append(text, unit)
  /\ UNCHANGED <<start, final, run, place, counted>>

Finish ==
  /\ ~final
  /\ run.status = "reading"
  /\ final' = TRUE
  /\ UNCHANGED <<start, text, run, place, counted>>

Scan ==
  /\ run.status = "reading"
  /\ run.scanner \in Values => final
  /\ run' = Step(run, text, final)
  /\ run' # run
  /\ UNCHANGED <<start, text, final, place, counted>>

(* The end of a call of XML_Parse, or XML_GetCurrentLineNumber and         *)
(* XML_GetCurrentColumnNumber in a handler or after an error.              *)
Locate ==
  /\ counted < run.from - 1
  /\ place' = UpdatePosition(text, place, counted + 1, run.from - 1)
  /\ counted' = run.from - 1
  /\ UNCHANGED <<start, text, final, run>>

Next == Arrive \/ Finish \/ Scan \/ Locate
Spec == Init /\ [][Next]_vars

-----------------------------------------------------------------------------
Whole == FoldLeft(LAMBDA r, i : Step(r, text, TRUE), Begin(start.scanner), [i \in 1..Len(text) + 2 |-> i])

TypeOK ==
  /\ start \in Starts
  /\ text \in Seq(Class \cup {"T", "N"})
  /\ final \in BOOLEAN
  /\ run.status \in Errors \cup {"reading", "end"}
  /\ run.from \in 1..Len(text) + 1
  /\ \A i \in 1..Len(run.tokens) :
       /\ run.tokens[i].from <= run.tokens[i].next
       /\ run.tokens[i].from = (IF i = 1 THEN 1 ELSE run.tokens[i - 1].next)
  /\ counted \in 0..Len(text)
  /\ place \in [line : 1..Len(text) + 1, column : 0..Len(text)]

(* However a text is cut into pieces, the tokens found in it, the end and  *)
(* the place of an error are those of the same text in one piece; only the *)
(* data before an error may have been reported or not (haveMore, and the   *)
(* partial and negative tokens of the scanners).                           *)
Reported(r) ==
  IF r.status = "INVALID" /\ r.tokens # <<>> /\ r.tokens[Len(r.tokens)].tok \in Mergeable
  THEN Front(r.tokens) ELSE r.tokens
SameAs(whole) ==
  /\ Reported(run) = Reported(whole)
  /\ run.status = whole.status
  /\ run.from = whole.from
SameTokens == run.status # "reading" => SameAs(Whole)

(* A character of two bytes is never cut: neither by a token nor by the    *)
(* place an error is reported at (the LEAD_CASEs, XML_TOK_PARTIAL_CHAR).   *)
NoCharacterCut ==
  \A i \in {run.from} \cup {run.tokens[k].from : k \in 1..Len(run.tokens)} :
    i \in 2..Len(text) => ~(text[i - 1] = "L" /\ text[i] = "T")

(* The line and column do not depend on when they were asked for or on how *)
(* the text was cut: a CR LF is one line (updatePosition, incremental from *)
(* m_positionPtr).                                                         *)
LinesCountedOnce ==
  place = UpdatePosition(text, [line |-> 1, column |-> 0], 1, counted)

(* Where a text is cut makes no difference to the tokens, to the           *)
(* characters or to the lines counted.                                     *)
CutsInvisible == TypeOK /\ SameTokens /\ NoCharacterCut /\ LinesCountedOnce

-----------------------------------------------------------------------------
TagTokens == {"START_TAG_WITH_ATTS", "EMPTY_ELEMENT_WITH_ATTS"}
TokensOf(kinds) == {run.tokens[k] : k \in {j \in 1..Len(run.tokens) : run.tokens[j].tok \in kinds}}
(* The state of the scanner after each unit of a token of the content.     *)
StatesOf(t) ==
  LET table == Table
      first == [state |-> "content", tok |-> "", next |-> t.from, chars |-> <<>>, lead |-> FALSE]
  IN [i \in t.from..t.next - 1 |->
        FoldLeft(LAMBDA r, k : ReadUnit(table, text, r, k), first,
                 [k \in 1..i - t.from + 1 |-> t.from + k - 1]).state]

(* getAtts, which only looks at quotes, finds the names and values that    *)
(* scanAtts read when it accepted the tag, in the same order.              *)
AttributesFound ==
  \A t \in TokensOf(TagTokens) :
    LET atts == GetAtts(text, t.from)
        states == StatesOf(t)
        places(state, before) ==
          {i \in t.from + 1..t.next - 2 : states[i] = state /\ states[i - 1] \in before}
    IN /\ {atts[k].name : k \in 1..Len(atts)} = places("att", {"tag ", "atts "})
       /\ {atts[k].value - 1 : k \in 1..Len(atts)} = places("'", {"="}) \cup places("\"", {"="})
       /\ {atts[k].end : k \in 1..Len(atts)} = places("value", Quotes)
       /\ \A k \in 1..Len(atts) : atts[k].name < atts[k].value /\ atts[k].value <= atts[k].end

(* A value that getAtts calls normalized is used as it stands also where   *)
(* normalization trims and joins blanks: appendAttributeValue would have   *)
(* made the same of it (storeAtts).                                        *)
ValueTokens(value) ==
  FoldLeft(LAMBDA r, i : Step(r, value, TRUE), Begin("attribute"), [i \in 1..Len(value) + 1 |-> i]).tokens
Blank == {"ATTRIBUTE_VALUE_S", "DATA_NEWLINE"}
Spaced(value, tokens) ==
  LET put(out, t) ==
        IF t.tok \notin Blank THEN out \o SubSeq(value, t.from, t.next - 1)
        ELSE IF out = <<>> \/ Last(out) = "S" THEN out ELSE Append(out, "S")
      out == FoldLeft(put, <<>>, tokens)
  IN IF out # <<>> /\ Last(out) = "S" THEN Front(out) ELSE out
UsedAsItStands(value, tokens) ==
  /\ \A j \in 1..Len(tokens) : tokens[j].tok \in Blank \cup {"DATA_CHARS"}
  /\ Spaced(value, tokens) = value
NormalizedUnchanged ==
  \A t \in TokensOf(TagTokens) :
    \A a \in ToSet(GetAtts(text, t.from)) :
      LET value == SubSeq(text, a.value, a.end - 1) IN
      a.normalized => UsedAsItStands(value, ValueTokens(value))

(* The second reading of a start tag agrees with the first: on where the   *)
(* attributes are and on what their values need (getAtts).                 *)
AttributesAgree == AttributesFound /\ NormalizedUnchanged

(* A character reference means the number it spells when that is a         *)
(* character of XML, and none otherwise: no number of digits overflows     *)
(* (charRefNumber).                                                        *)
Significant(digits) ==
  LET from == CHOOSE k \in 1..Len(digits) + 1 :
                /\ \A j \in 1..k - 1 : digits[j] = "0"
                /\ k <= Len(digits) => digits[k] # "0"
  IN SubSeq(digits, from, Len(digits))
Spelled(ref) ==
  LET hex == ref[3] = "x"
      digits == Significant(SubSeq(ref, IF hex THEN 4 ELSE 3, Len(ref) - 1))
      weight(k) == (IF hex THEN 16 ELSE 10) ^ (Len(digits) - k)
      number == FoldLeft(LAMBDA n, k : n + Digit[digits[k]] * weight(k), 0, [k \in 1..Len(digits) |-> k])
  IN IF Len(digits) > 7 THEN 1114112 ELSE number
XmlChar(n) ==
  n \in {9, 10, 13} \/ n \in 32..55295 \/ n \in 57344..65533 \/ n \in 65536..1114111
CharRefsExact ==
  \A t \in TokensOf({"CHAR_REF"}) :
    LET ref == SubSeq(text, t.from, t.next - 1) IN
    CharRefNumber(ref) = (IF XmlChar(Spelled(ref)) THEN Spelled(ref) ELSE -1)
=============================================================================
