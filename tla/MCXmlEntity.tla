---------------------------- MODULE MCXmlEntity -----------------------------
(* Small instances of XmlEntity for TLC.                                   *)
EXTENDS XmlEntity

MCWidth(item) == CASE item = "(" -> 3 [] item = ")" -> 4 [] item = "&" -> 5 [] item \in {"a", "b"} -> 3 [] OTHER -> 1

Decl(is, text) == [is |-> is, inPe |-> FALSE, text |-> text]
DeclInPe(is) == [is |-> is, inPe |-> TRUE, text |-> <<"c">>]
Decls(a, b) == [e \in Entities |-> IF e = "a" THEN a ELSE b]
Document(kind, text, decl) ==
  [kind |-> kind, text |-> text, decl |-> decl, before |-> 4, account |-> IF kind = "value" THEN "none" ELSE "direct",
   tokenized |-> FALSE, unsure |-> FALSE, expand |-> TRUE, handler |-> TRUE, inPe |-> TRUE]

Texts(items) == {<<>>} \cup {<<i>> : i \in items} \cup {<<i, j>> : i, j \in items}

ContentRoots == {<<"a">>, <<"(", "a", ")", "b">>, <<"c", "a", "a">>}
ContentTexts == Texts({"c", "(", ")", "&", "a", "b"}) \cup {<<"c", "b", "b", "c">>, <<"(", "b", "c", ")", "b">>}
InnerTexts == {<<>>, <<"c">>, <<"(", ")">>, <<")", "(">>, <<"(">>, <<"a">>, <<"b", "c">>, <<"&", "c">>, <<"a", "c">>}
Plain(text) ==
  {Document("content", text, Decls(Decl(is[1], a), Decl(is[2], b))) :
     a \in ContentTexts, b \in InnerTexts,
     is \in {<<"internal", "internal">>, <<"internal", "external">>, <<"external", "internal">>}}
Odd(is) == IF is \in {"internal", "external"} THEN Decl(is, <<"c">>) ELSE Decl(is, <<>>)
Options ==
  {[Document(kind, <<"c", "a">>, Decls(Decl("internal", <<"b", "c">>), b)) EXCEPT
      !.unsure = unsure, !.expand = expand, !.handler = handler] :
     kind \in {"content", "attribute"}, unsure \in BOOLEAN, expand \in BOOLEAN, handler \in BOOLEAN,
     b \in {Odd(is) : is \in {"internal", "external", "unparsed", "undeclared"}} \cup {DeclInPe("internal")}}

AttributeRoots == {<<"a">>, <<"s", "a", "s", "b">>, <<"a", "s", "a">>}
AttributeDocuments ==
  {[Document("attribute", text, Decls(Decl("internal", a), Decl("internal", b))) EXCEPT
      !.tokenized = tokenized, !.account = account] :
     text \in AttributeRoots, a \in Texts({"c", "s", "&", "(", "a", "b"}) \cup {<<"s", "b", "b", "s">>},
     b \in {<<>>, <<"s">>, <<"s", "s">>, <<"s", "c">>, <<"a">>, <<"b">>, <<"a", "s">>},
     tokenized \in BOOLEAN, account \in {"direct", "none"}}

(* External entities refer to no internal one, see LostDocuments.          *)
ValueRoots == {<<"a">>, <<"c", "b", "a">>, <<"a", "a", "c">>}
ValueDocuments ==
  {[Document("value", text, Decls(Decl("internal", a), b)) EXCEPT
      !.inPe = inPe, !.handler = handler, !.before = before] :
     text \in ValueRoots \cup {<<"c", "&">>}, a \in Texts({"c", "&", "a", "b"}),
     inPe \in BOOLEAN, handler \in BOOLEAN, before \in {0, 8},
     b \in {Decl("internal", t) : t \in {<<>>, <<"a">>, <<"c", "b">>}}
           \cup {Decl("external", t) : t \in {<<>>, <<"&", "&">>, <<"c", "b">>}}
           \cup {Decl("declared", <<>>), Decl("undeclared", <<>>)}}
  \cup {Document("value", text, Decls(Decl("external", a), Decl("external", b))) :
          text \in ValueRoots, a, b \in {<<"c">>, <<"a", "c">>, <<"b">>, <<"&", "b", "c">>}}

MCDocuments ==
  UNION {Plain(text) : text \in ContentRoots} \cup Options \cup AttributeDocuments \cup ValueDocuments

(* An external entity in a value that refers to an internal one.           *)
LostDocuments ==
  {Document("value", text, Decls(Decl("internal", <<"c">>), Decl("external", b))) :
     text \in {<<"b">>, <<"c", "b", "a">>}, b \in {<<"a">>, <<"c", "a", "c">>}}
=============================================================================
