---------------------------- MODULE MCXmlContent ----------------------------
(* Small instances of XmlContent for TLC.                                  *)
EXTENDS XmlContent

A == <<"", "a">>
PA == <<"p", "a">>
PLong == <<"p", "long">>
Att(name, value) == [name |-> name, value |-> value]
Tag(name, atts) == [name |-> name, atts |-> atts]

BadBinding(prefix, uri) == Tag(A, <<Att(<<"xmlns", prefix>>, uri)>>)
MCStartTags ==
  {Tag(A, <<>>),
   Tag(A, <<Att(<<"", "xmlns">>, "u")>>),
   Tag(A, <<Att(<<"", "xmlns">>, "")>>),
   Tag(PA, <<Att(<<"", "x">>, "0"), Att(<<"p", "x">>, "1"), Att(<<"xmlns", "p">>, "u"),
            Att(<<"xmlns", "q">>, "u"), Att(<<"q", "x">>, "2")>>),
   Tag(A, <<Att(<<"", "x">>, "1"), Att(<<"", "x">>, "2")>>),
   Tag(PA, <<Att(<<"xmlns", "p">>, "v")>>),
   Tag(PLong, <<Att(<<"q", "x">>, "1")>>),
   Tag(<<"q", "a">>, <<>>), Tag(<<"xmlns", "a">>, <<>>)}
  \cup {BadBinding("p", ""), BadBinding("xmlns", "u"), BadBinding("p", "separator"),
        BadBinding("xml", "u"), BadBinding("p", Xml)}
MCDefaults(name) ==
  IF name = PA THEN <<Att(<<"", "x">>, Null), Att(<<"p", "x">>, "0")>>
  ELSE IF name = PLong THEN <<Att(<<"", "x">>, "0"), Att(<<"q", "x">>, "0"), Att(<<"xmlns", "q">>, "w")>>
  ELSE IF name = <<"q", "a">> THEN <<Att(<<"xmlns", "q">>, Xmlns)>>
  ELSE <<>>
MCIdAttribute(name) == IF name = PA THEN Null ELSE IF name = PLong THEN <<"q", "x">> ELSE Null
MCSetups == {<<FALSE, FALSE, 0>>, <<TRUE, FALSE, 0>>, <<TRUE, TRUE, 0>>, <<TRUE, TRUE, 1>>}
MCContexts == {<<<<"", "u">>, <<"p", "u">>, <<"xml", Xml>>>>}
MCWidth(part) == IF part = "long" THEN 8 ELSE 1
=============================================================================
