---------------------------- MODULE MCXmlStream -----------------------------
(* How a text begins, the units it goes on with, and how many of them.     *)
EXTENDS XmlStream

From(scanner, prefix, units, more) == [scanner |-> scanner, text |-> prefix, units |-> units, more |-> more]
ContentStarts ==
  {From("content", <<>>, {"]", ">", "CR", "LF", "x"}, 4),
   From("content", <<>>, {"L", "T", "N", "]", "&"}, 4),
   From("content", <<"<">>, {"/", "x", "S", ">", ":"}, 4),
   From("content", <<"<", "!", "[", "CDATA[">>, {"]", ">", "CR", "LF", "x"}, 4),
   From("content", <<"<", "!", "[">>, {"x", ">", "L"}, 6),
   From("content", <<"<", "!", "-">>, {"-", ">", "x", "L", "T"}, 4),
   From("content", <<"<", "?">>, {"xml", "XML", "x", "?", ">", "S"}, 4)}
TagStarts ==
  {From("content", <<"<", "x", "S", "x", "=", "'">>, {"S", "TAB", "x", "'", "&", ">"}, 4),
   From("content", <<"<", "x", "S", "x", "=", "'">>, {"CR", "LF", "'", "\"", ">"}, 4),
   From("content", <<"<", "x", "S", "x", "=", "'", "&", "x">>, {"S", ";", "'", ">"}, 4),
   From("content", <<"<", "x", "S", "x", "=", "'", "x", "'">>, {"S", "x", "=", "\"", "/", ">", ":"}, 4),
   From("content", <<"<", "x", "S", "x", "=", "'", "S", "'", "S">>, {"x", "=", "\"", ">", "L", "T"}, 5)}
ReferenceStarts ==
  {From("content", <<"&", "#", "x", "1">>, {"0", "1", "f", ";"}, 6),
   From("content", <<"&", "#", "x", "f">>, {"f", "9", ";"}, 4),
   From("content", <<"&", "#", "x", "d">>, {"7", "8", "f", "0", ";"}, 4),
   From("content", <<"&", "#", "x", "e", "0">>, {"0", ";"}, 3),
   From("content", <<"&", "#", "x", "f", "f", "f">>, {"d", "e", "f", ";"}, 2),
   From("content", <<"&", "#", "1">>, {"0", ";"}, 8)}
PrologStarts ==
  {From("prolog", <<>>, {"S", "CR", "LF", "x", "%", "]"}, 5),
   From("prolog", <<>>, {"!", "[", "?", "<", "-", "xml", ">", "S"}, 4),
   From("prolog", <<"<", "!">>, {"[", "x", "%", "S", "-"}, 4),
   From("prolog", <<"x">>, {":", "1", "S", "*", "?", "+", "L", "T"}, 3),
   From("prolog", <<>>, {"'", "x", "#", ">", ")", "|", ",", "("}, 4)}
OtherStarts ==
  {From("ignore0", <<>>, {"<", "!", "[", "]", ">"}, 5),
   From("attribute", <<>>, {"&", "x", ";", "CR", "LF", "S"}, 4),
   From("entity", <<>>, {"&", "x", ";", "CR", "LF", "%"}, 4)}
MCStarts == ContentStarts \cup TagStarts \cup ReferenceStarts \cup PrologStarts \cup OtherStarts
=============================================================================
