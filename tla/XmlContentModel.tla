--------------------------- MODULE XmlContentModel ---------------------------
(***************************************************************************)
(* The content model of an element declaration while it is read, and the   *)
(* array of XML_Content made of it (nextScaffoldPart and build_model of    *)
(* lib/expat/lib/xmlparse.c).  Index 0 is the root, and as a link no node. *)
(***************************************************************************)
EXTENDS Integers, Sequences, FiniteSets, TLC, SequencesExt

CONSTANTS
  ScaffoldSize,  \* INIT_SCAFFOLD_ELEMENTS
  Unset          \* memory that was never written

(* DTD's scaffold: parts are the scaffCount nodes in use of size, index is *)
(* scaffIndex, the nodes of the groups that are open down to level.        *)
EmptyScaffold == [parts |-> <<>>, size |-> 0, level |-> 0, index |-> <<>>]

Count(sc) == Cardinality(DOMAIN sc.parts)

(* A sequence with room for n values, what it has kept.                    *)
Resized(seq, n) == [i \in 1..n |-> IF i <= Len(seq) THEN seq[i] ELSE Unset]

Extended(parts, n, node) == [i \in (DOMAIN parts) \cup {n} |-> IF i = n THEN node ELSE parts[i]]

LinkedTo(parts, parent, next) ==
  LET p == parts[parent]
      linked == [p EXCEPT !.firstchild = IF p.childcnt = 0 THEN next ELSE @,
                          !.lastchild = next, !.childcnt = @ + 1]
      sibling == IF p.lastchild = 0 THEN parts
                 ELSE [parts EXCEPT ![p.lastchild].nextsib = next]
  IN [sibling EXCEPT ![parent] = linked]

(* Mutant: the array of nodes is allocated once and never grows.           *)
NextScaffoldPartOnce(sc, groupSize) ==
  LET n == Count(sc)
      node == [type |-> Unset, quant |-> Unset, name |-> Unset,
               firstchild |-> 0, lastchild |-> 0, childcnt |-> 0, nextsib |-> 0]
      parts == IF sc.level = 0 THEN sc.parts
               ELSE LinkedTo(sc.parts, sc.index[sc.level], n)
  IN [sc EXCEPT !.parts = Extended(parts, n, node), !.size = IF @ = 0 THEN ScaffoldSize ELSE @,
                !.index = IF @ = <<>> THEN Resized(<<0>>, groupSize) ELSE @]

(* nextScaffoldPart: a new node, the last child of the innermost group.    *)
NextScaffoldPart(sc, groupSize) ==
  LET n == Count(sc)
      node == [type |-> Unset, quant |-> Unset, name |-> Unset,
               firstchild |-> 0, lastchild |-> 0, childcnt |-> 0, nextsib |-> 0]
      parts == IF sc.level = 0 THEN sc.parts
               ELSE LinkedTo(sc.parts, sc.index[sc.level], n)
  IN [sc EXCEPT !.parts = Extended(parts, n, node),
                !.size = IF n < @ THEN @ ELSE IF @ = 0 THEN ScaffoldSize ELSE 2 * @,
                !.index = IF @ = <<>> THEN Resized(<<0>>, groupSize) ELSE @]

Children(parts, part) ==
  LET child[i \in 1..parts[part].childcnt] ==
        IF i = 1 THEN parts[part].firstchild ELSE parts[child[i - 1]].nextsib
  IN child

(* build_model: nodes become array elements in the order in which they     *)
(* became somebody's children, so that siblings are next to each other.    *)
BuildModel(sc) ==
  LET Convert(done, i) ==
        LET part == sc.parts[done.jobs[i]]
            kids == IF part.type = "NAME" THEN <<>> ELSE Children(sc.parts, done.jobs[i])
        IN [jobs |-> done.jobs \o kids,
            nodes |-> Append(done.nodes,
                        [type |-> part.type, quant |-> part.quant,
                         name |-> IF part.type = "NAME" THEN part.name ELSE Unset,
                         children |-> [k \in DOMAIN kids |-> Len(done.jobs) + k]])]
  IN FoldLeft(Convert, [jobs |-> <<0>>, nodes |-> <<>>], [i \in 1..Count(sc) |-> i]).nodes

(* The tokens that declare the content model: what the application can     *)
(* tell from the array, from its first element down.                       *)
Quantified(kind, quant) ==
  kind \o (CASE quant = "NONE" -> "" [] quant = "OPT" -> "_QUESTION"
             [] quant = "REP" -> "_ASTERISK" [] quant = "PLUS" -> "_PLUS"
             [] OTHER -> "_UNSET")

Spelled(nodes) ==
  LET Joined(words, sep) ==
        FoldLeft(LAMBDA all, w : IF all = <<>> THEN w ELSE all \o <<sep>> \o w, <<>>, words)
      spell[i \in 1..Len(nodes)] ==
        LET node == nodes[i]
            kids == [k \in DOMAIN node.children |-> spell[node.children[k]]]
            mixed == IF node.type = "MIXED" THEN <<<<<<"POUND_NAME", "PCDATA">>>>>> ELSE <<>>
            sep == <<IF node.type = "SEQ" THEN "COMMA" ELSE "OR", "">>
        IN IF node.type = "NAME" THEN <<<<Quantified("NAME", node.quant), node.name>>>>
           ELSE <<<<"OPEN_PAREN", "">>>> \o Joined(mixed \o kids, sep)
                  \o <<<<Quantified("CLOSE_PAREN", node.quant), "">>>>
  IN spell[1]
=============================================================================
