-------------------------- MODULE XmlEntity_proofs --------------------------
(***************************************************************************)
(* What XmlEntity guarantees of the lists of open entities, of how much    *)
(* comes out, and of what is refused for recursion or for tags that do not *)
(* nest, for every finite set of entities, all documents, every limit and  *)
(* every width of tokens.                                                  *)
(***************************************************************************)
EXTENDS XmlEntity, TLAPS, SequenceTheorems, FiniteSetTheorems, NaturalsInduction, WellFoundedInduction

-----------------------------------------------------------------------------
(* What holds of each parser, the n-th from the root.                      *)
Lowest(n) == IF n = 1 THEN 0 ELSE 1
ParserOK(p, lowest) == p \in Parser /\ Marks(p) /\ OpenOnce(p) /\ ReadsHead(p) /\ LevelsNest(p, lowest)

(* A parser is what its fields are.                                        *)
LEMMA Fields ==
  ASSUME NEW p \in Parser
  PROVE  /\ p = [text |-> p.text, account |-> p.account, pos |-> p.pos, level |-> p.level, open |-> p.open,
                 isOpen |-> p.isOpen, more |-> p.more, processed |-> p.processed, at |-> p.at, cur |-> p.cur,
                 s |-> p.s, error |-> p.error]
         /\ p.text \in Seq(Items) /\ p.pos \in Nat /\ p.level \in Nat /\ p.open \in Seq(OpenedEntity)
         /\ p.isOpen \in SUBSET Entities /\ p.more \in SUBSET Entities /\ p.processed \in [Entities -> Nat]
         /\ p.cur \in Entities \cup {Null} /\ p.s \in Nat /\ p.error \in Errors
BY DEF Parser

(* The texts of a document.                                                *)
LEMMA Texts ==
  ASSUME IsDocument(doc), NEW p \in Parser
  PROVE  Text(p) \in Seq(Items) /\ Len(Text(p)) \in Nat
<1>1. p.text \in Seq(Items) /\ p.cur \in Entities \cup {Null}
  BY Fields
<1>2. Text(p) \in Seq(Items)
  BY <1>1 DEF Text, IsDocument
<1> QED  BY <1>2

(* Where a text has been left is marked.                                   *)
MarksLeft(p, next, q) ==
  /\ q.more = IF p.cur # Null /\ next = Len(Text(p)) THEN p.more \ {p.cur} ELSE p.more
  /\ q.processed = IF p.cur # Null /\ next # Len(Text(p)) THEN [p.processed EXCEPT ![p.cur] = next] ELSE p.processed

(* A text is left: where the parser goes on, what is marked and that       *)
(* nothing is read is all that changes.                                    *)
LEMMA LeftIs ==
  ASSUME IsDocument(doc), NEW p \in Parser, Marks(p), NEW next \in Nat, next <= Len(Text(p)),
         NEW q, q = Left(p, next)
  PROVE  /\ q \in Parser /\ Marks(q)
         /\ q.text = p.text /\ q.level = p.level /\ q.open = p.open /\ q.isOpen = p.isOpen
         /\ q.at = p.at /\ q.cur = Null /\ q.error = p.error /\ q.account = p.account
         /\ q.pos = IF p.cur = Null THEN next ELSE p.pos
         /\ MarksLeft(p, next, q)
<1> DEFINE r == Marked(p, next)
           pos == IF p.cur = Null THEN next ELSE p.pos
           more == IF p.cur # Null /\ next = Len(Text(p)) THEN p.more \ {p.cur} ELSE p.more
           processed == IF p.cur # Null /\ next # Len(Text(p)) THEN [p.processed EXCEPT ![p.cur] = next] ELSE p.processed
<1>1. r = [text |-> p.text, account |-> p.account, pos |-> pos, level |-> p.level, open |-> p.open,
           isOpen |-> p.isOpen, more |-> more, processed |-> processed, at |-> p.at, cur |-> p.cur,
           s |-> p.s, error |-> p.error]
  <2>1. CASE p.cur = Null
    BY <2>1, Fields DEF Marked
  <2>2. CASE p.cur # Null /\ next # Len(Text(p))
    <3>1. pos = p.pos /\ more = p.more /\ processed = [p.processed EXCEPT ![p.cur] = next]
      BY <2>2
    <3>2. r = [p EXCEPT !.processed = [p.processed EXCEPT ![p.cur] = next]]
      BY <2>2 DEF Marked
    <3> HIDE DEF r, pos, more, processed
    <3>3. r = [p EXCEPT !.processed = processed]
      BY <3>1, <3>2
    <3>4. p = [text |-> p.text, account |-> p.account, pos |-> p.pos, level |-> p.level, open |-> p.open,
               isOpen |-> p.isOpen, more |-> p.more, processed |-> p.processed, at |-> p.at, cur |-> p.cur,
               s |-> p.s, error |-> p.error]
      BY Fields
    <3> QED  BY <3>1, <3>3, <3>4
  <2>3. CASE p.cur # Null /\ next = Len(Text(p))
    <3>1. pos = p.pos /\ more = p.more \ {p.cur} /\ processed = p.processed
      BY <2>3
    <3>2. r = [p EXCEPT !.more = p.more \ {p.cur}]
      BY <2>3 DEF Marked
    <3> HIDE DEF r, pos, more, processed
    <3>3. r = [p EXCEPT !.more = more]
      BY <3>1, <3>2
    <3>4. p = [text |-> p.text, account |-> p.account, pos |-> p.pos, level |-> p.level, open |-> p.open,
               isOpen |-> p.isOpen, more |-> p.more, processed |-> p.processed, at |-> p.at, cur |-> p.cur,
               s |-> p.s, error |-> p.error]
      BY Fields
    <3> QED  BY <3>1, <3>3, <3>4
  <2> QED  BY <2>1, <2>2, <2>3
<1>1a. q = [r EXCEPT !.cur = Null, !.s = 0]
  BY DEF Left
<1> HIDE DEF r, pos, more, processed
<1>2. q = [text |-> p.text, account |-> p.account, pos |-> pos, level |-> p.level, open |-> p.open,
           isOpen |-> p.isOpen, more |-> more, processed |-> processed, at |-> p.at, cur |-> Null,
           s |-> 0, error |-> p.error]
  BY <1>1, <1>1a
<1>3. pos \in Nat /\ more \in SUBSET Entities /\ processed \in [Entities -> Nat]
  BY Fields DEF pos, more, processed
<1>4. pos <= Len(p.text)
  BY DEF pos, Marks, Text
<1>5. \A e \in Entities : processed[e] <= Len(doc.decl[e].text)
  <2>1. TAKE e \in Entities
  <2>2. CASE p.cur = e /\ p.cur # Null
    BY <2>2, Fields DEF processed, Marks, Text
  <2>3. CASE p.cur # e \/ p.cur = Null
    BY <2>3, Fields DEF processed, Marks
  <2> QED  BY <2>2, <2>3
<1>6. q \in Parser
  BY <1>2, <1>3 DEF Parser
<1>7. /\ Len(p.text) \in Nat /\ q.cur = Null /\ q.s = 0 /\ q.text = p.text /\ q.pos = pos /\ q.processed = processed
      /\ q.more = more
  BY <1>2, Fields
<1>8. Marks(q)
  BY <1>4, <1>5, <1>7 DEF Marks, Text
<1> QED  BY <1>2, <1>6, <1>7, <1>8 DEF MarksLeft, pos, more, processed

-----------------------------------------------------------------------------
(* The parsers, from the root to the one that is reading.                  *)
Waits(ps, n) == Text(ps[n])[ps[n].s + 1]
Before(ps, n) == IF n = 1 THEN {} ELSE ps[n - 1].isOpen \cup {Waits(ps, n - 1)}
Link(ps, n) ==
  n > 1 =>
    /\ ~Kind("attribute") /\ ps[n - 1].at = "external"
    /\ Waits(ps, n - 1) \in Entities /\ doc.decl[Waits(ps, n - 1)].is = "external"
    /\ ps[n].text = doc.decl[Waits(ps, n - 1)].text
    /\ Waits(ps, n - 1) \notin ps[n - 1].isOpen
    /\ Kind("value") => ps[n].open = <<>> /\ ps[n].cur = Null
Place(ps, n) ==
  /\ ParserOK(ps[n], Lowest(n)) /\ Link(ps, n)
  /\ ps[n].isOpen = Before(ps, n) \cup Listed(ps[n]) /\ Before(ps, n) \cap Listed(ps[n]) = {}
Chain(ps) == ps \in Seq(Parser) /\ Len(ps) > 0 /\ \A n \in DOMAIN ps : Place(ps, n)

(* What holds of a parser depends on the one above it only.                *)
LEMMA Extend ==
  ASSUME NEW ps, NEW qs, Chain(ps), NEW k \in Nat, qs \in Seq(Parser), Len(qs) = k + 1, k <= Len(ps),
         \A m \in 1..k : qs[m] = ps[m], Place(qs, k + 1)
  PROVE  Chain(qs)
<1>1. Len(ps) \in Nat /\ DOMAIN ps = 1..Len(ps) /\ DOMAIN qs = 1 .. k + 1
  BY DEF Chain
<1>2. ASSUME NEW n \in 1..k PROVE Place(qs, n)
  <2>1. n \in DOMAIN ps /\ qs[n] = ps[n] /\ (n > 1 => n - 1 \in 1..k)
    BY <1>1, <1>2
  <2>2. n > 1 => qs[n - 1] = ps[n - 1]
    BY <2>1
  <2>3. n = 1 \/ n > 1
    BY <1>2
  <2>4. Place(ps, n)
    BY <2>1 DEF Chain
  <2> QED  BY <2>1, <2>2, <2>3, <2>4 DEF Place, Link, Before, Waits
<1>3. \A n \in 1 .. k + 1 : n \in 1..k \/ n = k + 1
  OBVIOUS
<1> QED  BY <1>1, <1>2, <1>3 DEF Chain

(* Where documents do not change, neither does what this says.             *)
LEMMA ChainAfter ==
  ASSUME UNCHANGED doc, NEW qs, qs = parsers', Chain(qs)
  PROVE  Chain(parsers)'
<1>1. doc' = doc /\ parsers' = qs
  OBVIOUS
<1>2. ASSUME NEW n PROVE Place(qs, n) => Place(parsers, n)'
  <2>1. ParserOK(qs[n], Lowest(n)) => ParserOK(parsers[n], Lowest(n))'
    BY <1>1 DEF ParserOK, Lowest, Marks, OpenOnce, ReadsHead, LevelsNest, Text
  <2>2. Waits(parsers, n - 1)' = Waits(qs, n - 1)
    BY <1>1 DEF Waits, Text
  <2>3. Before(parsers, n)' = Before(qs, n) /\ Listed(parsers[n])' = Listed(qs[n])
    BY <1>1, <2>2 DEF Before, Listed
  <2>4. Link(qs, n) => Link(parsers, n)'
    BY <1>1, <2>2 DEF Link, Kind
  <2> QED  BY <1>1, <2>1, <2>3, <2>4 DEF Place
<1> QED  BY <1>1, <1>2 DEF Chain

(* A parser whose list stays.                                              *)
LEMMA SameList ==
  ASSUME NEW p, NEW q, NEW lowest, ParserOK(p, lowest), q \in Parser, Marks(q), ReadsHead(q), q.open = p.open,
         \/ q.level = p.level
         \/ q.level \in Nat /\ lowest <= q.level /\ (p.open # <<>> => p.open[1].level <= q.level)
  PROVE  ParserOK(q, lowest) /\ Listed(q) = Listed(p)
BY DEF ParserOK, OpenOnce, LevelsNest, Listed

(* The rest of EntityInv.                                                  *)
Counted ==
  /\ IsFiniteSet(self.isOpen)
  /\ cause = "NONE" => Cardinality(self.isOpen) = depth + IF Kind("value") THEN 0 ELSE Len(parsers) - 1
Counters == status \in {"PARSING", "SUSPENDED"} /\ direct \in Nat /\ indirect \in Nat /\ depth \in Int
Results == Counters /\ cause \in Errors

Together == IsDocument(doc) /\ Chain(parsers) /\ self.at # "external" /\ Counted /\ Results /\ ErrorsEnd

(* EntityInv, one parser at a time.                                        *)
LEMMA Parts == EntityInv <=> Together
<1>1. parsers \in Seq(Parser) => DOMAIN parsers \subseteq Nat /\ \A n \in DOMAIN parsers : n > 1 <=> n # 1
  <2>1. parsers \in Seq(Parser) => DOMAIN parsers = 1..Len(parsers)
    OBVIOUS
  <2> QED  BY <2>1
<1>2. \A n : Waiting(n) = Waits(parsers, n)
  BY DEF Waiting, Waits
<1>3. parsers \in Seq(Parser) =>
        \A n \in DOMAIN parsers : OpenBefore(n) = Before(parsers, n) /\ parsers[n] \in Parser
  <2>1. \A n : OpenBefore(n) = Before(parsers, n)
    BY <1>2 DEF OpenBefore, Before
  <2> QED  BY <2>1
<1>4. ASSUME EntityInv PROVE Chain(parsers)
  <2>1. parsers \in Seq(Parser) /\ Len(parsers) > 0 /\ \A n \in DOMAIN parsers : Marks(parsers[n])
    BY <1>4 DEF EntityInv, TypeOK
  <2>2. ASSUME NEW n \in DOMAIN parsers PROVE Place(parsers, n)
    <3>1. ParserOK(parsers[n], Lowest(n))
      BY <1>3, <1>4, <2>1, <2>2 DEF ParserOK, Lowest, EntityInv, OpenExact
    <3>2. Link(parsers, n)
      BY <1>1, <1>2, <1>4, <2>1, <2>2 DEF Link, EntityInv, OpenExact, WaitsForAbove
    <3> QED  BY <1>3, <1>4, <2>1, <2>2, <3>1, <3>2 DEF Place, EntityInv, OpenExact
  <2> QED  BY <2>1, <2>2 DEF Chain
<1>5. ASSUME EntityInv PROVE IsDocument(doc) /\ self.at # "external" /\ Counted /\ Results /\ ErrorsEnd
  BY <1>5 DEF EntityInv, TypeOK, OpenExact, WaitsForAbove, Counted, Results, Counters
<1>6. ASSUME IsDocument(doc), Chain(parsers), self.at # "external", Counted, Results, ErrorsEnd PROVE EntityInv
  <2>1. parsers \in Seq(Parser) /\ Len(parsers) > 0 /\ \A n \in DOMAIN parsers : Place(parsers, n)
    BY <1>6 DEF Chain
  <2>2. TypeOK
    BY <1>6, <2>1 DEF TypeOK, Place, ParserOK, Results, Counters
  <2>3. OpenExact
    BY <1>1, <1>2, <1>3, <1>6, <2>1 DEF OpenExact, Place, ParserOK, Link, Counted
  <2>4. WaitsForAbove
    BY <1>1, <1>2, <1>6, <2>1 DEF WaitsForAbove, Place, Link
  <2> QED  BY <1>6, <2>1, <2>2, <2>3, <2>4 DEF EntityInv, Place, ParserOK, Lowest
<1> QED  BY <1>4, <1>5, <1>6 DEF Together

-----------------------------------------------------------------------------
(* The parser that is reading.                                             *)
LEMMA Top ==
  ASSUME Chain(parsers), NEW n, n = Len(parsers)
  PROVE  /\ n \in Nat /\ n > 0 /\ n \in DOMAIN parsers /\ DOMAIN parsers = 1..n /\ self = parsers[n]
         /\ Place(parsers, n) /\ ParserOK(self, Lowest(n)) /\ self \in Parser /\ Marks(self) /\ ReadsHead(self)
         /\ OpenOnce(self) /\ LevelsNest(self, Lowest(n))
         /\ self.isOpen = Before(parsers, n) \cup Listed(self) /\ Before(parsers, n) \cap Listed(self) = {}
         /\ Kind("value") /\ ~IsRoot => self.open = <<>> /\ self.cur = Null
         /\ IsRoot <=> n = 1
<1>1. parsers \in Seq(Parser) /\ n > 0
  BY DEF Chain
<1>2. n \in Nat /\ n \in DOMAIN parsers /\ DOMAIN parsers = 1..n /\ (n = 1 \/ n > 1)
  BY <1>1
<1>3. self = parsers[n]
  BY DEF self, Last
<1>4. Place(parsers, n)
  BY <1>2 DEF Chain
<1>5. IsRoot <=> n = 1
  BY DEF IsRoot
<1> QED  BY <1>1, <1>2, <1>3, <1>4, <1>5 DEF Place, ParserOK, Link

(* It changes, and those above it do not.                                  *)
Fits(q) ==
  /\ ParserOK(q, Lowest(Len(parsers))) /\ q.text = self.text
  /\ Kind("value") /\ ~IsRoot => q.open = <<>> /\ q.cur = Null
  /\ q.isOpen = Before(parsers, Len(parsers)) \cup Listed(q) /\ Before(parsers, Len(parsers)) \cap Listed(q) = {}

With(q) == [parsers EXCEPT ![Len(parsers)] = q]

(* The parser that is reading is replaced by one that fits.                *)
LEMMA FitStep ==
  ASSUME Chain(parsers), NEW q, Fits(q)
  PROVE  /\ Chain(With(q)) /\ Len(With(q)) = Len(parsers) /\ With(q)[Len(parsers)] = q
         /\ DOMAIN With(q) = 1..Len(parsers)
         /\ \A m \in 1..Len(parsers) : m # Len(parsers) => With(q)[m] = parsers[m]
<1> DEFINE n == Len(parsers)
           qs == With(q)
<1>1. /\ n \in Nat /\ n > 0 /\ n \in DOMAIN parsers /\ DOMAIN parsers = 1..n /\ self = parsers[n]
      /\ Place(parsers, n) /\ (IsRoot <=> n = 1)
  BY Top
<1>2. q \in Parser /\ parsers \in Seq(Parser)
  BY DEF Fits, ParserOK, Chain
<1>3. qs \in Seq(Parser) /\ Len(qs) = n /\ qs[n] = q /\ \A m \in 1..n : m # n => qs[m] = parsers[m]
  BY <1>1, <1>2 DEF With
<1> HIDE DEF n, qs
<1>4. n - 1 \in Nat /\ n - 1 + 1 = n /\ n - 1 <= n /\ (n # 1 <=> n > 1) /\ \A m \in 1 .. n - 1 : m \in 1..n /\ m # n
  BY <1>1
<1>5. n > 1 => qs[n - 1] = parsers[n - 1]
  <2>1. n > 1 => n - 1 \in 1 .. n - 1
    BY <1>1
  <2> QED  BY <1>3, <1>4, <2>1
<1>6. Fits(q)
  OBVIOUS
<1>7. Before(qs, n) = Before(parsers, n)
  BY <1>4, <1>5 DEF Before, Waits
<1>8. Link(qs, n)
  BY <1>1, <1>3, <1>4, <1>5, <1>6 DEF Link, Place, Fits, Waits
<1>9. Place(qs, n)
  BY <1>3, <1>6, <1>7, <1>8 DEF Place, Fits, n
<1>10. Chain(qs)
  <2>1. \A m \in 1 .. n - 1 : qs[m] = parsers[m]
    BY <1>3, <1>4
  <2>2. Len(qs) = n - 1 + 1 /\ Place(qs, n - 1 + 1) /\ n - 1 <= Len(parsers)
    BY <1>3, <1>4, <1>9 DEF n
  <2>3. n - 1 \in Nat
    BY <1>4
  <2> DEFINE k == n - 1
  <2> HIDE DEF k
  <2>4. /\ \A m \in 1..k : qs[m] = parsers[m]
        /\ k \in Nat /\ Len(qs) = k + 1 /\ k <= Len(parsers) /\ Place(qs, k + 1)
    BY <2>1, <2>2, <2>3 DEF k
  <2> QED  BY <1>3, <2>4, Extend
<1>11. DOMAIN qs = 1..n
  BY <1>3
<1> QED  BY <1>3, <1>10, <1>11 DEF n, qs

TopAfter(q) == Becomes(q) /\ UNCHANGED doc /\ Fits(q)

(* The same as a step.                                                     *)
LEMMA TopStep ==
  ASSUME Chain(parsers), NEW q, TopAfter(q)
  PROVE  /\ Chain(parsers)' /\ Len(parsers') = Len(parsers) /\ self' = q
         /\ \A m \in DOMAIN parsers' : m = Len(parsers) \/ (m \in DOMAIN parsers /\ parsers'[m] = parsers[m])
<1> DEFINE n == Len(parsers)
           qs == With(q)
<1>1. DOMAIN parsers = 1..n
  BY Top
<1>2. parsers' = qs /\ UNCHANGED doc /\ Fits(q)
  BY DEF TopAfter, Becomes, With
<1>3. /\ Chain(qs) /\ Len(qs) = n /\ qs[n] = q /\ DOMAIN qs = 1..n
      /\ \A m \in 1..n : m # n => qs[m] = parsers[m]
  BY <1>2, FitStep
<1> HIDE DEF n, qs
<1>4. Chain(parsers)'
  BY <1>2, <1>3, ChainAfter
<1>5. self' = q
  <2>1. self' = qs[Len(qs)]
    BY <1>2 DEF self, Last
  <2> QED  BY <1>3, <2>1
<1> QED  BY <1>1, <1>2, <1>3, <1>4, <1>5 DEF n

(* Its list stays as it is.                                                *)
Alike(q) ==
  /\ q \in Parser /\ Marks(q) /\ q.text = self.text /\ q.open = self.open /\ q.isOpen = self.isOpen
  /\ \/ q.level = self.level
     \/ Lowest(Len(parsers)) <= q.level /\ (self.open # <<>> => self.open[1].level <= q.level)
KeepsList(q) ==
  /\ Becomes(q) /\ UNCHANGED doc /\ Alike(q) /\ ReadsHead(q) /\ q.at # "external"
  /\ Kind("value") /\ ~IsRoot => q.cur = Null
  /\ Results' /\ (UNCHANGED depth \/ cause' # "NONE")
  /\ cause # "NONE" => cause' # "NONE"
  /\ cause' # "NONE" => q.at = "done" /\ q.error # "NONE"
  /\ q.error # "NONE" => cause' # "NONE"

(* A step that keeps the list keeps the invariant.                         *)
LEMMA KeepStep ==
  ASSUME EntityInv, NEW q, KeepsList(q)
  PROVE  EntityInv'
<1>1. IsDocument(doc) /\ Chain(parsers) /\ self.at # "external" /\ Counted /\ Results /\ ErrorsEnd
  BY Parts DEF Together
<1> DEFINE n == Len(parsers)
<1>2. /\ ParserOK(self, Lowest(n)) /\ n \in DOMAIN parsers /\ self = parsers[n] /\ self \in Parser
      /\ self.isOpen = Before(parsers, n) \cup Listed(self) /\ Before(parsers, n) \cap Listed(self) = {}
      /\ Kind("value") /\ ~IsRoot => self.open = <<>> /\ self.cur = Null
  BY <1>1, Top
<1> HIDE DEF n
<1>3. q \in Parser /\ Marks(q) /\ ReadsHead(q) /\ q.open = self.open /\ q.text = self.text /\ q.isOpen = self.isOpen
  BY DEF KeepsList, Alike
<1>4. ParserOK(q, Lowest(n)) /\ Listed(q) = Listed(self)
  <2>1. q.level \in Nat
    BY <1>3, Fields
  <2>2. q.level = self.level \/ (Lowest(n) <= q.level /\ (self.open # <<>> => self.open[1].level <= q.level))
    BY DEF KeepsList, Alike, n
  <2> QED  BY <1>2, <1>3, <2>1, <2>2, SameList
<1>5. TopAfter(q)
  BY <1>2, <1>3, <1>4 DEF TopAfter, Fits, KeepsList, n
<1>6. /\ Chain(parsers)' /\ Len(parsers') = n /\ self' = q
      /\ \A m \in DOMAIN parsers' : m = n \/ (m \in DOMAIN parsers /\ parsers'[m] = parsers[m])
  BY <1>1, <1>5, TopStep DEF n
<1>7. IsDocument(doc)'
  BY <1>1 DEF KeepsList, IsDocument
<1>8. Counted'
  BY <1>1, <1>3, <1>6 DEF Counted, KeepsList, Kind, n
<1>9. ErrorsEnd'
  <2>1. parsers'[n] = q
    BY <1>6 DEF self, Last
  <2> QED  BY <1>1, <1>6, <2>1 DEF ErrorsEnd, KeepsList
<1>10. Results' /\ self'.at # "external"
  BY <1>6 DEF KeepsList
<1>11. Together'
  BY <1>6, <1>7, <1>8, <1>9, <1>10 DEF Together
<1> QED  BY <1>11, Parts, PTL

(* A parser goes to another place.                                         *)
LEMMA Moved ==
  ASSUME NEW p \in Parser, NEW at \in {"turn", "text", "external", "back", "suspended", "done"},
         NEW cur \in Entities \cup {Null}, NEW s \in Nat, NEW error \in Errors, NEW level \in Nat,
         NEW q, q = [p EXCEPT !.level = level, !.at = at, !.cur = cur, !.s = s, !.error = error]
  PROVE  /\ q \in Parser
         /\ q.text = p.text /\ q.pos = p.pos /\ q.open = p.open /\ q.isOpen = p.isOpen /\ q.more = p.more
         /\ q.processed = p.processed /\ q.account = p.account
         /\ q.level = level /\ q.at = at /\ q.cur = cur /\ q.s = s /\ q.error = error
BY DEF Parser

(* The parser that is reading fails.                                       *)
LEMMA FailStep ==
  ASSUME EntityInv, UNCHANGED doc, Counters', NEW e \in Errors, e # "NONE", Fail(e)
  PROVE  EntityInv'
<1> DEFINE q == [self EXCEPT !.error = e, !.at = "done"]
<1>1. IsDocument(doc) /\ Chain(parsers) /\ Results /\ ErrorsEnd
  BY Parts DEF Together
<1>2. self \in Parser /\ Marks(self) /\ ReadsHead(self) /\ (Kind("value") /\ ~IsRoot => self.cur = Null)
  BY <1>1, Top
<1>3. /\ q \in Parser /\ q.text = self.text /\ q.pos = self.pos /\ q.open = self.open /\ q.isOpen = self.isOpen
      /\ q.processed = self.processed /\ q.level = self.level /\ q.at = "done" /\ q.cur = self.cur
      /\ q.s = self.s /\ q.error = e
  BY <1>2 DEF Parser
<1>4. Becomes(q) /\ cause' = IF cause = "NONE" THEN e ELSE cause
  BY DEF Fail
<1> HIDE DEF q
<1>5. Marks(q)
  BY <1>2, <1>3 DEF Marks, Text
<1>6. ReadsHead(q)
  BY <1>3 DEF ReadsHead
<1>7. Results' /\ cause' # "NONE"
  BY <1>1, <1>4 DEF Results
<1>8. KeepsList(q)
  BY <1>2, <1>3, <1>4, <1>5, <1>6, <1>7 DEF KeepsList, Alike
<1> QED  BY <1>8, KeepStep

(* The parser that is reading leaves the text it reads.                    *)
Leaves(p, next) ==
  /\ Leave(p, next) /\ UNCHANGED <<doc, depth>> /\ Counters' /\ cause = "NONE"
  /\ Alike(p) /\ p.error = self.error /\ p.at \in {"turn", "suspended"} /\ next \in Nat /\ next <= Len(Text(p))

(* Leaving a text does, to go on with it or to stop (processEntity).       *)
LEMMA LeaveStep ==
  ASSUME EntityInv, NEW p, NEW next, Leaves(p, next)
  PROVE  EntityInv'
<1>1. IsDocument(doc) /\ Chain(parsers) /\ Results /\ ErrorsEnd /\ UNCHANGED doc /\ Counters'
  BY Parts DEF Together, Leaves
<1>2. CASE EndsAsync(p, next)
  <2>1. Fail("ASYNC_ENTITY") /\ "ASYNC_ENTITY" \in Errors
    BY <1>2 DEF Leaves, Leave, Errors
  <2> QED  BY <1>1, <2>1, FailStep
<1>3. CASE ~EndsAsync(p, next)
  <2> DEFINE q == Left(p, next)
  <2>1. Becomes(q) /\ UNCHANGED cause
    BY <1>3 DEF Leaves, Leave
  <2>2. p \in Parser /\ Marks(p) /\ next \in Nat /\ next <= Len(Text(p))
    BY DEF Leaves, Alike
  <2>3. /\ q \in Parser /\ Marks(q) /\ q.text = p.text /\ q.level = p.level /\ q.open = p.open
        /\ q.isOpen = p.isOpen /\ q.at = p.at /\ q.cur = Null /\ q.error = p.error
    BY <1>1, <2>2, LeftIs
  <2> HIDE DEF q
  <2>4. self.error = "NONE"
    <3>1. DOMAIN parsers = 1..Len(parsers) /\ self = parsers[Len(parsers)] /\ Len(parsers) \in DOMAIN parsers
      BY <1>1, Top
    <3> QED  BY <1>1, <3>1 DEF ErrorsEnd, Leaves
  <2>5. ReadsHead(q)
    BY <2>3 DEF ReadsHead, Leaves
  <2>6. Alike(q)
    BY <2>3 DEF Leaves, Alike
  <2>7. KeepsList(q)
    BY <1>1, <2>1, <2>3, <2>4, <2>5, <2>6 DEF KeepsList, Leaves, Results
  <2> QED  BY <2>7, KeepStep
<1> QED  BY <1>2, <1>3

-----------------------------------------------------------------------------
(* What a step may start from.                                             *)
LEMMA Now ==
  ASSUME EntityInv
  PROVE  /\ IsDocument(doc) /\ Chain(parsers) /\ Counted /\ Results /\ ErrorsEnd
         /\ self \in Parser /\ Marks(self) /\ ReadsHead(self) /\ OpenOnce(self)
         /\ LevelsNest(self, Lowest(Len(parsers))) /\ self.at # "external"
         /\ Kind("value") /\ ~IsRoot => self.open = <<>> /\ self.cur = Null
         /\ self.at # "done" => cause = "NONE" /\ self.error = "NONE"
<1>1. IsDocument(doc) /\ Chain(parsers) /\ Counted /\ Results /\ ErrorsEnd /\ self.at # "external"
  BY Parts DEF Together
<1>2. DOMAIN parsers = 1..Len(parsers) /\ self = parsers[Len(parsers)] /\ Len(parsers) \in DOMAIN parsers
  BY <1>1, Top
<1>3. self.at # "done" => cause = "NONE" /\ self.error = "NONE"
  BY <1>1, <1>2 DEF ErrorsEnd
<1> QED  BY <1>1, <1>3, Top

(* The token that is read.                                                 *)
LEMMA Token ==
  ASSUME EntityInv, Reading
  PROVE  /\ cause = "NONE" /\ self.error = "NONE" /\ self.at = "text" /\ self.s + 1 <= Len(Text(self))
         /\ self.s + 1 \in Nat /\ Item \in Items /\ CountedDirect(Item) \in Nat /\ CountedIndirect(Item) \in Nat
<1>1. /\ IsDocument(doc) /\ Results /\ self \in Parser /\ self.at = "text" /\ self.s < Len(Text(self))
      /\ cause = "NONE" /\ self.error = "NONE"
  BY Now DEF Reading
<1>2. Text(self) \in Seq(Items) /\ Len(Text(self)) \in Nat
  BY <1>1, Texts
<1>3. self.s \in Nat
  BY <1>1, Fields
<1>4. self.s + 1 \in 1..Len(Text(self))
  BY <1>1, <1>2, <1>3
<1>5. Item \in Items
  BY <1>2, <1>4 DEF Item
<1>6. Width(Item) \in Nat
  BY <1>5, EntityAssumption DEF EntityAssumption
<1>7. CountedDirect(Item) \in Nat /\ CountedIndirect(Item) \in Nat
  BY <1>1, <1>6 DEF CountedDirect, CountedIndirect, Results, Counters
<1> QED  BY <1>1, <1>2, <1>3, <1>4, <1>5, <1>7

(* A text is read on from where it was left.                               *)
LEMMA ReadOwnStep ==
  ASSUME EntityInv, ReadOwn
  PROVE  EntityInv'
<1> DEFINE q == [self EXCEPT !.at = "text", !.cur = Null, !.s = self.pos]
<1>1. /\ IsDocument(doc) /\ Results /\ self \in Parser /\ Marks(self) /\ self.at = "turn" /\ self.open = <<>>
      /\ cause = "NONE" /\ self.error = "NONE"
  BY Now DEF ReadOwn
<1>2. /\ q \in Parser /\ q.text = self.text /\ q.pos = self.pos /\ q.open = self.open /\ q.isOpen = self.isOpen
      /\ q.processed = self.processed /\ q.level = self.level /\ q.at = "text" /\ q.cur = Null
      /\ q.s = self.pos /\ q.error = self.error
  BY <1>1 DEF Parser
<1>3. Becomes(q) /\ UNCHANGED <<doc, status, direct, indirect, depth, cause>>
  BY DEF ReadOwn
<1> HIDE DEF q
<1>4. Marks(q)
  BY <1>1, <1>2 DEF Marks, Text
<1>5. ReadsHead(q)
  BY <1>1, <1>2 DEF ReadsHead
<1>6. Results'
  BY <1>1, <1>3 DEF Results, Counters
<1>7. KeepsList(q)
  BY <1>1, <1>2, <1>3, <1>4, <1>5, <1>6 DEF KeepsList, Alike
<1> QED  BY <1>7, KeepStep

(* The entity at the head of the list is read on.                          *)
LEMMA ReadEntityStep ==
  ASSUME EntityInv, ReadEntity
  PROVE  EntityInv'
<1> DEFINE e == Head(self.open).entity
           q == [self EXCEPT !.at = "text", !.cur = e, !.s = self.processed[e]]
<1>1. /\ IsDocument(doc) /\ Results /\ self \in Parser /\ Marks(self) /\ self.at = "turn" /\ self.open # <<>>
      /\ cause = "NONE" /\ self.error = "NONE" /\ (Kind("value") /\ ~IsRoot => self.open = <<>>)
  BY Now DEF ReadEntity
<1>2. e \in Entities /\ self.open[1].entity = e /\ self.processed[e] \in Nat
  <2>1. self.open \in Seq(OpenedEntity) /\ self.processed \in [Entities -> Nat]
    BY <1>1, Fields
  <2>2. Head(self.open) = self.open[1] /\ Head(self.open) \in OpenedEntity
    BY <1>1, <2>1
  <2> QED  BY <2>1, <2>2 DEF OpenedEntity
<1>3. Becomes(q) /\ UNCHANGED <<doc, status, direct, indirect, depth, cause>>
  BY DEF ReadEntity
<1> HIDE DEF e
<1>4. /\ q \in Parser /\ q.text = self.text /\ q.pos = self.pos /\ q.open = self.open /\ q.isOpen = self.isOpen
      /\ q.processed = self.processed /\ q.level = self.level /\ q.at = "text" /\ q.cur = e
      /\ q.s = self.processed[e] /\ q.error = self.error
  BY <1>1, <1>2 DEF Parser
<1> HIDE DEF q
<1>5. e # Null
  BY <1>2, EntityAssumption DEF EntityAssumption
<1>6. Marks(q)
  BY <1>1, <1>2, <1>4, <1>5 DEF Marks, Text
<1>7. ReadsHead(q)
  BY <1>1, <1>2, <1>4, <1>5 DEF ReadsHead
<1>8. Results'
  BY <1>1, <1>3 DEF Results, Counters
<1>9. KeepsList(q)
  BY <1>1, <1>3, <1>4, <1>6, <1>7, <1>8 DEF KeepsList, Alike
<1> QED  BY <1>9, KeepStep

(* A step that goes to another place of the text, with the list as it is.  *)
Goes(q, at, s) ==
  /\ Becomes(q) /\ q = [self EXCEPT !.at = at, !.s = s]
  /\ at \in {"turn", "text", "done"} /\ s \in Nat /\ s <= Len(Text(self))
  /\ self.at \in {"text", "suspended"} /\ (at = "turn" => self.cur = Null)
  /\ at = "text" => self.at = "text"
  /\ at = "done" => self.open = <<>>
  /\ UNCHANGED <<doc, depth, cause>> /\ Counters'

(* Such a step keeps the invariant.                                        *)
LEMMA GoStep ==
  ASSUME EntityInv, NEW q, NEW at, NEW s, Goes(q, at, s)
  PROVE  EntityInv'
<1>1. /\ IsDocument(doc) /\ Results /\ self \in Parser /\ Marks(self) /\ ReadsHead(self) /\ self.at # "done"
      /\ cause = "NONE" /\ self.error = "NONE" /\ (Kind("value") /\ ~IsRoot => self.cur = Null)
  BY Now DEF Goes
<1>2. /\ q = [self EXCEPT !.at = at, !.s = s] /\ at \in {"turn", "text", "done"} /\ s \in Nat
      /\ s <= Len(Text(self))
  BY DEF Goes
<1>3. /\ q \in Parser /\ q.text = self.text /\ q.pos = self.pos /\ q.open = self.open /\ q.isOpen = self.isOpen
      /\ q.processed = self.processed /\ q.level = self.level /\ q.at = at /\ q.cur = self.cur
      /\ q.s = s /\ q.error = self.error
  BY <1>1, <1>2 DEF Parser
<1>4. Marks(q)
  BY <1>1, <1>2, <1>3 DEF Marks, Text
<1>5. ReadsHead(q)
  BY <1>1, <1>2, <1>3 DEF ReadsHead, Goes
<1>6. Results'
  BY <1>1 DEF Results, Goes
<1>7. KeepsList(q)
  BY <1>1, <1>2, <1>3, <1>4, <1>5, <1>6 DEF KeepsList, Alike, Goes
<1> QED  BY <1>7, KeepStep

(* A suspended parser is resumed.                                          *)
LEMMA ResumeStep ==
  ASSUME EntityInv, Resume
  PROVE  EntityInv'
<1> DEFINE q == [self EXCEPT !.at = "turn", !.s = self.s]
<1>1. Results /\ self \in Parser /\ Marks(self) /\ ReadsHead(self) /\ self.at = "suspended"
  BY Now DEF Resume
<1>2. self.s \in Nat /\ self.s <= Len(Text(self)) /\ self.cur = Null
  BY <1>1, Fields DEF Marks, ReadsHead
<1>3. q = [self EXCEPT !.at = "turn"]
  BY <1>1 DEF Parser
<1>4. Goes(q, "turn", self.s)
  BY <1>1, <1>2, <1>3 DEF Goes, Resume, Results, Counters
<1> QED  BY <1>4, GoStep

(* A token that is refused.                                                *)
LEMMA RefusedStep ==
  ASSUME EntityInv, NoToken \/ TooMuch \/ BadReference
  PROVE  EntityInv'
<1>1. Reading
  BY DEF NoToken, TooMuch, BadReference, Takes
<1>2. CountedDirect(Item) \in Nat /\ CountedIndirect(Item) \in Nat /\ Results
  BY <1>1, Token, Now
<1>3. CASE NoToken
  <2>1. UNCHANGED doc /\ Counters' /\ Fail("INVALID_TOKEN") /\ "INVALID_TOKEN" \in Errors
    BY <1>2, <1>3 DEF NoToken, Results, Counters, Errors
  <2> QED  BY <2>1, FailStep
<1>4. CASE TooMuch
  <2>1. UNCHANGED doc /\ Counters' /\ Fail("AMPLIFICATION_LIMIT_BREACH") /\ "AMPLIFICATION_LIMIT_BREACH" \in Errors
    BY <1>2, <1>4 DEF TooMuch, Results, Counters, Errors
  <2> QED  BY <2>1, FailStep
<1>5. CASE BadReference
  <2>1. PICK e \in Entities : Takes(e) /\ Error(e) # "NONE" /\ Fail(Error(e))
    BY <1>5 DEF BadReference
  <2>2. Error(e) \in Errors
    BY DEF Error, ParameterError, GeneralError, Errors
  <2>3. UNCHANGED <<doc, status, depth>> /\ direct' = CountedDirect(Item)
        /\ indirect' \in {CountedIndirect(Item), CountedIndirect(Item) + 1}
    <3>1. direct' = CountedDirect(e) /\ e = Item
      BY <2>1 DEF Takes
    <3>2. \E n \in {0, 1} : indirect' = CountedIndirect(e) + n
      BY <2>1 DEF Takes
    <3>3. UNCHANGED <<doc, status, depth>>
      BY <1>5 DEF BadReference
    <3> HIDE DEF Item
    <3>4. indirect' = CountedIndirect(Item) + 0 \/ indirect' = CountedIndirect(Item) + 1
      BY <3>1, <3>2
    <3>5. CountedIndirect(Item) \in Nat
      BY <1>2
    <3> QED  BY <3>1, <3>3, <3>4, <3>5
  <2>4. Counters'
    BY <1>2, <2>3 DEF Results, Counters
  <2> QED  BY <2>1, <2>2, <2>3, <2>4, FailStep
<1> QED  BY <1>3, <1>4, <1>5

(* A token that is taken.                                                  *)
LEMMA Taken ==
  ASSUME EntityInv, NEW item, Takes(item)
  PROVE  /\ Reading /\ item = Item /\ cause = "NONE" /\ self.error = "NONE" /\ self.at = "text"
         /\ self.s + 1 <= Len(Text(self)) /\ self.s + 1 \in Nat /\ direct' \in Nat /\ indirect' \in Nat
<1>1. Reading /\ item = Item /\ direct' = CountedDirect(item)
  BY DEF Takes
<1>2. \E n \in {0, 1} : indirect' = CountedIndirect(item) + n
  BY DEF Takes
<1> HIDE DEF Item
<1>3. CountedDirect(item) \in Nat /\ CountedIndirect(item) \in Nat
  BY <1>1, Token
<1>4. indirect' \in Nat
  BY <1>2, <1>3
<1> QED  BY <1>1, <1>3, <1>4, Token

(* A text that is read to its end.                                         *)
LEMMA TextEndsStep ==
  ASSUME EntityInv, TextEnds
  PROVE  EntityInv'
<1>1. /\ IsDocument(doc) /\ Results /\ self \in Parser /\ Marks(self) /\ ReadsHead(self) /\ self.at = "text"
      /\ cause = "NONE" /\ self.error = "NONE" /\ self.s = Len(Text(self))
  BY Now DEF TextEnds
<1>2. UNCHANGED <<doc, depth>> /\ Counters'
  BY <1>1 DEF TextEnds, Results, Counters
<1>3. self.s \in Nat /\ self.s <= Len(Text(self))
  BY <1>1, Fields
<1>4. CASE Fail("ASYNC_ENTITY")
  BY <1>2, <1>4, FailStep DEF Errors
<1>5. CASE self.cur # Null
  <2> DEFINE p == [self EXCEPT !.at = "turn"]
  <2>1. Leave(p, self.s)
    BY <1>5 DEF TextEnds
  <2>2. /\ p \in Parser /\ p.text = self.text /\ p.pos = self.pos /\ p.open = self.open /\ p.isOpen = self.isOpen
        /\ p.processed = self.processed /\ p.level = self.level /\ p.at = "turn" /\ p.cur = self.cur
        /\ p.s = self.s /\ p.error = self.error
    BY <1>1 DEF Parser
  <2> HIDE DEF p
  <2>3. Marks(p) /\ Text(p) = Text(self)
    BY <1>1, <2>2 DEF Marks, Text
  <2>4. Leaves(p, self.s)
    BY <1>1, <1>2, <1>3, <2>1, <2>2, <2>3 DEF Leaves, Alike
  <2> QED  BY <2>4, LeaveStep
<1>6. CASE self.cur = Null /\ ~Fail("ASYNC_ENTITY")
  <2> DEFINE q == [self EXCEPT !.at = "done"]
  <2>1. Becomes(q) /\ UNCHANGED cause
    BY <1>6 DEF TextEnds
  <2>2. q = [self EXCEPT !.at = "done", !.s = self.s]
    BY <1>1 DEF Parser
  <2>3. self.open = <<>>
    BY <1>1, <1>6 DEF ReadsHead
  <2> HIDE DEF q
  <2>4. Goes(q, "done", self.s)
    BY <1>1, <1>2, <1>3, <2>1, <2>2, <2>3 DEF Goes
  <2> QED  BY <2>4, GoStep
<1> QED  BY <1>4, <1>5, <1>6

(* The next token of the text, or a stop before it.                        *)
GoesFrom(p) ==
  /\ GoesOn(p) /\ UNCHANGED <<doc, depth>> /\ Counters' /\ cause = "NONE"
  /\ Alike(p) /\ ReadsHead(p) /\ p.error = self.error /\ p.at \in {"text", "back"} /\ p.s < Len(Text(p))
  /\ p.cur = self.cur

(* Going on after a token, or being suspended after it.                    *)
LEMMA GoesOnStep ==
  ASSUME EntityInv, NEW p, GoesFrom(p)
  PROVE  EntityInv'
<1>1. /\ IsDocument(doc) /\ Results /\ ErrorsEnd /\ (Kind("value") /\ ~IsRoot => self.cur = Null)
      /\ self \in Parser
  BY Now
<1>2. /\ p \in Parser /\ Marks(p) /\ ReadsHead(p) /\ p.s < Len(Text(p)) /\ p.at \in {"text", "back"}
      /\ UNCHANGED <<doc, depth>> /\ Counters' /\ cause = "NONE" /\ p.error = self.error /\ p.cur = self.cur
  BY DEF GoesFrom, Alike
<1>3. Text(p) \in Seq(Items) /\ p.s \in Nat
  BY <1>1, <1>2, Texts, Fields
<1> DEFINE t == p.s + 1
<1>4. t \in Nat /\ t <= Len(Text(p))
  BY <1>2, <1>3
<1> HIDE DEF t
<1>5. self.error = "NONE"
  <2>1. DOMAIN parsers = 1..Len(parsers) /\ self = parsers[Len(parsers)] /\ Len(parsers) \in DOMAIN parsers
    BY Now, Top
  <2> QED  BY <1>1, <1>2, <2>1 DEF ErrorsEnd
<1>6. CASE IsRoot /\ status' = "SUSPENDED"
  <2> DEFINE r == [p EXCEPT !.at = "suspended"]
  <2>1. Leave(r, t)
    BY <1>6 DEF GoesFrom, GoesOn, t
  <2>2. /\ r \in Parser /\ r.text = p.text /\ r.pos = p.pos /\ r.open = p.open /\ r.isOpen = p.isOpen
        /\ r.processed = p.processed /\ r.level = p.level /\ r.at = "suspended" /\ r.cur = p.cur
        /\ r.s = p.s /\ r.error = p.error
    BY <1>2 DEF Parser
  <2> HIDE DEF r
  <2>3. Marks(r) /\ Text(r) = Text(p)
    BY <1>2, <2>2 DEF Marks, Text
  <2>4. Leaves(r, t)
    BY <1>2, <1>4, <2>1, <2>2, <2>3 DEF Leaves, Alike, GoesFrom
  <2> QED  BY <2>4, LeaveStep
<1>7. CASE ~(IsRoot /\ status' = "SUSPENDED")
  <2> DEFINE q == [p EXCEPT !.at = "text", !.s = t]
  <2>1. Becomes(q) /\ UNCHANGED cause
    <3>1. Becomes([p EXCEPT !.at = "text", !.s = @ + 1]) /\ UNCHANGED cause
      BY <1>7 DEF GoesFrom, GoesOn
    <3> QED  BY <3>1, <1>2 DEF t
  <2>2. /\ q \in Parser /\ q.text = p.text /\ q.pos = p.pos /\ q.open = p.open /\ q.isOpen = p.isOpen
        /\ q.processed = p.processed /\ q.level = p.level /\ q.at = "text" /\ q.cur = p.cur
        /\ q.s = t /\ q.error = p.error
    BY <1>2, <1>4 DEF Parser
  <2> HIDE DEF q
  <2>3. Marks(q)
    BY <1>2, <1>4, <2>2 DEF Marks, Text
  <2>4. ReadsHead(q)
    BY <1>2, <2>2 DEF ReadsHead
  <2>5. Results'
    BY <1>1, <1>2, <2>1 DEF Results
  <2>6. Alike(q)
    BY <2>2, <2>3 DEF Alike, GoesFrom
  <2>7. KeepsList(q)
    BY <1>1, <1>2, <1>5, <2>1, <2>2, <2>4, <2>5, <2>6 DEF KeepsList
  <2> QED  BY <2>7, KeepStep
<1> QED  BY <1>6, <1>7

(* The level a text began at is that of the entity at the head.            *)
LEMMA StartIs ==
  ASSUME EntityInv, self.at \in {"text", "back"}
  PROVE  /\ self.cur = Null => self.open = <<>> /\ StartLevel(self) = Lowest(Len(parsers))
         /\ self.cur # Null => self.open # <<>> /\ StartLevel(self) = self.open[1].level
<1>1. self \in Parser /\ ReadsHead(self) /\ OpenOnce(self) /\ (IsRoot <=> Len(parsers) = 1)
  BY Now DEF IsRoot
<1>2. self.cur = Null => self.open = <<>> /\ StartLevel(self) = Lowest(Len(parsers))
  BY <1>1 DEF ReadsHead, StartLevel, Lowest
<1>3. CASE self.cur # Null
  <2>1. self.open # <<>> /\ self.open[1].entity = self.cur /\ self.open \in Seq(OpenedEntity)
    BY <1>1, <1>3, Fields DEF ReadsHead
  <2>2. 1 \in DOMAIN self.open
    BY <2>1
  <2>3. \A i \in DOMAIN self.open : self.open[i].entity = self.cur => i = 1
    BY <1>1, <2>1, <2>2 DEF OpenOnce
  <2>4. (CHOOSE i \in DOMAIN self.open : self.open[i].entity = self.cur) = 1
    BY <2>1, <2>2, <2>3
  <2> QED  BY <1>3, <2>1, <2>4 DEF StartLevel
<1> QED  BY <1>2, <1>3

(* A token of content: tags change the level, within the text they are in. *)
LEMMA ContentTokenStep ==
  ASSUME EntityInv, ContentToken
  PROVE  EntityInv'
<1>1. PICK item \in Items \ Entities :
        /\ Takes(item)
        /\ IF item = ")" /\ self.level = StartLevel(self) THEN Fail("ASYNC_ENTITY") /\ UNCHANGED <<output, status>>
           ELSE /\ Reports(item)
                /\ GoesOn([self EXCEPT !.level = IF item = "(" THEN @ + 1 ELSE IF item = ")" THEN @ - 1 ELSE @])
  BY DEF ContentToken
<1>2. /\ cause = "NONE" /\ self.error = "NONE" /\ self.at = "text" /\ self.s + 1 <= Len(Text(self))
      /\ self.s + 1 \in Nat /\ direct' \in Nat /\ indirect' \in Nat
  BY <1>1, Taken
<1>3. /\ IsDocument(doc) /\ Results /\ self \in Parser /\ Marks(self) /\ ReadsHead(self)
      /\ LevelsNest(self, Lowest(Len(parsers)))
  BY Now
<1>4. UNCHANGED <<doc, depth>>
  BY DEF ContentToken
<1>5. Counters'
  BY <1>1, <1>2, <1>3, <1>4 DEF Counters, Results, Reports
<1>6. CASE item = ")" /\ self.level = StartLevel(self)
  <2>1. Fail("ASYNC_ENTITY") /\ "ASYNC_ENTITY" \in Errors
    BY <1>1, <1>6 DEF Errors
  <2> QED  BY <1>4, <1>5, <2>1, FailStep
<1>7. CASE ~(item = ")" /\ self.level = StartLevel(self))
  <2> DEFINE level == IF item = "(" THEN self.level + 1 ELSE IF item = ")" THEN self.level - 1 ELSE self.level
             p == [self EXCEPT !.level = level]
             lowest == Lowest(Len(parsers))
  <2>1. GoesOn(p)
    <3>1. p = [self EXCEPT !.level = IF item = "(" THEN @ + 1 ELSE IF item = ")" THEN @ - 1 ELSE @]
      OBVIOUS
    <3> QED  BY <1>1, <1>7, <3>1
  <2>2. self.level \in Nat /\ lowest \in {0, 1} /\ lowest <= self.level /\ self.open \in Seq(OpenedEntity)
    BY <1>3, Fields DEF LevelsNest, Lowest
  <2>3. self.open # <<>> => /\ self.open[1].level \in Nat /\ lowest <= self.open[1].level
                            /\ self.open[1].level <= self.level
    <3>1. self.open # <<>> => 1 \in DOMAIN self.open /\ self.open[1] \in OpenedEntity
      BY <2>2
    <3> QED  BY <1>3, <3>1 DEF LevelsNest, OpenedEntity
  <2>4. item = ")" => self.level # StartLevel(self)
    BY <1>7
  <2>5. /\ self.cur = Null => self.open = <<>> /\ StartLevel(self) = lowest
        /\ self.cur # Null => self.open # <<>> /\ StartLevel(self) = self.open[1].level
    BY <1>2, StartIs
  <2>6. level \in Nat /\ lowest <= level /\ (self.open # <<>> => self.open[1].level <= level)
    <3> DEFINE l == self.level
               h == self.open[1].level
               some == self.open # <<>>
    <3>1. /\ l \in Nat /\ lowest \in {0, 1} /\ lowest <= l
          /\ some => h \in Nat /\ lowest <= h /\ h <= l
          /\ item = ")" => (some /\ l # h) \/ (~some /\ l # lowest)
      BY <2>2, <2>3, <2>4, <2>5
    <3> HIDE DEF l, h, some, lowest
    <3>2. level = IF item = "(" THEN l + 1 ELSE IF item = ")" THEN l - 1 ELSE l
      BY DEF l
    <3> HIDE DEF level
    <3>3. level \in Nat /\ lowest <= level /\ (some => h <= level)
      BY <3>1, <3>2
    <3> QED  BY <3>3 DEF some, h
  <2> HIDE DEF level
  <2>7. /\ p \in Parser /\ p.text = self.text /\ p.pos = self.pos /\ p.open = self.open /\ p.isOpen = self.isOpen
        /\ p.processed = self.processed /\ p.level = level /\ p.at = self.at /\ p.cur = self.cur
        /\ p.s = self.s /\ p.error = self.error
    BY <1>3, <2>6 DEF Parser
  <2> HIDE DEF p
  <2>8. Marks(p) /\ ReadsHead(p) /\ Text(p) = Text(self)
    BY <1>3, <2>7 DEF Marks, ReadsHead, Text
  <2>9. p.s < Len(Text(p))
    <3>1. self.s \in Nat /\ Len(Text(self)) \in Nat
      BY <1>3, Fields, Texts
    <3> QED  BY <1>2, <2>7, <2>8, <3>1
  <2>10. GoesFrom(p)
    BY <1>2, <1>4, <1>5, <2>1, <2>6, <2>7, <2>8, <2>9 DEF GoesFrom, Alike
  <2> QED  BY <2>10, GoesOnStep
<1> QED  BY <1>6, <1>7

(* A token of a value.                                                     *)
LEMMA ValueTokenStep ==
  ASSUME EntityInv, ValueToken
  PROVE  EntityInv'
<1>1. PICK item \in Items \ Entities : Takes(item)
  BY DEF ValueToken
<1>2. /\ self.at = "text" /\ self.s + 1 <= Len(Text(self)) /\ self.s + 1 \in Nat
      /\ direct' \in Nat /\ indirect' \in Nat
  BY <1>1, Taken
<1>3. Results /\ self \in Parser
  BY Now
<1> DEFINE t == self.s + 1
           q == [self EXCEPT !.at = "text", !.s = t]
<1>4. Becomes([self EXCEPT !.s = @ + 1]) /\ UNCHANGED <<doc, status, depth, cause>>
  BY DEF ValueToken
<1>5. q = [self EXCEPT !.s = @ + 1]
  BY <1>2, <1>3 DEF Parser
<1> HIDE DEF t, q
<1>6. Counters'
  BY <1>2, <1>3, <1>4 DEF Results, Counters
<1>7. Goes(q, "text", t)
  BY <1>2, <1>4, <1>5, <1>6 DEF Goes, t, q
<1> QED  BY <1>7, GoStep

(* References that are left out.                                           *)
LEMMA SkipInContentStep ==
  ASSUME EntityInv, NEW e \in Entities, SkipInContent(e)
  PROVE  EntityInv'
<1>1. Takes(e) /\ Reports("skipped") /\ GoesOn(self) /\ UNCHANGED <<doc, depth>>
  BY DEF SkipInContent, Refers
<1>2. /\ self.at = "text" /\ self.s + 1 <= Len(Text(self)) /\ self.s + 1 \in Nat
      /\ direct' \in Nat /\ indirect' \in Nat /\ cause = "NONE"
  BY <1>1, Taken
<1>3. IsDocument(doc) /\ Results /\ self \in Parser /\ Marks(self) /\ ReadsHead(self)
      /\ LevelsNest(self, Lowest(Len(parsers)))
  BY Now
<1>4. Counters'
  BY <1>1, <1>2, <1>3 DEF Results, Counters, Reports
<1>5. self.s < Len(Text(self))
  <2>1. self.s \in Nat /\ Len(Text(self)) \in Nat
    BY <1>3, Fields, Texts
  <2> QED  BY <1>2, <2>1
<1>6. GoesFrom(self)
  BY <1>1, <1>2, <1>3, <1>4, <1>5 DEF GoesFrom, Alike
<1> QED  BY <1>6, GoesOnStep

(* In a value: read on, leave the text, or return.                         *)
LEMMA SkipInValueStep ==
  ASSUME EntityInv, NEW e \in Entities, SkipInValue(e)
  PROVE  EntityInv'
<1> DEFINE t == self.s + 1
<1>1. Takes(e) /\ UNCHANGED <<doc, status, depth, cause>>
  BY DEF SkipInValue, Refers
<1>2. /\ self.at = "text" /\ t <= Len(Text(self)) /\ t \in Nat
      /\ direct' \in Nat /\ indirect' \in Nat /\ cause = "NONE"
  BY <1>1, Taken
<1>3. IsDocument(doc) /\ Results /\ self \in Parser /\ Marks(self) /\ ReadsHead(self)
      /\ LevelsNest(self, Lowest(Len(parsers))) /\ (Kind("value") /\ ~IsRoot => self.open = <<>> /\ self.cur = Null)
  BY Now
<1>4. Counters'
  BY <1>1, <1>2, <1>3 DEF Results, Counters
<1>5. self.s \in Nat /\ self.s <= Len(Text(self))
  BY <1>3, Fields DEF Marks
<1>6. CASE Kind("value") /\ doc.decl[e].is = "undeclared" /\ IsRoot
  <2> DEFINE p == [self EXCEPT !.at = "turn"]
  <2>1. Becomes(Left(p, t))
    BY <1>6 DEF SkipInValue
  <2>2. /\ p \in Parser /\ p.text = self.text /\ p.pos = self.pos /\ p.open = self.open /\ p.isOpen = self.isOpen
        /\ p.processed = self.processed /\ p.level = self.level /\ p.at = "turn" /\ p.cur = self.cur
        /\ p.s = self.s /\ p.error = self.error
    BY <1>3 DEF Parser
  <2> HIDE DEF p
  <2>3. Marks(p) /\ Text(p) = Text(self)
    BY <1>3, <2>2 DEF Marks, Text
  <2>4. Leave(p, t)
    BY <1>1, <1>6, <2>1 DEF Leave, EndsAsync, Kind
  <2>5. Leaves(p, t)
    BY <1>1, <1>2, <1>4, <2>2, <2>3, <2>4 DEF Leaves, Alike
  <2> QED  BY <2>5, LeaveStep
<1>7. CASE Kind("value") /\ doc.decl[e].is = "undeclared" /\ ~IsRoot
  <2> DEFINE q == [self EXCEPT !.at = "done", !.s = self.s]
  <2>1. Becomes([self EXCEPT !.at = "done"])
    BY <1>7 DEF SkipInValue
  <2>2. q = [self EXCEPT !.at = "done"]
    BY <1>3 DEF Parser
  <2> HIDE DEF q
  <2>3. Goes(q, "done", self.s)
    BY <1>1, <1>2, <1>3, <1>4, <1>5, <1>7, <2>1, <2>2 DEF Goes, q
  <2> QED  BY <2>3, GoStep
<1>8. CASE ~(Kind("value") /\ doc.decl[e].is = "undeclared")
  <2> DEFINE q == [self EXCEPT !.at = "text", !.s = t]
  <2>1. Becomes([self EXCEPT !.s = @ + 1])
    BY <1>8 DEF SkipInValue
  <2>2. q = [self EXCEPT !.s = @ + 1]
    BY <1>2, <1>3 DEF Parser
  <2> HIDE DEF t, q
  <2>3. Goes(q, "text", t)
    BY <1>1, <1>2, <1>4, <2>1, <2>2 DEF Goes, q
  <2> QED  BY <2>3, GoStep
<1> QED  BY <1>6, <1>7, <1>8

(* The parser that waited for an external entity goes on.                  *)
LEMMA AfterExternalStep ==
  ASSUME EntityInv, AfterExternal
  PROVE  EntityInv'
<1>1. self.at = "back" /\ GoesOn(self) /\ UNCHANGED <<doc, status, direct, indirect, depth>>
  BY DEF AfterExternal
<1>2. IsDocument(doc) /\ Results /\ self \in Parser /\ Marks(self) /\ ReadsHead(self) /\ cause = "NONE"
      /\ LevelsNest(self, Lowest(Len(parsers)))
  BY <1>1, Now
<1>3. Counters'
  BY <1>1, <1>2 DEF Results, Counters
<1>4. self.s < Len(Text(self))
  BY <1>1, <1>2 DEF ReadsHead
<1>5. GoesFrom(self)
  BY <1>1, <1>2, <1>3, <1>4 DEF GoesFrom, Alike
<1> QED  BY <1>5, GoesOnStep

-----------------------------------------------------------------------------
(* The parser that is reading opens or closes an entity.                   *)
Changes(q) ==
  /\ TopAfter(q) /\ q.at # "external" /\ q.error = "NONE" /\ cause = "NONE" /\ UNCHANGED cause /\ Counters'
  /\ IsFiniteSet(q.isOpen)
  /\ Cardinality(q.isOpen) = depth' + IF Kind("value") THEN 0 ELSE Len(parsers) - 1

(* A step that changes the list keeps the invariant.                       *)
LEMMA ListStep ==
  ASSUME EntityInv, NEW q, Changes(q)
  PROVE  EntityInv'
<1>1. IsDocument(doc) /\ Chain(parsers) /\ Results /\ ErrorsEnd
  BY Now
<1> DEFINE n == Len(parsers)
<1>2. TopAfter(q)
  BY DEF Changes
<1>3. /\ Chain(parsers)' /\ Len(parsers') = n /\ self' = q
      /\ \A m \in DOMAIN parsers' : m = n \/ (m \in DOMAIN parsers /\ parsers'[m] = parsers[m])
  BY <1>1, <1>2, TopStep
<1> HIDE DEF n
<1>4. IsDocument(doc)' /\ UNCHANGED doc
  BY <1>1, <1>2 DEF TopAfter, Fits, IsDocument
<1>5. Counted'
  BY <1>3, <1>4 DEF Counted, Changes, Kind, n
<1>6. ErrorsEnd'
  <2>1. parsers'[n] = q
    BY <1>3 DEF self, Last
  <2> QED  BY <1>1, <1>3, <2>1 DEF ErrorsEnd, Changes
<1>7. Results' /\ self'.at # "external"
  BY <1>1, <1>3 DEF Results, Changes
<1>8. Together'
  BY <1>3, <1>4, <1>5, <1>6, <1>7 DEF Together
<1> QED  BY <1>8, Parts, PTL

(* The head of a list is taken off.                                        *)
LEMMA Shorter ==
  ASSUME NEW p \in Parser, OpenOnce(p), NEW lowest, LevelsNest(p, lowest), p.open # <<>>,
         NEW q, q.open = Tail(p.open), q.level = p.level
  PROVE  /\ OpenOnce(q) /\ LevelsNest(q, lowest)
         /\ Listed(q) = Listed(p) \ {Head(p.open).entity} /\ Head(p.open).entity \in Listed(p)
         /\ q.open \in Seq(OpenedEntity) /\ (Len(p.open) = 1 => q.open = <<>>)
<1> DEFINE list == p.open
           n == Len(list)
<1>1. list \in Seq(OpenedEntity) /\ n \in Nat /\ n > 0 /\ DOMAIN list = 1..n /\ Head(list) = list[1]
  BY Fields
<1>2. q.open \in Seq(OpenedEntity) /\ Len(q.open) = n - 1 /\ \A i \in 1 .. n - 1 : q.open[i] = list[i + 1]
  BY <1>1
<1> HIDE DEF list, n
<1>3. DOMAIN q.open = 1 .. n - 1
  BY <1>2
<1>4. \A i \in 1 .. n - 1 : i + 1 \in 1..n /\ q.open[i] = list[i + 1]
  BY <1>1, <1>2
<1>5. OpenOnce(q)
  <2>1. \A i, j \in 1..n : list[i].entity = list[j].entity => i = j
    BY <1>1 DEF OpenOnce, list
  <2>2. ASSUME NEW i \in 1 .. n - 1, NEW j \in 1 .. n - 1, q.open[i].entity = q.open[j].entity
        PROVE  i + 1 = j + 1
    <3>1. i + 1 \in 1..n /\ j + 1 \in 1..n /\ q.open[i] = list[i + 1] /\ q.open[j] = list[j + 1]
      BY <1>4
    <3>2. list[i + 1].entity = list[j + 1].entity
      BY <2>2, <3>1
    <3> QED  BY <2>1, <3>1, <3>2
  <2>3. \A i, j \in 1 .. n - 1 : i + 1 = j + 1 => i = j
    BY <1>1
  <2> QED  BY <1>3, <2>2, <2>3 DEF OpenOnce
<1>6. Listed(q) = Listed(p) \ {list[1].entity}
  <2>1. ASSUME NEW i \in 1..n, i # 1 PROVE i - 1 \in 1 .. n - 1 /\ q.open[i - 1] = list[i]
    <3>1. i - 1 \in 1 .. n - 1 /\ i - 1 + 1 = i
      BY <1>1, <2>1
    <3> QED  BY <1>4, <3>1
  <2>2. \A i \in 1 .. n - 1 : i + 1 # 1
    OBVIOUS
  <2>3. \A i \in 1..n : list[i].entity = list[1].entity => i = 1
    BY <1>1 DEF OpenOnce, list
  <2>4. Listed(p) = {list[i].entity : i \in 1..n} /\ Listed(q) = {q.open[i].entity : i \in 1 .. n - 1}
    BY <1>1, <1>3 DEF Listed, list
  <2>5. Listed(q) \subseteq Listed(p) \ {list[1].entity}
    <3>1. SUFFICES ASSUME NEW i \in 1 .. n - 1
                   PROVE  q.open[i].entity \in Listed(p) \ {list[1].entity}
      BY <2>4
    <3>2. i + 1 \in 1..n /\ q.open[i] = list[i + 1] /\ i + 1 # 1
      BY <1>4, <2>2
    <3>3. list[i + 1].entity # list[1].entity
      BY <2>3, <3>2
    <3>4. list[i + 1].entity \in Listed(p)
      BY <2>4, <3>2
    <3> QED  BY <3>2, <3>3, <3>4
  <2>6. Listed(p) \ {list[1].entity} \subseteq Listed(q)
    <3>1. SUFFICES ASSUME NEW x \in Listed(p), x # list[1].entity PROVE x \in Listed(q)
      OBVIOUS
    <3>2. PICK i \in 1..n : x = list[i].entity
      BY <2>4
    <3>3. i # 1
      BY <3>1, <3>2
    <3>4. i - 1 \in 1 .. n - 1 /\ q.open[i - 1].entity = x
      BY <2>1, <3>2, <3>3
    <3> QED  BY <2>4, <3>4
  <2> QED  BY <2>5, <2>6
<1>7. list[1].entity \in Listed(p)
  <2>1. 1 \in DOMAIN list
    BY <1>1
  <2> QED  BY <2>1 DEF Listed, list
<1>8. LevelsNest(q, lowest)
  <2>1. /\ lowest <= p.level
        /\ \A i \in 1..n : lowest <= list[i].level
        /\ \A i, j \in 1..n : i < j => list[j].level <= list[i].level
        /\ list[1].level <= p.level
    BY <1>1 DEF LevelsNest, list
  <2>2. \A i \in 1 .. n - 1 : lowest <= q.open[i].level
    BY <1>4, <2>1
  <2>3. \A i, j \in 1 .. n - 1 : i < j => q.open[j].level <= q.open[i].level
    <3>1. \A i, j \in 1 .. n - 1 : i < j => i + 1 < j + 1
      BY <1>1
    <3> QED  BY <1>4, <2>1, <3>1
  <2>4. q.open # <<>> => q.open[1].level <= q.level
    <3>1. q.open # <<>> => 1 \in 1 .. n - 1 /\ 2 \in 1..n
      <4>1. q.open # <<>> => Len(q.open) > 0
        BY <1>2
      <4> QED  BY <1>1, <1>2, <4>1
    <3>2. q.open # <<>> => q.open[1] = list[2]
      BY <1>4, <3>1
    <3>3. q.open # <<>> => list[2].level <= list[1].level
      <4>1. q.open # <<>> => 1 \in 1..n /\ 2 \in 1..n /\ 1 < 2
        BY <1>1, <3>1
      <4> QED  BY <2>1, <4>1
    <3>4. q.open # <<>> => list[1].level \in Int /\ list[2].level \in Int
      <4>1. \A i \in 1..n : list[i] \in OpenedEntity
        BY <1>1
      <4> QED  BY <3>1, <4>1, <1>1 DEF OpenedEntity
    <3>5. p.level \in Int
      BY Fields
    <3> QED  BY <2>1, <3>2, <3>3, <3>4, <3>5
  <2> QED  BY <1>3, <2>1, <2>2, <2>3, <2>4 DEF LevelsNest
<1>9. n = 1 => q.open = <<>>
  <2>1. n = 1 => Len(q.open) = 0
    BY <1>2
  <2> QED  BY <1>2, <2>1, EmptySeq
<1> QED  BY <1>1, <1>2, <1>5, <1>6, <1>7, <1>8, <1>9 DEF list, n

(* An entity that has been read is closed.                                 *)
LEMMA CloseEntityStep ==
  ASSUME EntityInv, CloseEntity
  PROVE  EntityInv'
<1> DEFINE e == Head(self.open).entity
           complete == ~Kind("content") /\ Len(self.open) = 1 /\ self.pos = Len(self.text)
           at == IF complete THEN "done" ELSE "turn"
           q == [Closed(self) EXCEPT !.at = at]
           n == Len(parsers)
<1>1. /\ IsDocument(doc) /\ Chain(parsers) /\ Counted /\ Results /\ self \in Parser /\ Marks(self)
      /\ ReadsHead(self) /\ OpenOnce(self) /\ LevelsNest(self, Lowest(n)) /\ self.at = "turn"
      /\ Kind("value") /\ ~IsRoot => self.open = <<>> /\ self.cur = Null
      /\ self.open # <<>> /\ cause = "NONE" /\ self.error = "NONE"
  BY Now DEF CloseEntity
<1>2. /\ self.isOpen = Before(parsers, n) \cup Listed(self) /\ Before(parsers, n) \cap Listed(self) = {}
  BY <1>1, Top
<1>3. Becomes(q) /\ depth' = depth - 1 /\ UNCHANGED <<doc, status, direct, indirect, cause>>
  BY DEF CloseEntity
<1>4. at \in {"turn", "done"} /\ (at = "done" => Len(self.open) = 1)
  OBVIOUS
<1> HIDE DEF complete, at
<1>5. Tail(self.open) \in Seq(OpenedEntity)
  BY <1>1, Fields
<1>6. Closed(self) = [self EXCEPT !.open = Tail(self.open), !.isOpen = self.isOpen \ {e}]
  BY DEF Closed
<1> HIDE DEF e
<1>7. /\ q \in Parser /\ q.text = self.text /\ q.pos = self.pos /\ q.open = Tail(self.open)
      /\ q.isOpen = self.isOpen \ {e} /\ q.processed = self.processed /\ q.level = self.level /\ q.at = at
      /\ q.cur = self.cur /\ q.s = self.s /\ q.error = self.error
  BY <1>1, <1>4, <1>5, <1>6 DEF Parser
<1> HIDE DEF q
<1>8. /\ OpenOnce(q) /\ LevelsNest(q, Lowest(n)) /\ Listed(q) = Listed(self) \ {e} /\ e \in Listed(self)
      /\ Len(self.open) = 1 => q.open = <<>>
  BY <1>1, <1>7, Shorter DEF e
<1>9. Marks(q) /\ ReadsHead(q)
  BY <1>1, <1>4, <1>7, <1>8 DEF Marks, Text, ReadsHead
<1>10. TopAfter(q)
  BY <1>1, <1>2, <1>3, <1>7, <1>8, <1>9 DEF TopAfter, Fits, ParserOK
<1>11. Cardinality(q.isOpen) = Cardinality(self.isOpen) - 1 /\ IsFiniteSet(q.isOpen)
  <2>1. e \in self.isOpen /\ IsFiniteSet(self.isOpen)
    BY <1>1, <1>2, <1>8 DEF Counted
  <2> QED  BY <1>7, <2>1, FS_RemoveElement
<1>12. depth \in Int /\ n \in Nat
  BY <1>1, Top DEF Results, Counters
<1>13. Cardinality(q.isOpen) = depth' + IF Kind("value") THEN 0 ELSE n - 1
  <2>1. Cardinality(self.isOpen) = depth + IF Kind("value") THEN 0 ELSE n - 1
    BY <1>1 DEF Counted
  <2> HIDE DEF n
  <2> QED  BY <1>3, <1>11, <1>12, <2>1
<1>14. Changes(q)
  <2>1. Counters'
    BY <1>1, <1>3, <1>12 DEF Counters, Results
  <2>2. q.at # "external" /\ q.error = "NONE"
    BY <1>1, <1>4, <1>7
  <2> QED  BY <1>1, <1>3, <1>10, <1>11, <1>13, <2>1, <2>2 DEF Changes
<1> QED  BY <1>14, ListStep

(* An entity is put before a list.                                         *)
LEMMA Longer ==
  ASSUME NEW p \in Parser, OpenOnce(p), NEW lowest, LevelsNest(p, lowest), NEW e \in Entities, e \notin Listed(p),
         NEW q, q.open = <<[entity |-> e, level |-> p.level]>> \o p.open, q.level = p.level
  PROVE  /\ OpenOnce(q) /\ LevelsNest(q, lowest) /\ Listed(q) = Listed(p) \cup {e}
         /\ q.open \in Seq(OpenedEntity)
<1> DEFINE list == p.open
           n == Len(list)
           h == [entity |-> e, level |-> p.level]
<1>1. list \in Seq(OpenedEntity) /\ n \in Nat /\ DOMAIN list = 1..n /\ p.level \in Nat
  BY Fields
<1>2. h \in OpenedEntity /\ h.entity = e /\ h.level = p.level
  BY <1>1 DEF OpenedEntity
<1> HIDE DEF h
<1>3. q.open = <<h>> \o list
  BY DEF h
<1>4. /\ q.open \in Seq(OpenedEntity) /\ Len(q.open) = n + 1 /\ q.open[1] = h
      /\ \A i \in 2 .. n + 1 : q.open[i] = list[i - 1]
  BY <1>1, <1>2, <1>3
<1>5. DOMAIN q.open = 1 .. n + 1
  BY <1>4
<1> HIDE DEF list, n
<1>6. ASSUME NEW i \in 1 .. n + 1, i # 1
      PROVE  i - 1 \in 1..n /\ q.open[i] = list[i - 1] /\ list[i - 1] \in OpenedEntity
  <2>1. i \in 2 .. n + 1 /\ i - 1 \in 1..n
    BY <1>1, <1>6
  <2> QED  BY <1>1, <1>4, <2>1
<1>7. Listed(p) = {list[i].entity : i \in 1..n} /\ Listed(q) = {q.open[i].entity : i \in 1 .. n + 1}
  BY <1>1, <1>5 DEF Listed, list
<1>8. 1 \in 1 .. n + 1 /\ \A i \in 1..n : i + 1 \in 1 .. n + 1 /\ i + 1 # 1 /\ (i + 1) - 1 = i
  BY <1>1
<1>9. Listed(q) = Listed(p) \cup {e}
  <2>1. ASSUME NEW i \in 1 .. n + 1 PROVE q.open[i].entity \in Listed(p) \cup {e}
    <3>1. CASE i = 1
      BY <1>2, <1>4, <3>1
    <3>2. CASE i # 1
      <4>1. i - 1 \in 1..n /\ q.open[i] = list[i - 1]
        BY <1>6, <3>2
      <4> QED  BY <1>7, <4>1
    <3> QED  BY <3>1, <3>2
  <2>2. ASSUME NEW i \in 1..n PROVE list[i].entity \in Listed(q)
    <3>1. i + 1 \in 1 .. n + 1 /\ i + 1 # 1 /\ (i + 1) - 1 = i
      BY <1>8
    <3>2. q.open[i + 1] = list[(i + 1) - 1]
      <4>1. \A k \in 1 .. n + 1 : k # 1 => q.open[k] = list[k - 1]
        BY <1>6
      <4> DEFINE k == i + 1
      <4>2. k \in 1 .. n + 1 /\ k # 1
        BY <3>1
      <4> HIDE DEF k
      <4>3. q.open[k] = list[k - 1]
        BY <4>1, <4>2
      <4> QED  BY <4>3 DEF k
    <3>3. q.open[i + 1] = list[i]
      BY <3>1, <3>2
    <3> QED  BY <1>7, <3>1, <3>3
  <2>3. e \in Listed(q)
    BY <1>2, <1>4, <1>7, <1>8
  <2>4. Listed(p) \subseteq Listed(q)
    BY <1>7, <2>2
  <2>5. Listed(q) \subseteq Listed(p) \cup {e}
    BY <1>7, <2>1
  <2> QED  BY <2>3, <2>4, <2>5
<1>10. OpenOnce(q)
  <2>1. ASSUME NEW i \in 1 .. n + 1, NEW j \in 1 .. n + 1, q.open[i].entity = q.open[j].entity
        PROVE  i = j
    <3>1. \A k \in 1 .. n + 1 : k # 1 => k - 1 \in 1..n /\ q.open[k] = list[k - 1]
      BY <1>6
    <3>2. \A k \in 1 .. n + 1 : k # 1 => q.open[k].entity # e
      BY <1>7, <3>1
    <3>3. q.open[1].entity = e
      BY <1>2, <1>4
    <3>4. CASE i # 1 /\ j # 1
      <4>1. \A k, l \in 1..n : list[k].entity = list[l].entity => k = l
        BY <1>1 DEF OpenOnce, list
      <4>2. /\ i - 1 \in 1..n /\ j - 1 \in 1..n
            /\ q.open[i].entity = list[i - 1].entity /\ q.open[j].entity = list[j - 1].entity
        BY <3>1, <3>4
      <4>3. list[i - 1].entity = list[j - 1].entity
        BY <2>1, <4>2
      <4>4. i - 1 = j - 1
        BY <4>1, <4>2, <4>3
      <4> QED  BY <4>4
    <3>5. CASE i = 1 /\ j # 1
      BY <2>1, <3>2, <3>3, <3>5
    <3>6. CASE i # 1 /\ j = 1
      BY <2>1, <3>2, <3>3, <3>6
    <3> QED  BY <3>4, <3>5, <3>6
  <2> QED  BY <1>5, <2>1 DEF OpenOnce
<1>11. LevelsNest(q, lowest)
  <2>1. /\ lowest <= p.level
        /\ \A i \in 1..n : lowest <= list[i].level
        /\ \A i, j \in 1..n : i < j => list[j].level <= list[i].level
        /\ list # <<>> => list[1].level <= p.level
    BY <1>1 DEF LevelsNest, list
  <2>2. ASSUME NEW k \in 1..n PROVE list[k].level <= p.level
    <3>1. 1 \in 1..n /\ list # <<>>
      BY <1>1, <2>2
    <3>2. k = 1 \/ 1 < k
      BY <2>2
    <3>3. list[1] \in OpenedEntity /\ list[k] \in OpenedEntity
      BY <1>1, <2>2, <3>1
    <3>4. list[1].level \in Int /\ list[k].level \in Int /\ p.level \in Int
      BY <1>1, <3>3 DEF OpenedEntity
    <3>5. list[k].level <= list[1].level
      BY <2>1, <3>1, <3>2, <3>4
    <3> QED  BY <2>1, <3>1, <3>4, <3>5
  <2>3. \A i \in 1 .. n + 1 : lowest <= q.open[i].level
    <3> TAKE i \in 1 .. n + 1
    <3>1. CASE i = 1
      BY <1>2, <1>4, <2>1, <3>1
    <3>2. CASE i # 1
      <4>1. i - 1 \in 1..n /\ q.open[i] = list[i - 1]
        BY <1>6, <3>2
      <4> QED  BY <2>1, <4>1
    <3> QED  BY <3>1, <3>2
  <2>4. ASSUME NEW i \in 1 .. n + 1, NEW j \in 1 .. n + 1, i < j PROVE q.open[j].level <= q.open[i].level
    <3>1. j # 1 /\ j - 1 \in 1..n /\ q.open[j] = list[j - 1]
      <4>1. j # 1
        BY <2>4
      <4> QED  BY <1>6, <4>1
    <3>2. CASE i = 1
      BY <1>2, <1>4, <2>2, <3>1, <3>2
    <3>3. CASE i # 1
      <4>1. i - 1 \in 1..n /\ q.open[i] = list[i - 1]
        BY <1>6, <3>3
      <4>2. i - 1 < j - 1
        BY <2>4
      <4> QED  BY <2>1, <3>1, <4>1, <4>2
    <3> QED  BY <3>2, <3>3
  <2>5. lowest <= q.level /\ q.open[1].level <= q.level
    BY <1>1, <1>2, <1>4, <2>1
  <2> QED  BY <1>5, <2>3, <2>4, <2>5 DEF LevelsNest
<1> QED  BY <1>4, <1>9, <1>10, <1>11

(* The value of an entity refers to external entities only where these     *)
(* refer to none that has a value: storeEntityValue leaves such a one open *)
(* when it returns (see OpenedAreClosed).                                  *)
NothingLost ==
  \A d \in Documents : d.kind = "value" =>
    \A e \in Entities : d.decl[e].is = "external" =>
      \A i \in DOMAIN d.decl[e].text :
        d.decl[e].text[i] \in Entities => d.decl[d.decl[e].text[i]].is \notin {"internal", "declared"}

(* In entity values only the parser of the declaration opens entities.     *)
LEMMA OpensAtRoot ==
  ASSUME EntityInv, doc \in Documents, NothingLost, NEW e \in Entities, OpenEntity(e), Kind("value")
  PROVE  IsRoot
<1> SUFFICES ASSUME ~IsRoot PROVE FALSE
  OBVIOUS
<1> DEFINE n == Len(parsers)
<1>1. Takes(e) /\ doc.decl[e].is \in {"internal", "declared"}
  BY DEF OpenEntity, Refers
<1>2. e = Item /\ self.s + 1 <= Len(Text(self)) /\ self.s + 1 \in Nat
  BY <1>1, Taken
<1>3. self.cur = Null /\ IsDocument(doc) /\ Chain(parsers) /\ self \in Parser
  BY Now
<1>4. n > 1 /\ self = parsers[n] /\ Link(parsers, n)
  BY <1>3, Top DEF Place
<1>5. /\ Waits(parsers, n - 1) \in Entities /\ doc.decl[Waits(parsers, n - 1)].is = "external"
      /\ self.text = doc.decl[Waits(parsers, n - 1)].text
  BY <1>4 DEF Link
<1>6. Text(self) = self.text /\ self.text \in Seq(Items) /\ self.s \in Nat
  BY <1>3, Fields DEF Text
<1>7. self.s + 1 \in DOMAIN self.text /\ e = self.text[self.s + 1]
  BY <1>2, <1>6 DEF Item
<1>8. doc.decl[e].is \notin {"internal", "declared"}
  <2> DEFINE w == Waits(parsers, n - 1)
             i == self.s + 1
  <2>1. i \in DOMAIN doc.decl[w].text /\ e = doc.decl[w].text[i] /\ w \in Entities /\ doc.decl[w].is = "external"
    BY <1>5, <1>7
  <2> HIDE DEF w, i
  <2> QED  BY <2>1 DEF NothingLost, Kind
<1> QED  BY <1>1, <1>8

(* A parser with another list, and with what is known of its entities.     *)
LEMMA Relisted ==
  ASSUME NEW p \in Parser, NEW open \in Seq(OpenedEntity), NEW isOpen \in SUBSET Entities,
         NEW more \in SUBSET Entities, NEW processed \in [Entities -> Nat]
  PROVE  [p EXCEPT !.open = open, !.isOpen = isOpen, !.more = more, !.processed = processed] \in Parser
BY DEF Parser

(* What a parser is with an entity opened.                                 *)
IsOpened(p, e, q) ==
  /\ q.text = p.text /\ q.pos = p.pos /\ q.open = <<[entity |-> e, level |-> p.level]>> \o p.open
  /\ q.isOpen = p.isOpen \cup {e} /\ q.more = p.more \cup {e}
  /\ q.processed = [p.processed EXCEPT ![e] = 0] /\ q.level = p.level
  /\ q.at = "turn" /\ q.cur = p.cur /\ q.s = p.s /\ q.error = p.error /\ q.account = p.account
  /\ q.open \in Seq(OpenedEntity) => q \in Parser

(* Opened makes it so.                                                     *)
LEMMA OpenedIs ==
  ASSUME NEW p \in Parser, NEW e \in Entities, NEW q, q = [Opened(p, e) EXCEPT !.at = "turn"]
  PROVE  IsOpened(p, e, q)
<1> DEFINE open == <<[entity |-> e, level |-> p.level]>> \o p.open
           processed == [p.processed EXCEPT ![e] = 0]
<1>1. processed \in [Entities -> Nat]
  BY Fields
<1>2. Opened(p, e) = [p EXCEPT !.open = open, !.isOpen = p.isOpen \cup {e}, !.more = p.more \cup {e},
                               !.processed = processed]
  BY Fields DEF Opened
<1> HIDE DEF open, processed
<1> DEFINE isOpen == p.isOpen \cup {e}
           more == p.more \cup {e}
<1>3. isOpen \in SUBSET Entities /\ more \in SUBSET Entities
  BY Fields
<1>4. q = [[p EXCEPT !.open = open, !.isOpen = isOpen, !.more = more, !.processed = processed] EXCEPT !.at = "turn"]
  BY <1>2
<1> HIDE DEF isOpen, more
<1>5. p = [text |-> p.text, account |-> p.account, pos |-> p.pos, level |-> p.level, open |-> p.open,
           isOpen |-> p.isOpen, more |-> p.more, processed |-> p.processed, at |-> p.at, cur |-> p.cur,
           s |-> p.s, error |-> p.error]
  BY Fields
<1>6. q = [text |-> p.text, account |-> p.account, pos |-> p.pos, level |-> p.level, open |-> open,
           isOpen |-> isOpen, more |-> more, processed |-> processed, at |-> "turn",
           cur |-> p.cur, s |-> p.s, error |-> p.error]
  BY <1>4, <1>5
<1>7. /\ p.text \in Seq(Items) /\ p.account \in {"direct", "none", "expansion"} /\ p.pos \in Nat
      /\ p.level \in Nat /\ p.cur \in Entities \cup {Null} /\ p.s \in Nat /\ p.error \in Errors
  BY DEF Parser
<1>8. ASSUME open \in Seq(OpenedEntity) PROVE q \in Parser
  <2> DEFINE r == [p EXCEPT !.open = open, !.isOpen = isOpen, !.more = more, !.processed = processed]
  <2>1. r \in Parser
    BY <1>1, <1>3, <1>8, Relisted
  <2>2. q = [r EXCEPT !.at = "turn"]
    BY <1>4
  <2> HIDE DEF r
  <2> QED  BY <2>1, <2>2 DEF Parser
<1>9. /\ q.text = p.text /\ q.pos = p.pos /\ q.open = open /\ q.isOpen = isOpen /\ q.processed = processed
      /\ q.level = p.level /\ q.at = "turn" /\ q.cur = p.cur /\ q.s = p.s /\ q.error = p.error
      /\ q.account = p.account /\ q.more = more
  BY <1>6
<1> QED  BY <1>8, <1>9 DEF IsOpened, open, processed, isOpen, more

(* An internal entity is opened.                                           *)
LEMMA OpenEntityStep ==
  ASSUME EntityInv, doc \in Documents, NothingLost, NEW e \in Entities, OpenEntity(e)
  PROVE  EntityInv'
<1> DEFINE p == [Opened(self, e) EXCEPT !.at = "turn"]
           t == self.s + 1
           n == Len(parsers)
<1>1. /\ Takes(e) /\ Error(e) = "NONE" /\ doc.decl[e].is \in {"internal", "declared"}
      /\ depth' = depth + 1 /\ UNCHANGED <<doc, status>>
  BY DEF OpenEntity, Refers
<1>2. /\ self.at = "text" /\ t <= Len(Text(self)) /\ t \in Nat
      /\ direct' \in Nat /\ indirect' \in Nat /\ cause = "NONE" /\ self.error = "NONE"
  BY <1>1, Taken
<1>3. /\ IsDocument(doc) /\ Chain(parsers) /\ Counted /\ Results /\ self \in Parser /\ Marks(self)
      /\ ReadsHead(self) /\ OpenOnce(self) /\ LevelsNest(self, Lowest(n))
  BY Now
<1>4. /\ self.isOpen = Before(parsers, n) \cup Listed(self) /\ Before(parsers, n) \cap Listed(self) = {}
  BY <1>3, Top
<1>5. Kind("value") => IsRoot
  BY OpensAtRoot
<1>6. Leave(p, t)
  BY <1>5 DEF OpenEntity
<1>7. e \notin self.isOpen
  BY <1>1 DEF Error, ParameterError, GeneralError
<1>8. Counters' /\ depth \in Int
  BY <1>1, <1>2, <1>3 DEF Counters, Results
<1>9. CASE EndsAsync(p, t)
  <2>1. Fail("ASYNC_ENTITY") /\ "ASYNC_ENTITY" \in Errors
    BY <1>6, <1>9 DEF Leave, Errors
  <2> QED  BY <1>1, <1>8, <2>1, FailStep
<1>10. CASE ~EndsAsync(p, t)
  <2> DEFINE q == Left(p, t)
  <2>1. Becomes(q) /\ UNCHANGED cause
    BY <1>6, <1>10 DEF Leave
  <2>2. /\ p.text = self.text /\ p.pos = self.pos
        /\ p.open = <<[entity |-> e, level |-> self.level]>> \o self.open
        /\ p.isOpen = self.isOpen \cup {e} /\ p.processed = [self.processed EXCEPT ![e] = 0]
        /\ p.level = self.level /\ p.at = "turn" /\ p.cur = self.cur /\ p.s = self.s /\ p.error = self.error
        /\ p.open \in Seq(OpenedEntity) => p \in Parser
    <3>1. p = [Opened(self, e) EXCEPT !.at = "turn"]
      OBVIOUS
    <3> HIDE DEF p
    <3>2. IsOpened(self, e, p)
      BY <1>3, <3>1, OpenedIs
    <3> QED  BY <3>2 DEF IsOpened
  <2> HIDE DEF p, t
  <2>3. /\ OpenOnce(p) /\ LevelsNest(p, Lowest(n)) /\ Listed(p) = Listed(self) \cup {e} /\ p \in Parser
    <3>1. self \in Parser /\ OpenOnce(self) /\ LevelsNest(self, Lowest(n)) /\ e \notin Listed(self)
      BY <1>3, <1>4, <1>7
    <3>2. p.open = <<[entity |-> e, level |-> self.level]>> \o self.open /\ p.level = self.level
      BY <2>2
    <3> DEFINE lowest == Lowest(n)
    <3> HIDE DEF n, lowest
    <3>3. LevelsNest(self, lowest)
      BY <3>1 DEF lowest
    <3>4. /\ OpenOnce(p) /\ LevelsNest(p, lowest) /\ Listed(p) = Listed(self) \cup {e}
          /\ p.open \in Seq(OpenedEntity)
      BY <3>1, <3>2, <3>3, Longer
    <3> QED  BY <2>2, <3>4 DEF lowest
  <2>4. Text(p) = Text(self) /\ Marks(p)
    <3>1. Text(p) = Text(self)
      BY <2>2 DEF Text
    <3>2. \A f \in Entities : p.processed[f] <= Len(doc.decl[f].text)
      <4> TAKE f \in Entities
      <4>1. self.processed \in [Entities -> Nat] /\ self.processed[f] <= Len(doc.decl[f].text)
        BY <1>3, Fields DEF Marks
      <4>2. CASE f = e
        <5>1. p.processed[f] = 0 /\ Len(doc.decl[f].text) \in Nat
          BY <1>3, <2>2, <4>1, <4>2 DEF IsDocument
        <5> QED  BY <5>1
      <4>3. CASE f # e
        BY <2>2, <4>1, <4>3
      <4> QED  BY <4>2, <4>3
    <3> QED  BY <1>3, <2>2, <3>1, <3>2 DEF Marks
  <2>5. /\ q \in Parser /\ Marks(q) /\ q.text = p.text /\ q.level = p.level /\ q.open = p.open
        /\ q.isOpen = p.isOpen /\ q.at = p.at /\ q.cur = Null /\ q.error = p.error
    BY <1>2, <1>3, <2>3, <2>4, LeftIs
  <2> HIDE DEF q
  <2>6. OpenOnce(q) /\ LevelsNest(q, Lowest(n)) /\ Listed(q) = Listed(self) \cup {e} /\ ReadsHead(q)
    <3>1. q.open = p.open /\ q.level = p.level /\ q.at = "turn" /\ q.cur = Null
      BY <2>2, <2>5
    <3>2. OpenOnce(q)
      BY <2>3, <3>1 DEF OpenOnce
    <3>3. LevelsNest(q, Lowest(n))
      BY <2>3, <3>1 DEF LevelsNest
    <3>4. Listed(q) = Listed(p)
      BY <3>1 DEF Listed
    <3> QED  BY <2>3, <3>1, <3>2, <3>3, <3>4 DEF ReadsHead
  <2>7. q.isOpen = Before(parsers, n) \cup Listed(q) /\ Before(parsers, n) \cap Listed(q) = {}
    BY <1>4, <1>7, <2>2, <2>5, <2>6
  <2>8. TopAfter(q)
    BY <1>1, <1>5, <2>1, <2>2, <2>5, <2>6, <2>7 DEF TopAfter, Fits, ParserOK
  <2>9. IsFiniteSet(q.isOpen) /\ Cardinality(q.isOpen) = Cardinality(self.isOpen) + 1
    <3>1. IsFiniteSet(self.isOpen) /\ q.isOpen = self.isOpen \cup {e}
      BY <1>3, <2>2, <2>5 DEF Counted
    <3> QED  BY <1>7, <3>1, FS_AddElement
  <2>10. Cardinality(q.isOpen) = depth' + IF Kind("value") THEN 0 ELSE n - 1
    <3>1. Cardinality(self.isOpen) = depth + IF Kind("value") THEN 0 ELSE n - 1
      BY <1>2, <1>3 DEF Counted
    <3>2. n \in Nat
      BY <1>3, Top
    <3> HIDE DEF n
    <3> QED  BY <1>1, <1>8, <2>9, <3>1, <3>2
  <2>11. Changes(q)
    <3>1. q.at # "external" /\ q.error = "NONE"
      BY <1>2, <2>2, <2>5
    <3> QED  BY <1>2, <1>8, <2>1, <2>8, <2>9, <2>10, <3>1 DEF Changes
  <2> QED  BY <2>11, ListStep
<1> QED  BY <1>9, <1>10

-----------------------------------------------------------------------------
(* The parser made for an external entity.                                 *)
LEMMA ChildIs ==
  ASSUME IsDocument(doc), self \in Parser, Marks(self), NEW e \in Entities, NEW c, c = Child(e)
  PROVE  /\ c \in Parser /\ c.text = doc.decl[e].text /\ c.open = <<>> /\ c.isOpen = self.isOpen \cup {e}
         /\ c.cur = Null /\ c.at = "turn" /\ c.error = "NONE" /\ ParserOK(c, 1) /\ Listed(c) = {}
         /\ c.account # "none"
<1> DEFINE open == self.isOpen \cup {e}
           text == doc.decl[e].text
           account == IF Kind("content") THEN "expansion" ELSE "direct"
           more == IF Kind("content") THEN {} ELSE self.more
           none == [f \in Entities |-> 0]
           processed == IF Kind("content") THEN none ELSE self.processed
<1>1. /\ open \in SUBSET Entities /\ text \in Seq(Items) /\ more \in SUBSET Entities
      /\ processed \in [Entities -> Nat] /\ \A f \in Entities : processed[f] <= Len(doc.decl[f].text)
  <2>1. /\ self.isOpen \in SUBSET Entities /\ self.more \in SUBSET Entities
        /\ self.processed \in [Entities -> Nat] /\ none \in [Entities -> Nat]
    BY Fields
  <2>2. text \in Seq(Items) /\ \A f \in Entities : Len(doc.decl[f].text) \in Nat
    BY DEF IsDocument
  <2>3. \A f \in Entities : processed[f] <= Len(doc.decl[f].text)
    BY <2>1, <2>2 DEF Marks
  <2> QED  BY <2>1, <2>2, <2>3
<1>2. account \in {"direct", "none", "expansion"}
  OBVIOUS
<1>3. c = [text |-> text, account |-> account, pos |-> 0, level |-> 1, open |-> <<>>, isOpen |-> open,
           more |-> more, processed |-> processed, at |-> "turn", cur |-> Null, s |-> 0, error |-> "NONE"]
  <2>1. CASE Kind("content")
    <3> DEFINE r == Fresh(text, "expansion", 1)
    <3>1. account = "expansion" /\ more = {} /\ processed = none
      BY <2>1
    <3>2. c = [r EXCEPT !.isOpen = open]
      BY <2>1 DEF Child
    <3>3. r = [text |-> text, account |-> "expansion", pos |-> 0, level |-> 1,
            open |-> <<>>, isOpen |-> {}, more |-> {}, processed |-> none, at |-> "turn", cur |-> Null,
            s |-> 0, error |-> "NONE"]
      BY DEF Fresh
    <3> HIDE DEF r, open, text, account, more, processed, none
    <3> QED  BY <3>1, <3>2, <3>3
  <2>2. CASE ~Kind("content")
    <3> DEFINE r == Fresh(text, "direct", 1)
    <3>1. account = "direct" /\ more = self.more /\ processed = self.processed
      BY <2>2
    <3>2. c = [r EXCEPT !.isOpen = open, !.more = self.more, !.processed = self.processed]
      BY <2>2 DEF Child
    <3>3. r = [text |-> text, account |-> "direct", pos |-> 0, level |-> 1,
            open |-> <<>>, isOpen |-> {}, more |-> {}, processed |-> none, at |-> "turn", cur |-> Null,
            s |-> 0, error |-> "NONE"]
      BY DEF Fresh
    <3> HIDE DEF r, open, text, account, more, processed, none
    <3> QED  BY <3>1, <3>2, <3>3
  <2> QED  BY <2>1, <2>2
<1> HIDE DEF open, text, account, more, processed
<1>4. /\ c.text = text /\ c.open = <<>> /\ c.isOpen = open /\ c.cur = Null /\ c.at = "turn"
      /\ c.error = "NONE" /\ c.pos = 0 /\ c.s = 0 /\ c.processed = processed /\ c.level = 1
      /\ c.account # "none"
  BY <1>3 DEF account
<1>5. c \in Parser
  <2>1. "NONE" \in Errors /\ <<>> \in Seq(OpenedEntity)
    BY DEF Errors
  <2> QED  BY <1>1, <1>2, <1>3, <2>1 DEF Parser
<1>6. Marks(c)
  <2>1. Text(c) = text /\ Len(text) \in Nat
    BY <1>1, <1>4 DEF Text
  <2> QED  BY <1>1, <1>4, <2>1 DEF Marks
<1>7. OpenOnce(c) /\ ReadsHead(c) /\ LevelsNest(c, 1) /\ Listed(c) = {}
  BY <1>4 DEF OpenOnce, ReadsHead, LevelsNest, Listed
<1> QED  BY <1>4, <1>5, <1>6, <1>7 DEF ParserOK, open, text

(* An external entity gets a parser.                                       *)
LEMMA ReadExternalStep ==
  ASSUME EntityInv, NEW e \in Entities, ReadExternal(e)
  PROVE  EntityInv'
<1> DEFINE n == Len(parsers)
           w == [self EXCEPT !.at = "external"]
           c == Child(e)
           ps == With(w)
           qs == Append(ps, c)
<1>1. /\ Takes(e) /\ Error(e) = "NONE" /\ doc.decl[e].is = "external"
      /\ UNCHANGED <<doc, status, cause>> /\ depth' = IF Kind("value") THEN depth + 1 ELSE depth
  BY DEF ReadExternal, Refers
<1>2. /\ e = Item /\ self.at = "text" /\ self.s + 1 <= Len(Text(self)) /\ self.s + 1 \in Nat
      /\ direct' \in Nat /\ indirect' \in Nat /\ cause = "NONE" /\ self.error = "NONE"
  BY <1>1, Taken
<1>3. /\ IsDocument(doc) /\ Chain(parsers) /\ Counted /\ Results /\ ErrorsEnd /\ self \in Parser /\ Marks(self)
      /\ ReadsHead(self) /\ OpenOnce(self) /\ LevelsNest(self, Lowest(n))
      /\ Kind("value") /\ ~IsRoot => self.open = <<>> /\ self.cur = Null
  BY Now
<1>4. /\ self.isOpen = Before(parsers, n) \cup Listed(self) /\ Before(parsers, n) \cap Listed(self) = {}
      /\ n \in Nat /\ n > 0 /\ self = parsers[n] /\ DOMAIN parsers = 1..n
  BY <1>3, Top
<1>5. e \notin self.isOpen /\ ~Kind("attribute")
  BY <1>1 DEF Error, ParameterError, GeneralError, Kind
<1>6. Counters' /\ depth \in Int
  BY <1>1, <1>2, <1>3 DEF Counters, Results
<1>7. parsers' = qs
  <2>1. parsers' = Append([parsers EXCEPT ![n].at = "external"], c)
    BY DEF ReadExternal
  <2>2. [parsers EXCEPT ![n].at = "external"] = ps
    BY <1>4 DEF With
  <2> QED  BY <2>1, <2>2
<1> HIDE DEF n, c
<1>8. /\ w \in Parser /\ w.text = self.text /\ w.pos = self.pos /\ w.open = self.open /\ w.isOpen = self.isOpen
      /\ w.processed = self.processed /\ w.level = self.level /\ w.at = "external" /\ w.cur = self.cur
      /\ w.s = self.s /\ w.error = self.error
  BY <1>3 DEF Parser
<1> HIDE DEF w
<1>9. Marks(w) /\ Text(w) = Text(self) /\ OpenOnce(w) /\ LevelsNest(w, Lowest(n)) /\ Listed(w) = Listed(self)
  BY <1>3, <1>8 DEF Marks, Text, OpenOnce, LevelsNest, Listed
<1>10. ReadsHead(w)
  <2>1. self.s \in Nat /\ Len(Text(self)) \in Nat
    BY <1>3, Fields, Texts
  <2>2. w.s < Len(Text(w))
    BY <1>2, <1>8, <1>9, <2>1
  <2> QED  BY <1>2, <1>3, <1>8, <2>2 DEF ReadsHead
<1>11. Fits(w)
  BY <1>3, <1>4, <1>8, <1>9, <1>10 DEF Fits, ParserOK, n
<1>12. Chain(ps) /\ Len(ps) = n /\ ps[n] = w /\ DOMAIN ps = 1..n /\ \A m \in 1..n : m # n => ps[m] = parsers[m]
  BY <1>3, <1>11, FitStep DEF n
<1> HIDE DEF ps
<1>13. /\ c \in Parser /\ c.text = doc.decl[e].text /\ c.open = <<>> /\ c.isOpen = self.isOpen \cup {e}
       /\ c.cur = Null /\ c.at = "turn" /\ c.error = "NONE" /\ ParserOK(c, 1) /\ Listed(c) = {}
  BY <1>3, ChildIs DEF c
<1>14. qs \in Seq(Parser) /\ Len(qs) = n + 1 /\ qs[n + 1] = c /\ \A m \in 1..n : qs[m] = ps[m]
  <2>1. ps \in Seq(Parser)
    BY <1>12 DEF Chain
  <2> QED  BY <1>4, <1>12, <1>13, <2>1
<1> HIDE DEF qs
<1>15. qs[n] = w /\ (n + 1) - 1 = n /\ n + 1 > 1 /\ n + 1 # 1
  <2>1. n \in 1..n
    BY <1>4
  <2> QED  BY <1>4, <1>12, <1>14, <2>1
<1>16. Waits(qs, n) = e
  BY <1>2, <1>8, <1>9, <1>15 DEF Waits, Item
<1>17. Place(qs, n + 1)
  <2> DEFINE m == n + 1
  <2>1. m # 1 /\ qs[m - 1] = w /\ qs[m] = c /\ Waits(qs, m - 1) = e
    BY <1>14, <1>15, <1>16
  <2> HIDE DEF m
  <2>2. Before(qs, m) = self.isOpen \cup {e} /\ Lowest(m) = 1
    BY <1>8, <2>1 DEF Before, Lowest
  <2>3. Link(qs, m)
    BY <1>1, <1>5, <1>8, <1>13, <2>1 DEF Link
  <2>4. Place(qs, m)
    BY <1>13, <2>1, <2>2, <2>3 DEF Place
  <2> QED  BY <2>4 DEF m
<1>18. Chain(qs)
  BY <1>4, <1>12, <1>14, <1>17, Extend
<1>19. Chain(parsers)' /\ IsDocument(doc)'
  BY <1>1, <1>3, <1>7, <1>18, ChainAfter DEF IsDocument
<1>20. self' = c /\ Len(parsers') = n + 1
  BY <1>7, <1>14 DEF self, Last
<1>21. Counted'
  <2>1. IsFiniteSet(self.isOpen) /\ Cardinality(self.isOpen) = depth + IF Kind("value") THEN 0 ELSE n - 1
    BY <1>2, <1>3 DEF Counted, n
  <2>2. IsFiniteSet(c.isOpen) /\ Cardinality(c.isOpen) = Cardinality(self.isOpen) + 1
    BY <1>5, <1>13, <2>1, FS_AddElement
  <2>3. Cardinality(c.isOpen) = depth' + IF Kind("value") THEN 0 ELSE (n + 1) - 1
    BY <1>1, <1>4, <1>6, <2>1, <2>2
  <2>4. Kind("value")' <=> Kind("value")
    BY <1>1 DEF Kind
  <2> QED  BY <1>20, <2>2, <2>3, <2>4 DEF Counted
<1>22. ErrorsEnd'
  <2>1. \A m \in DOMAIN parsers' : parsers'[m].error = "NONE"
    <3>1. DOMAIN parsers' = 1 .. n + 1
      BY <1>7, <1>14
    <3>2. ASSUME NEW m \in 1..n PROVE qs[m].error = "NONE"
      <4>1. CASE m = n
        BY <1>2, <1>8, <1>15, <4>1
      <4>2. CASE m # n
        <5>1. qs[m] = parsers[m]
          BY <1>12, <1>14, <4>2
        <5> QED  BY <1>2, <1>3, <1>4, <5>1 DEF ErrorsEnd
      <4> QED  BY <4>1, <4>2
    <3>3. qs[n + 1].error = "NONE"
      BY <1>13, <1>14
    <3>4. \A m \in 1 .. n + 1 : m \in 1..n \/ m = n + 1
      BY <1>4
    <3> QED  BY <1>7, <3>1, <3>2, <3>3, <3>4
  <2> QED  BY <1>1, <1>2, <2>1 DEF ErrorsEnd
<1>23. Together'
  BY <1>1, <1>3, <1>6, <1>13, <1>19, <1>20, <1>21, <1>22 DEF Together, Results
<1> QED  BY <1>23, Parts, PTL

(* What a parser is when the one it waited for has ended.                  *)
IsBack(p, e, q) ==
  /\ q \in Parser /\ q.text = p.text /\ q.pos = p.pos /\ q.open = p.open /\ q.level = p.level /\ q.cur = p.cur
  /\ q.s = p.s /\ q.account = p.account
  /\ q.isOpen = IF Kind("content") THEN p.isOpen ELSE self.isOpen \ {e}
  /\ q.more = IF Kind("content") THEN p.more ELSE self.more
  /\ q.processed = IF Kind("content") THEN p.processed ELSE self.processed
  /\ q.at = IF self.error = "NONE" THEN "back" ELSE "done"
  /\ q.error = IF self.error = "NONE" THEN p.error ELSE "EXTERNAL_ENTITY_HANDLING"

BackAt(p) ==
  [p EXCEPT !.at = IF self.error = "NONE" THEN "back" ELSE "done",
            !.error = IF self.error = "NONE" THEN @ ELSE "EXTERNAL_ENTITY_HANDLING"]
BackWith(p, e) ==
  IF Kind("content") THEN BackAt(p)
  ELSE [BackAt(p) EXCEPT !.isOpen = self.isOpen \ {e}, !.more = self.more, !.processed = self.processed]

(* ExternalEnds makes it so.                                               *)
LEMMA BackIs ==
  ASSUME self \in Parser, NEW p \in Parser, NEW e
  PROVE  IsBack(p, e, BackWith(p, e))
<1> DEFINE back == BackAt(p)
           q == BackWith(p, e)
           at == IF self.error = "NONE" THEN "back" ELSE "done"
           error == IF self.error = "NONE" THEN p.error ELSE "EXTERNAL_ENTITY_HANDLING"
           isOpen == IF Kind("content") THEN p.isOpen ELSE self.isOpen \ {e}
           more == IF Kind("content") THEN p.more ELSE self.more
           processed == IF Kind("content") THEN p.processed ELSE self.processed
<1>1. /\ at \in {"turn", "text", "external", "back", "suspended", "done"} /\ error \in Errors
      /\ isOpen \in SUBSET Entities /\ more \in SUBSET Entities /\ processed \in [Entities -> Nat]
  BY Fields DEF Errors
<1>2. p = [text |-> p.text, account |-> p.account, pos |-> p.pos, level |-> p.level, open |-> p.open,
           isOpen |-> p.isOpen, more |-> p.more, processed |-> p.processed, at |-> p.at, cur |-> p.cur,
           s |-> p.s, error |-> p.error]
  BY Fields
<1>3. back = [p EXCEPT !.at = at, !.error = error]
  BY <1>2 DEF BackAt
<1> HIDE DEF at, error, back
<1>4. back = [text |-> p.text, account |-> p.account, pos |-> p.pos, level |-> p.level, open |-> p.open,
              isOpen |-> p.isOpen, more |-> p.more, processed |-> p.processed, at |-> at, cur |-> p.cur,
              s |-> p.s, error |-> error]
  BY <1>2, <1>3
<1>5. q = [text |-> p.text, account |-> p.account, pos |-> p.pos, level |-> p.level, open |-> p.open,
           isOpen |-> isOpen, more |-> more, processed |-> processed, at |-> at, cur |-> p.cur,
           s |-> p.s, error |-> error]
  <2>1. CASE Kind("content")
    <3>1. q = back /\ isOpen = p.isOpen /\ more = p.more /\ processed = p.processed
      BY <2>1 DEF BackWith, back
    <3> HIDE DEF q, isOpen, more, processed
    <3> QED  BY <1>4, <3>1
  <2>2. CASE ~Kind("content")
    <3>1. q = [back EXCEPT !.isOpen = isOpen, !.more = more, !.processed = processed]
      BY <2>2 DEF BackWith, back
    <3> HIDE DEF q, isOpen, more, processed
    <3> QED  BY <1>4, <3>1
  <2> QED  BY <2>1, <2>2
<1> HIDE DEF q, isOpen, more, processed
<1>6. q \in Parser
  BY <1>1, <1>5 DEF Parser
<1>7. /\ q.text = p.text /\ q.pos = p.pos /\ q.open = p.open /\ q.level = p.level /\ q.cur = p.cur /\ q.s = p.s
      /\ q.isOpen = isOpen /\ q.more = more /\ q.processed = processed /\ q.at = at /\ q.error = error
      /\ q.account = p.account
  BY <1>5
<1> QED  BY <1>6, <1>7 DEF IsBack, q, at, error, isOpen, more, processed

(* The parser of an external entity ends, and the flags are as they were.  *)
LEMMA ExternalEndsStep ==
  ASSUME EntityInv, ExternalEnds
  PROVE  EntityInv'
<1> DEFINE n == Len(parsers)
           k == n - 1
           p == parsers[k]
           e == Waits(parsers, k)
           q == BackWith(p, e)
           qs == [Front(parsers) EXCEPT ![k] = q]
<1>1. /\ self.at = "done" /\ ~IsRoot /\ parsers' = qs /\ depth' = IF Kind("value") THEN depth - 1 ELSE depth
      /\ UNCHANGED <<doc, status, direct, indirect, cause>>
  BY DEF ExternalEnds, Waits, BackWith, BackAt
<1>2. /\ IsDocument(doc) /\ Chain(parsers) /\ Counted /\ Results /\ ErrorsEnd /\ self \in Parser /\ Marks(self)
      /\ ReadsHead(self) /\ (Kind("value") => self.open = <<>>)
  BY <1>1, Now
<1>3. /\ self.isOpen = Before(parsers, n) \cup Listed(self)
      /\ n \in Nat /\ n > 1 /\ self = parsers[n] /\ DOMAIN parsers = 1..n /\ Place(parsers, n)
  BY <1>1, <1>2, Top
<1>4. /\ k \in Nat /\ k > 0 /\ k \in 1..n /\ k # n /\ k < n /\ k + 1 = n /\ n # 1 /\ (k # 1 <=> k > 1)
      /\ n - 1 = k /\ n \in 1..n
  <2> HIDE DEF n
  <2> QED  BY <1>3
<1>5. parsers \in Seq(Parser) /\ Len(parsers) = n /\ Place(parsers, k)
  BY <1>2, <1>3, <1>4 DEF Chain
<1> HIDE DEF n, k
<1>6. Before(parsers, n) = p.isOpen \cup {e} /\ Link(parsers, n)
  BY <1>3, <1>4 DEF Before, Place
<1>7. /\ ~Kind("attribute") /\ p.at = "external" /\ e \in Entities /\ e \notin p.isOpen
  BY <1>3, <1>4, <1>6 DEF Link
<1>8. /\ p \in Parser /\ Marks(p) /\ OpenOnce(p) /\ ReadsHead(p) /\ LevelsNest(p, Lowest(k)) /\ Link(parsers, k)
      /\ p.isOpen = Before(parsers, k) \cup Listed(p) /\ Before(parsers, k) \cap Listed(p) = {}
  BY <1>5 DEF Place, ParserOK
<1>9. IsBack(p, e, q)
  BY <1>2, <1>8, BackIs
<1> HIDE DEF q, e
<1>10. q \in Parser /\ q.text = p.text /\ q.pos = p.pos /\ q.open = p.open /\ q.level = p.level /\ q.cur = p.cur
       /\ q.s = p.s
  BY <1>9 DEF IsBack
<1>11. q.isOpen = p.isOpen
  <2>1. CASE Kind("content")
    BY <1>9, <2>1 DEF IsBack
  <2>2. CASE ~Kind("content")
    <3>1. Kind("value")
      BY <1>2, <1>7, <2>2 DEF IsDocument, Kind
    <3>2. Listed(self) = {}
      BY <1>2, <3>1 DEF Listed
    <3>3. self.isOpen = p.isOpen \cup {e}
      BY <1>3, <1>6, <3>2
    <3> QED  BY <1>7, <1>9, <2>2, <3>3 DEF IsBack
  <2> QED  BY <2>1, <2>2
<1>12. ParserOK(q, Lowest(k)) /\ Listed(q) = Listed(p)
  <2>1. Text(q) = Text(p) /\ Marks(q)
    <3>1. Text(q) = Text(p)
      BY <1>10 DEF Text
    <3>2. q.processed = p.processed \/ q.processed = self.processed
      BY <1>9 DEF IsBack
    <3> QED  BY <1>2, <1>8, <1>10, <3>1, <3>2 DEF Marks
  <2>2. ReadsHead(q)
    <3>1. q.at = "back" \/ (q.at = "done" /\ q.error # "NONE")
      BY <1>9 DEF IsBack
    <3> QED  BY <1>7, <1>8, <1>10, <2>1, <3>1 DEF ReadsHead
  <2> QED  BY <1>8, <1>10, <2>1, <2>2 DEF ParserOK, OpenOnce, LevelsNest, Listed
<1>13. qs \in Seq(Parser) /\ Len(qs) = k /\ qs[k] = q /\ \A m \in 1..k : m # k => qs[m] = parsers[m]
  <2> DEFINE front == Front(parsers)
  <2>1. front \in Seq(Parser) /\ Len(front) = k /\ \A m \in 1..k : front[m] = parsers[m]
    <3>1. front = SubSeq(parsers, 1, k)
      BY <1>4, <1>5 DEF Front
    <3> HIDE DEF front, p
    <3> QED  BY <1>3, <1>4, <1>5, <3>1
  <2>2. qs = [front EXCEPT ![k] = q]
    OBVIOUS
  <2> HIDE DEF front, qs
  <2> QED  BY <1>4, <1>10, <2>1, <2>2
<1> HIDE DEF qs
<1>14. Place(qs, k)
  <2>1. k > 1 => qs[k - 1] = parsers[k - 1]
    <3>1. k > 1 => k - 1 \in 1..k /\ k - 1 # k
      BY <1>4
    <3> QED  BY <1>13, <3>1
  <2>2. k # 1 <=> k > 1
    BY <1>4
  <2>3. Before(qs, k) = Before(parsers, k)
    BY <2>1, <2>2 DEF Before, Waits
  <2>4. Link(qs, k)
    BY <1>8, <1>10, <1>13, <2>1, <2>2 DEF Link, Waits
  <2> QED  BY <1>8, <1>11, <1>12, <1>13, <2>3, <2>4 DEF Place
<1>15. Chain(qs)
  <2> DEFINE j == k - 1
  <2>1. j \in Nat /\ j + 1 = k /\ j <= Len(parsers) /\ \A m \in 1..j : m \in 1..k /\ m # k
    BY <1>4, <1>5
  <2>2. Len(qs) = j + 1 /\ Place(qs, j + 1) /\ \A m \in 1..j : qs[m] = parsers[m]
    BY <1>13, <1>14, <2>1
  <2> HIDE DEF j
  <2> QED  BY <1>2, <1>13, <2>1, <2>2, Extend
<1>16. Chain(parsers)' /\ IsDocument(doc)'
  BY <1>1, <1>2, <1>15, ChainAfter DEF IsDocument
<1>17. self' = q /\ Len(parsers') = k
  BY <1>1, <1>13 DEF self, Last
<1>18. q.at # "external"
  BY <1>9 DEF IsBack
<1>19. depth \in Int /\ Counters'
  BY <1>1, <1>2 DEF Results, Counters
<1>20. cause = "NONE" => self.error = "NONE" /\ self.open = <<>>
  <2>1. cause = "NONE" => self.error = "NONE"
    BY <1>2, <1>3, <1>4 DEF ErrorsEnd
  <2> QED  BY <1>1, <1>2, <2>1 DEF ReadsHead
<1>21. IsFiniteSet(self.isOpen)
  BY <1>2 DEF Counted
<1>22. IsFiniteSet(q.isOpen)
  <2>1. p.isOpen \subseteq self.isOpen
    BY <1>3, <1>6
  <2> QED  BY <1>11, <1>21, <2>1, FS_Subset
<1>23. Counted'
  <2>1. ASSUME cause = "NONE"
        PROVE  Cardinality(q.isOpen) = depth' + IF Kind("value") THEN 0 ELSE k - 1
    <3>1. Listed(self) = {}
      BY <1>20, <2>1 DEF Listed
    <3>2. self.isOpen = q.isOpen \cup {e} /\ e \notin q.isOpen
      BY <1>3, <1>6, <1>7, <1>11, <3>1
    <3>3. Cardinality(self.isOpen) = Cardinality(q.isOpen) + 1
      BY <1>22, <3>2, FS_AddElement
    <3>4. Cardinality(q.isOpen) \in Nat
      BY <1>22, FS_CardinalityType
    <3>5. Cardinality(self.isOpen) = depth + IF Kind("value") THEN 0 ELSE n - 1
      BY <1>2, <1>5, <2>1 DEF Counted
    <3>6. k + 1 = n /\ k \in Nat /\ n - 1 = k
      BY <1>4
    <3> QED  BY <1>1, <1>19, <3>3, <3>4, <3>5, <3>6
  <2>2. (Kind("value")' <=> Kind("value")) /\ cause' = cause
    BY <1>1 DEF Kind
  <2> QED  BY <1>17, <1>22, <2>1, <2>2 DEF Counted
<1>24. ErrorsEnd'
  <2>1. cause # "NONE" => q.at = "done" /\ q.error # "NONE"
    BY <1>2, <1>9 DEF ErrorsEnd, IsBack
  <2>2. q.error # "NONE" => cause # "NONE"
    <3>1. p.error # "NONE" => cause # "NONE"
      BY <1>2, <1>3, <1>4 DEF ErrorsEnd
    <3>2. self.error # "NONE" => cause # "NONE"
      <4>1. n \in DOMAIN parsers
        BY <1>3
      <4> QED  BY <1>2, <1>3, <4>1 DEF ErrorsEnd
    <3> QED  BY <1>9, <3>1, <3>2 DEF IsBack
  <2>3. DOMAIN parsers' = 1..k /\ \A m \in 1..k : m \in 1..n
    BY <1>1, <1>3, <1>4, <1>13
  <2>4. \A m \in 1..k : qs[m].error # "NONE" => cause # "NONE"
    <3> TAKE m \in 1..k
    <3>1. CASE m = k
      BY <1>13, <2>2, <3>1
    <3>2. CASE m # k
      <4>1. qs[m] = parsers[m] /\ m \in DOMAIN parsers
        BY <1>3, <1>13, <2>3, <3>2
      <4> QED  BY <1>2, <4>1 DEF ErrorsEnd
    <3> QED  BY <3>1, <3>2
  <2> QED  BY <1>1, <1>17, <2>1, <2>3, <2>4 DEF ErrorsEnd
<1>25. Together'
  BY <1>1, <1>2, <1>16, <1>17, <1>18, <1>19, <1>23, <1>24 DEF Together, Results
<1> QED  BY <1>25, Parts, PTL

-----------------------------------------------------------------------------
(* A step that changes nothing.                                            *)
LEMMA EntityStutters ==
  ASSUME EntityInv, UNCHANGED vars
  PROVE  EntityInv'
<1>1. /\ doc' = doc /\ parsers' = parsers /\ status' = status /\ direct' = direct /\ indirect' = indirect
      /\ depth' = depth /\ cause' = cause
  BY DEF vars
<1>2. IsDocument(doc) /\ Chain(parsers) /\ self.at # "external" /\ Counted /\ Results /\ ErrorsEnd
  BY Parts DEF Together
<1>3. self' = self
  BY <1>1 DEF self
<1> HIDE DEF vars
<1>4. Chain(parsers)' /\ IsDocument(doc)'
  BY <1>1, <1>2, ChainAfter DEF IsDocument
<1>5. Counted' /\ Results' /\ ErrorsEnd'
  BY <1>1, <1>2, <1>3 DEF Counted, Kind, Results, Counters, ErrorsEnd
<1>6. Together'
  BY <1>2, <1>3, <1>4, <1>5 DEF Together
<1> QED  BY <1>6, Parts, PTL

(* The parser that is made first.                                          *)
LEMMA EntityStarts ==
  ASSUME Init
  PROVE  EntityInv
<1> DEFINE p == Fresh(doc.text, doc.account, 1)
           none == [f \in Entities |-> 0]
<1>1. /\ doc \in Documents /\ parsers = <<p>> /\ status = "PARSING" /\ direct = doc.before /\ indirect = 0
      /\ depth = 0 /\ cause = "NONE"
  BY DEF Init
<1>2. IsDocument(doc)
  BY <1>1, EntityAssumption DEF EntityAssumption
<1>3. p = [text |-> doc.text, account |-> doc.account, pos |-> 0, level |-> 1, open |-> <<>>, isOpen |-> {},
           more |-> {}, processed |-> none, at |-> "turn", cur |-> Null, s |-> 0, error |-> "NONE"]
  BY DEF Fresh
<1>4. none \in [Entities -> Nat]
  OBVIOUS
<1> HIDE DEF p, none
<1>5. p \in Parser
  <2>1. "NONE" \in Errors /\ <<>> \in Seq(OpenedEntity)
    BY DEF Errors
  <2> QED  BY <1>2, <1>3, <1>4, <2>1 DEF Parser, IsDocument
<1>6. /\ p.text = doc.text /\ p.pos = 0 /\ p.level = 1 /\ p.open = <<>> /\ p.isOpen = {} /\ p.processed = none
      /\ p.at = "turn" /\ p.cur = Null /\ p.s = 0 /\ p.error = "NONE"
  BY <1>3
<1>7. Marks(p)
  <2>1. Text(p) = doc.text /\ Len(doc.text) \in Nat /\ \A f \in Entities : Len(doc.decl[f].text) \in Nat
    BY <1>2, <1>6 DEF Text, IsDocument
  <2> QED  BY <1>6, <2>1 DEF Marks, none
<1>8. OpenOnce(p) /\ ReadsHead(p) /\ LevelsNest(p, Lowest(1)) /\ Listed(p) = {}
  BY <1>6 DEF OpenOnce, ReadsHead, LevelsNest, Listed, Lowest
<1>9. /\ parsers \in Seq(Parser) /\ Len(parsers) = 1 /\ parsers[1] = p /\ DOMAIN parsers = {1} /\ self = p
  BY <1>1, <1>5 DEF self, Last
<1>10. Place(parsers, 1)
  <2>1. ParserOK(p, Lowest(1))
    BY <1>5, <1>7, <1>8 DEF ParserOK
  <2>2. Link(parsers, 1) /\ Before(parsers, 1) = {}
    BY DEF Link, Before
  <2> QED  BY <1>6, <1>8, <1>9, <2>1, <2>2 DEF Place
<1>11. Chain(parsers)
  BY <1>9, <1>10 DEF Chain
<1>12. Counted
  <2>1. IsFiniteSet({}) /\ Cardinality({}) = 0
    BY FS_EmptySet
  <2>2. self.isOpen = {}
    BY <1>6, <1>9
  <2> QED  BY <1>1, <1>9, <2>1, <2>2 DEF Counted
<1>13. Results
  BY <1>1, <1>2 DEF Results, Counters, Errors, IsDocument
<1>14. ErrorsEnd
  BY <1>1, <1>6, <1>9 DEF ErrorsEnd
<1>15. Together
  BY <1>2, <1>6, <1>9, <1>11, <1>12, <1>13, <1>14 DEF Together
<1> QED  BY <1>15, Parts

(* EntityInv: between any two steps every parser reads what it should,     *)
(* its list of open entities, its tags and its marks are in order, and the *)
(* open flags tell exactly which entities are open.                        *)
THEOREM EntityInvHolds ==
  ASSUME NothingLost
  PROVE  Spec => []EntityInv
<1> DEFINE Inv == EntityInv /\ doc \in Documents
<1>1. Init => Inv
  BY EntityStarts DEF Init
<1>2. Inv /\ [Next]_vars => Inv'
  <2> SUFFICES ASSUME EntityInv, doc \in Documents, [Next]_vars PROVE Inv'
    OBVIOUS
  <2>1. doc' = doc
    <3>1. CASE Parsing
      BY <3>1 DEF Parsing, ReadOwn, ReadEntity, CloseEntity, TextEnds, NoToken, TooMuch, ContentToken, ValueToken,
        BadReference, Reference, SkipInContent, SkipInValue, OpenEntity, ReadExternal, ExternalEnds, AfterExternal
    <3>2. CASE Resume
      BY <3>2 DEF Resume
    <3>3. CASE UNCHANGED vars
      BY <3>3 DEF vars
    <3> QED  BY <3>1, <3>2, <3>3 DEF Next
  <2>2. CASE ReadOwn \/ ReadEntity \/ CloseEntity \/ TextEnds
    BY <2>1, <2>2, ReadOwnStep, ReadEntityStep, CloseEntityStep, TextEndsStep
  <2>3. CASE NoToken \/ TooMuch \/ ContentToken \/ ValueToken \/ BadReference
    BY <2>1, <2>3, RefusedStep, ContentTokenStep, ValueTokenStep
  <2>4. CASE \E e \in Entities : Reference(e)
    BY <2>1, <2>4, SkipInContentStep, SkipInValueStep, OpenEntityStep, ReadExternalStep DEF Reference
  <2>5. CASE ExternalEnds \/ AfterExternal \/ Resume
    BY <2>1, <2>5, ExternalEndsStep, AfterExternalStep, ResumeStep
  <2>6. CASE UNCHANGED vars
    BY <2>1, <2>6, EntityStutters
  <2> QED  BY <2>2, <2>3, <2>4, <2>5, <2>6 DEF Next, Parsing
<1>3. Inv => EntityInv
  OBVIOUS
<1> QED  BY <1>1, <1>2, <1>3, PTL DEF Spec

-----------------------------------------------------------------------------
(* Numbers.                                                                *)
(* A set of numbers has a least element.                                   *)
LEMMA Least ==
  ASSUME NEW T, T \in SUBSET Nat, T # {}
  PROVE  \E n \in T : \A m \in T : n <= m
<1> DEFINE R == OpToRel(<, Nat)
<1>1. IsWellFoundedOn(R, Nat)
  BY NatLessThanWellFounded
<1>2. \A x, y \in Nat : y < x => <<y, x>> \in R
  BY Zenon DEF OpToRel
<1> HIDE DEF R
<1>3. \E x \in T : \A y \in T : ~ (<<y, x>> \in R)
  BY <1>1, WFMin
<1>4. PICK x \in T : \A y \in T : ~ (<<y, x>> \in R)
  BY <1>3
<1>5. ASSUME NEW y \in T PROVE x <= y
  <2>1. x \in Nat /\ y \in Nat
    OBVIOUS
  <2>2. ~(y < x)
    BY <1>2, <1>4, <2>1
  <2> QED  BY <2>1, <2>2
<1> QED  BY <1>5

(* Induction, for a set.                                                   *)
LEMMA Induct ==
  ASSUME NEW S, 0 \in S, \A n \in Nat : n \in S => n + 1 \in S
  PROVE  Nat \subseteq S
<1> SUFFICES ASSUME ~ (Nat \subseteq S) PROVE FALSE
  OBVIOUS
<1> DEFINE T == Nat \ S
<1>1. T \in SUBSET Nat /\ T # {}
  OBVIOUS
<1>2. PICK n \in T : \A m \in T : n <= m
  BY <1>1, Least
<1>3. n # 0 /\ n - 1 \in Nat
  BY <1>2
<1>4. n - 1 \in S
  BY <1>2, <1>3
<1> QED  BY <1>2, <1>3, <1>4

-----------------------------------------------------------------------------
(* The bytes of a text, token by token.                                    *)
Tally(g, text, i) == IF i = 0 THEN 0 ELSE g[i - 1] + Width(text[i])
IsTally(g, text, n) == g = [i \in 0..n |-> Tally(g, text, i)]
Sums(text) == CHOOSE g : IsTally(g, text, Len(text))

(* There is such a function.                                               *)
LEMMA TallyExists ==
  ASSUME NEW text, NEW n \in Nat
  PROVE  \E g : IsTally(g, text, n)
<1> DEFINE T == {k \in Nat : \E g : IsTally(g, text, k)}
<1>1. 0 \in T
  <2> DEFINE z == 0
             g == [i \in 0..z |-> z]
  <2>1. \A i \in 0..z : i = 0
    OBVIOUS
  <2>2. \A i \in 0..z : Tally(g, text, i) = z
    BY <2>1 DEF Tally
  <2>3. g = [i \in 0..z |-> Tally(g, text, i)]
    BY <2>2
  <2>4. IsTally(g, text, z)
    BY <2>3 DEF IsTally
  <2> HIDE DEF g
  <2>5. z \in Nat
    OBVIOUS
  <2> QED  BY <2>4, <2>5
<1>2. ASSUME NEW k \in Nat, k \in T PROVE k + 1 \in T
  <2>1. PICK g : IsTally(g, text, k)
    BY <1>2
  <2> DEFINE last == g[k] + Width(text[k + 1])
             G == [i \in 0 .. k + 1 |-> IF i = k + 1 THEN last ELSE g[i]]
  <2>2. /\ DOMAIN G = 0 .. k + 1 /\ G[k + 1] = last
        /\ \A i \in 0..k : G[i] = g[i]
    OBVIOUS
  <2>3. (k + 1) - 1 = k /\ k + 1 # 0 /\ k \in 0..k
    OBVIOUS
  <2>4. \A i \in 0 .. k + 1 : i # k + 1 => i \in 0..k /\ (i # 0 => i - 1 \in 0..k)
    OBVIOUS
  <2>5. \A i \in 0..k : g[i] = Tally(g, text, i)
    BY <2>1 DEF IsTally
  <2> HIDE DEF last
  <2>6. G[k + 1] = Tally(G, text, k + 1)
    <3>1. G[k] = g[k]
      BY <2>2, <2>3
    <3>2. Tally(G, text, k + 1) = G[k] + Width(text[k + 1])
      BY <2>3 DEF Tally
    <3> QED  BY <2>2, <3>1, <3>2 DEF last
  <2>7. ASSUME NEW i \in 0 .. k + 1, i # k + 1 PROVE G[i] = Tally(G, text, i)
    <3>1. G[i] = g[i] /\ g[i] = Tally(g, text, i)
      BY <2>2, <2>4, <2>5, <2>7
    <3>2. CASE i = 0
      BY <3>1, <3>2 DEF Tally
    <3>3. CASE i # 0
      <4>1. G[i - 1] = g[i - 1]
        BY <2>2, <2>4, <2>7, <3>3
      <4> HIDE DEF G
      <4> QED  BY <3>1, <3>3, <4>1 DEF Tally
    <3> QED  BY <3>2, <3>3
  <2>8. \A i \in 0 .. k + 1 : G[i] = Tally(G, text, i)
    BY <2>6, <2>7
  <2>9. G = [i \in 0 .. k + 1 |-> G[i]]
    OBVIOUS
  <2> HIDE DEF G
  <2>10. IsTally(G, text, k + 1)
    BY <2>8, <2>9 DEF IsTally
  <2> QED  BY <2>10
<1> HIDE DEF T
<1>3. Nat \subseteq T
  BY <1>1, <1>2, Induct
<1> QED  BY <1>3 DEF T

(* A text whose tokens have a width.                                       *)
Wide(text) == Len(text) \in Nat /\ \A i \in 1..Len(text) : Width(text[i]) \in Nat \ {0}

(* Texts of tokens are.                                                    *)
LEMMA ItemsWide ==
  ASSUME NEW text \in Seq(Items)
  PROVE  Wide(text)
<1>1. Len(text) \in Nat /\ \A i \in 1..Len(text) : text[i] \in Items
  OBVIOUS
<1> QED  BY <1>1, EntityAssumption DEF Wide, EntityAssumption

(* The sums grow by the width of each token.                               *)
Grows(g, text, n) ==
  /\ g[0] = 0 /\ \A i \in 0..n : g[i] \in Nat
  /\ \A i \in 1..n : g[i] = g[i - 1] + Width(text[i])

(* The sums of a text do.                                                  *)
LEMMA SumsGrow ==
  ASSUME NEW text, Wide(text)
  PROVE  Grows(Sums(text), text, Len(text)) /\ Bytes(text) = Sums(text)[Len(text)]
<1> DEFINE n == Len(text)
           g == Sums(text)
<1>1. n \in Nat /\ \A i \in 1..n : Width(text[i]) \in Nat \ {0}
  BY DEF Wide
<1>2. IsTally(g, text, n)
  <2>1. \E f : IsTally(f, text, n)
    BY <1>1, TallyExists
  <2> QED  BY <2>1 DEF Sums
<1>3. Bytes(text) = g[n]
  BY DEF Bytes, Sums, IsTally, Tally
<1> HIDE DEF n, g
<1>4. \A i \in 0..n : g[i] = Tally(g, text, i)
  BY <1>2 DEF IsTally
<1>5. g[0] = 0
  <2>1. 0 \in 0..n
    BY <1>1
  <2> QED  BY <1>4, <2>1 DEF Tally
<1>6. \A i \in 1..n : g[i] = g[i - 1] + Width(text[i])
  <2>1. \A i \in 1..n : i \in 0..n /\ i # 0
    BY <1>1
  <2> QED  BY <1>4, <2>1 DEF Tally
<1>7. \A i \in 0..n : g[i] \in Nat
  <2> DEFINE T == {k \in Nat : k <= n => g[k] \in Nat}
  <2>1. 0 \in T
    BY <1>5
  <2>2. ASSUME NEW k \in Nat, k \in T PROVE k + 1 \in T
    <3> SUFFICES ASSUME k + 1 <= n PROVE g[k + 1] \in Nat
      OBVIOUS
    <3>1. k + 1 \in 1..n /\ (k + 1) - 1 = k /\ k <= n
      BY <1>1
    <3>2. g[k + 1] = g[k] + Width(text[k + 1])
      BY <1>6, <3>1
    <3> QED  BY <1>1, <2>2, <3>1, <3>2
  <2> HIDE DEF T
  <2>3. Nat \subseteq T
    BY <2>1, <2>2, Induct
  <2>4. ASSUME NEW i \in 0..n PROVE g[i] \in Nat
    <3>1. i \in Nat /\ i <= n
      BY <1>1
    <3> QED  BY <2>3, <3>1 DEF T
  <2> QED  BY <2>4
<1> QED  BY <1>3, <1>5, <1>6, <1>7 DEF Grows, n, g

(* Two that grow alike are alike.                                          *)
LEMMA GrowAlike ==
  ASSUME NEW g, NEW f, NEW t, NEW u, NEW n \in Nat, NEW m \in Nat, Grows(g, t, n), Grows(f, u, m), n <= m,
         \A i \in 1..n : t[i] = u[i]
  PROVE  \A i \in 0..n : g[i] = f[i]
<1> DEFINE T == {k \in Nat : k <= n => g[k] = f[k]}
<1>1. 0 \in T
  BY DEF Grows
<1>2. ASSUME NEW k \in Nat, k \in T PROVE k + 1 \in T
  <2> SUFFICES ASSUME k + 1 <= n PROVE g[k + 1] = f[k + 1]
    OBVIOUS
  <2>1. k + 1 \in 1..n /\ k + 1 \in 1..m /\ (k + 1) - 1 = k /\ k <= n
    OBVIOUS
  <2>2. g[k + 1] = g[k] + Width(t[k + 1]) /\ f[k + 1] = f[k] + Width(u[k + 1])
    BY <2>1 DEF Grows
  <2> QED  BY <1>2, <2>1, <2>2
<1> HIDE DEF T
<1>3. Nat \subseteq T
  BY <1>1, <1>2, Induct
<1>4. ASSUME NEW i \in 0..n PROVE g[i] = f[i]
  <2>1. i \in Nat /\ i <= n
    OBVIOUS
  <2> QED  BY <1>3, <2>1 DEF T
<1> QED  BY <1>4

(* Later sums are greater.                                                 *)
LEMMA SumsBelow ==
  ASSUME NEW text, Wide(text), NEW k \in 0..Len(text)
  PROVE  /\ Sums(text)[k] \in Nat /\ Sums(text)[k] <= Bytes(text) /\ Bytes(text) \in Nat
         /\ k # 0 => Sums(text)[k] # 0
<1> DEFINE n == Len(text)
           g == Sums(text)
<1>1. n \in Nat /\ \A i \in 1..n : Width(text[i]) \in Nat \ {0}
  BY DEF Wide
<1>2. Grows(g, text, n) /\ Bytes(text) = g[n]
  BY SumsGrow
<1>3. k \in Nat /\ k <= n
  BY <1>1
<1> HIDE DEF n, g
<1> DEFINE T == {d \in Nat : k + d <= n => g[k] <= g[k + d]}
<1>4. 0 \in T
  <2>1. k + 0 = k /\ k \in 0..n
    BY <1>1, <1>3
  <2>2. g[k] \in Nat
    BY <1>2, <2>1 DEF Grows
  <2> QED  BY <2>1, <2>2
<1>5. ASSUME NEW d \in Nat, d \in T PROVE d + 1 \in T
  <2> DEFINE j == k + d
  <2>1. k + (d + 1) = j + 1 /\ j \in Nat
    BY <1>3
  <2> SUFFICES ASSUME j + 1 <= n PROVE g[k] <= g[j + 1]
    BY <2>1
  <2>2. j + 1 \in 1..n /\ (j + 1) - 1 = j /\ j <= n /\ j \in 0..n /\ k \in 0..n
    BY <1>1, <1>3, <2>1
  <2>3. g[k] <= g[j]
    BY <1>5, <2>2
  <2> HIDE DEF j
  <2>4. g[j + 1] = g[j] + Width(text[j + 1]) /\ g[j] \in Nat /\ g[k] \in Nat
    BY <1>2, <2>2 DEF Grows
  <2> QED  BY <1>1, <2>2, <2>3, <2>4
<1> HIDE DEF T
<1>6. Nat \subseteq T
  BY <1>4, <1>5, Induct
<1>7. g[k] <= g[n]
  <2>1. n - k \in Nat /\ k + (n - k) = n /\ n <= n
    BY <1>1, <1>3
  <2>2. n - k \in T
    BY <1>6, <2>1
  <2> QED  BY <2>1, <2>2 DEF T
<1>8. k \in 0..n /\ n \in 0..n
  BY <1>1, <1>3
<1>9. g[k] \in Nat /\ g[n] \in Nat
  BY <1>2, <1>8 DEF Grows
<1>10. k # 0 => g[k] # 0
  <2> SUFFICES ASSUME k # 0 PROVE g[k] # 0
    OBVIOUS
  <2>1. k \in 1..n /\ k - 1 \in 0..n
    BY <1>1, <1>3
  <2>2. g[k] = g[k - 1] + Width(text[k]) /\ g[k - 1] \in Nat
    BY <1>2, <2>1 DEF Grows
  <2> QED  BY <1>1, <2>1, <2>2
<1> QED  BY <1>2, <1>7, <1>9, <1>10 DEF g

(* A text that a token is put at the end of, or taken from it.             *)
LEMMA BytesAppend ==
  ASSUME NEW text \in Seq(Items), NEW item \in Items
  PROVE  Bytes(Append(text, item)) = Bytes(text) + Width(item) /\ Bytes(text) \in Nat /\ Width(item) \in Nat \ {0}
<1> DEFINE u == Append(text, item)
           n == Len(text)
           m == n + 1
<1>1. u \in Seq(Items) /\ n \in Nat /\ m \in Nat /\ Len(u) = m /\ u[m] = item /\ \A i \in 1..n : text[i] = u[i]
  OBVIOUS
<1> HIDE DEF u
<1>2. Wide(text) /\ Wide(u)
  BY <1>1, ItemsWide
<1>3. Grows(Sums(text), text, n) /\ Bytes(text) = Sums(text)[n]
  BY <1>2, SumsGrow
<1>4. Grows(Sums(u), u, m) /\ Bytes(u) = Sums(u)[m]
  <2>1. Grows(Sums(u), u, Len(u)) /\ Bytes(u) = Sums(u)[Len(u)]
    BY <1>2, SumsGrow
  <2> QED  BY <1>1, <2>1
<1> HIDE DEF n
<1>5. n <= m /\ m \in 1..m /\ m - 1 = n /\ n \in 0..n
  BY <1>1
<1> HIDE DEF m
<1>6. Sums(text)[n] = Sums(u)[n]
  BY <1>1, <1>3, <1>4, <1>5, GrowAlike
<1>7. Sums(u)[m] = Sums(u)[n] + Width(item)
  BY <1>1, <1>4, <1>5 DEF Grows
<1>8. Sums(text)[n] \in Nat
  BY <1>3, <1>5 DEF Grows
<1>9. Width(item) \in Nat \ {0}
  BY EntityAssumption DEF EntityAssumption
<1> QED  BY <1>3, <1>4, <1>6, <1>7, <1>8, <1>9 DEF u

(* Without its last token it has no more of them.                          *)
LEMMA BytesFront ==
  ASSUME NEW text \in Seq(Items), text # <<>>
  PROVE  Front(text) \in Seq(Items) /\ Bytes(Front(text)) <= Bytes(text)
<1> DEFINE f == Front(text)
           n == Len(text)
<1>1. n \in Nat /\ n > 0 /\ n - 1 \in Nat /\ \A i \in 1..n : text[i] \in Items
  OBVIOUS
<1>2. f = SubSeq(text, 1, n - 1)
  BY DEF Front
<1> HIDE DEF f
<1>3. f \in Seq(Items) /\ Len(f) = n - 1 /\ \A i \in 1 .. n - 1 : f[i] = text[i]
  <2> DEFINE m == n - 1
  <2>1. f = SubSeq(text, 1, m) /\ m \in Nat /\ m <= Len(text)
    BY <1>1, <1>2
  <2> HIDE DEF m, n
  <2>2. f \in Seq(Items) /\ Len(f) = m /\ \A i \in 1..m : f[i] = text[i]
    BY <2>1
  <2> QED  BY <2>2 DEF m
<1>4. text = Append(f, text[n])
  <2> DEFINE x == text[n]
  <2>1. x \in Items
    BY <1>1
  <2>2. \A i \in 1..n : i # n => i \in 1 .. n - 1
    BY <1>1
  <2> HIDE DEF x
  <2>3. Len(Append(f, x)) = n /\ Append(f, x) \in Seq(Items) /\ Append(f, x)[n] = x
        /\ \A i \in 1 .. n - 1 : Append(f, x)[i] = f[i]
    BY <1>1, <1>3, <2>1
  <2>4. \A i \in 1..n : Append(f, x)[i] = text[i]
    BY <1>3, <2>2, <2>3 DEF x
  <2> QED  BY <2>3, <2>4 DEF x
<1>5. text[n] \in Items
  BY <1>1
<1> DEFINE y == text[n]
<1> HIDE DEF y
<1>6. Bytes(Append(f, y)) = Bytes(f) + Width(y) /\ Bytes(f) \in Nat /\ Width(y) \in Nat
  BY <1>3, <1>5, BytesAppend DEF y
<1>7. Bytes(text) = Bytes(f) + Width(y)
  BY <1>4, <1>6 DEF y
<1> QED  BY <1>3, <1>6, <1>7 DEF f

(* The empty text has none.                                                *)
LEMMA NoBytes == Bytes(<<>>) = 0
<1>1. <<>> \in Seq(Items) /\ Len(<<>>) = 0
  OBVIOUS
<1>2. Wide(<<>>)
  BY <1>1, ItemsWide
<1>3. Grows(Sums(<<>>), <<>>, Len(<<>>)) /\ Bytes(<<>>) = Sums(<<>>)[Len(<<>>)]
  BY <1>2, SumsGrow
<1> QED  BY <1>1, <1>3 DEF Grows

-----------------------------------------------------------------------------
(* What a document has got out, what its own text still gives without      *)
(* being counted, and what is left to be counted of that text.             *)
IsOwn == doc.account = "direct"
Own == doc.before + IF doc.account = "direct" THEN Bytes(doc.text) ELSE 0
Size == IF Kind("value") THEN Bytes(output) ELSE Len(output)
Passed(p) == IF p.cur = Null /\ p.at = "text" THEN p.s ELSE IF p.cur = Null /\ p.at \in {"external", "back"} THEN p.s + 1 ELSE p.pos
Rest(k) == IF IsOwn THEN 0 ELSE Bytes(doc.text) - Sums(doc.text)[k]
Within(n, own) == n < Threshold \/ n <= Factor * (IF own = 0 THEN ShortestInclude ELSE own)
Alone == Len(parsers) = 1 /\ parsers[1].open = <<>>
Live == cause = "NONE" /\ parsers[1].at # "done"

Written == output \in Seq(Items \cup {"skipped"}) /\ (Kind("value") => output \in Seq(Items))
Accounts ==
  /\ parsers[1].text = doc.text /\ parsers[1].account = doc.account
  /\ \A n \in DOMAIN parsers : n > 1 => parsers[n].account # "none"
Balance(k) ==
  /\ direct = doc.before + IF IsOwn THEN Sums(doc.text)[k] ELSE 0
  /\ IsOwn /\ k = 0 => Alone
  /\ Size + Rest(k) <= direct + indirect
  /\ Within(Size + Rest(k), Own)
Accounted == doc.account = "none" => Bytes(doc.text) <= doc.before

(* While the document is read, the output and what may still be added to   *)
(* it uncounted is within what has been counted, and within the limit.     *)
AmpInv == Written /\ Accounts /\ Accounted /\ Within(Size, Own) /\ (Live => Balance(Passed(parsers[1])))

(* The limit is a multiple of what has been counted.                       *)
LEMMA Multiples ==
  ASSUME NEW a \in Nat, NEW b \in Nat, a <= b
  PROVE  Factor * a <= Factor * b /\ a <= Factor * a /\ Factor * a \in Nat
<1>1. Factor \in Nat /\ Factor >= 1
  BY EntityAssumption DEF EntityAssumption
<1>2. Factor * a \in Nat /\ Factor * b \in Nat
  BY <1>1
<1>3. PICK c \in Nat : b = a + c
  <2>1. b - a \in Nat /\ b = a + (b - a)
    OBVIOUS
  <2> QED  BY <2>1
<1>4. Factor * b = Factor * a + Factor * c /\ Factor * c \in Nat
  BY <1>1, <1>3
<1>5. a <= Factor * a
  <2>1. PICK f \in Nat : Factor = f + 1
    <3>1. Factor - 1 \in Nat /\ Factor = (Factor - 1) + 1
      BY <1>1
    <3> QED  BY <3>1
  <2>2. (f + 1) * a = f * a + a /\ f * a \in Nat
    BY <2>1
  <2> QED  BY <2>1, <2>2
<1> QED  BY <1>2, <1>4, <1>5

(* Less is within the limit where more is.                                 *)
LEMMA WithinLess ==
  ASSUME NEW m \in Nat, NEW n \in Nat, m <= n, NEW own \in Nat, Within(n, own)
  PROVE  Within(m, own)
<1> DEFINE limit == Factor * (IF own = 0 THEN ShortestInclude ELSE own)
<1>1. limit \in Nat /\ Threshold \in Nat
  BY EntityAssumption DEF EntityAssumption, ShortestInclude
<1>2. n < Threshold \/ n <= limit
  BY DEF Within
<1> HIDE DEF limit
<1>3. m < Threshold \/ m <= limit
  BY <1>1, <1>2
<1> QED  BY <1>3 DEF Within, limit

(* What is within what has been counted and tolerated.                     *)
LEMMA WithinCounted ==
  ASSUME NEW d \in Nat, NEW i \in Nat, NEW own \in Nat, NEW n \in Nat, n <= d + i, d <= own, d = 0 => own = 0,
         d + i < Threshold \/ ~Amplified(d, i)
  PROVE  Within(n, own)
<1>1. Threshold \in Nat /\ Factor \in Nat
  BY EntityAssumption DEF EntityAssumption
<1>2. CASE d + i < Threshold
  BY <1>1, <1>2 DEF Within
<1>3. CASE ~Amplified(d, i) /\ d = 0
  <2>1. ShortestInclude + i <= Factor * ShortestInclude /\ own = 0 /\ n <= i
    <3>1. ~(ShortestInclude + i > Factor * ShortestInclude)
      BY <1>3 DEF Amplified
    <3>2. Factor * ShortestInclude \in Nat
      BY <1>1 DEF ShortestInclude
    <3> QED  BY <1>3, <3>1, <3>2 DEF ShortestInclude
  <2>2. n <= Factor * ShortestInclude
    <3> DEFINE limit == Factor * ShortestInclude
    <3>1. limit \in Nat
      BY <1>1 DEF ShortestInclude
    <3>2. 22 + i <= limit
      BY <2>1 DEF ShortestInclude
    <3> HIDE DEF limit
    <3>3. n <= limit
      BY <2>1, <3>1, <3>2
    <3> QED  BY <3>3 DEF limit
  <2> QED  BY <2>1, <2>2 DEF Within
<1>4. CASE ~Amplified(d, i) /\ d # 0
  <2>1. ~(d + i > Factor * d)
    BY <1>4 DEF Amplified
  <2>2. Factor * d <= Factor * own /\ Factor * d \in Nat /\ Factor * own \in Nat
    BY Multiples, <1>1
  <2> DEFINE a == Factor * d
             b == Factor * own
  <2> HIDE DEF a, b
  <2>3. ~(d + i > a) /\ a <= b /\ a \in Nat /\ b \in Nat
    BY <2>1, <2>2 DEF a, b
  <2>4. n <= b
    BY <2>3
  <2>5. own # 0
    BY <1>4
  <2> QED  BY <2>4, <2>5 DEF Within, b
<1> QED  BY <1>2, <1>3, <1>4

(* The document, the root parser and what has been written.                *)
LEMMA DocumentIs ==
  ASSUME IsDocument(doc)
  PROVE  /\ doc.text \in Seq(Items) /\ Wide(doc.text) /\ Len(doc.text) \in Nat /\ doc.before \in Nat
         /\ (IsOwn <=> doc.account # "none") /\ Bytes(doc.text) \in Nat /\ Own \in Nat
         /\ Own = doc.before + IF IsOwn THEN Bytes(doc.text) ELSE 0
<1>1. doc.text \in Seq(Items) /\ doc.before \in Nat /\ doc.account \in {"direct", "none"}
  BY DEF IsDocument
<1>2. Wide(doc.text) /\ Len(doc.text) \in Nat
  BY <1>1, ItemsWide
<1>3. Bytes(doc.text) \in Nat
  <2>1. Len(doc.text) \in 0..Len(doc.text)
    BY <1>2
  <2> QED  BY <1>2, <2>1, SumsBelow
<1> QED  BY <1>1, <1>2, <1>3 DEF IsOwn, Own

(* The root parser reads, or waits for another.                            *)
LEMMA RootIs ==
  ASSUME EntityInv
  PROVE  /\ Len(parsers) \in Nat /\ Len(parsers) > 0 /\ 1 \in DOMAIN parsers /\ DOMAIN parsers = 1..Len(parsers)
         /\ parsers[1] \in Parser /\ Marks(parsers[1]) /\ ReadsHead(parsers[1])
         /\ IsRoot => self = parsers[1]
         /\ ~IsRoot => parsers[1].at = "external"
<1> DEFINE n == Len(parsers)
<1>1. Chain(parsers)
  BY Now
<1>2. n \in Nat /\ n > 0 /\ DOMAIN parsers = 1..n /\ self = parsers[n] /\ (IsRoot <=> n = 1)
  BY <1>1, Top
<1> HIDE DEF n
<1>3. 1 \in DOMAIN parsers /\ (n # 1 => 2 \in DOMAIN parsers)
  BY <1>2
<1>4. Place(parsers, 1) /\ (n # 1 => Place(parsers, 2))
  BY <1>1, <1>3 DEF Chain
<1>5. n # 1 => parsers[1].at = "external"
  <2> DEFINE k == 2
  <2>1. k > 1 /\ k - 1 = 1 /\ (n # 1 => Place(parsers, k))
    BY <1>4
  <2> HIDE DEF k
  <2>2. n # 1 => parsers[k - 1].at = "external"
    BY <2>1 DEF Place, Link
  <2> QED  BY <2>1, <2>2
<1> QED  BY <1>2, <1>3, <1>4, <1>5 DEF Place, ParserOK, n

(* It has passed a part of its own text.                                   *)
LEMMA PassedIs ==
  ASSUME EntityInv, Accounts, NEW k, k = Passed(parsers[1])
  PROVE  /\ k \in Nat /\ k \in 0..Len(doc.text)
         /\ Sums(doc.text)[k] \in Nat /\ Sums(doc.text)[k] <= Bytes(doc.text) /\ (k # 0 => Sums(doc.text)[k] # 0)
         /\ Rest(k) \in Nat
<1> DEFINE p == parsers[1]
<1>1. p \in Parser /\ Marks(p) /\ ReadsHead(p)
  BY RootIs
<1>2. p.text = doc.text
  BY DEF Accounts
<1>3. IsDocument(doc)
  BY Now
<1> HIDE DEF p
<1>4. p.pos \in Nat /\ p.s \in Nat /\ p.pos <= Len(doc.text) /\ p.s <= Len(Text(p))
  BY <1>1, <1>2, Fields DEF Marks
<1>5. p.cur = Null => Text(p) = doc.text
  BY <1>2 DEF Text
<1>6. p.at \in {"external", "back"} => p.s < Len(Text(p))
  BY <1>1 DEF ReadsHead
<1>7. doc.text \in Seq(Items) /\ Wide(doc.text) /\ Len(doc.text) \in Nat /\ Bytes(doc.text) \in Nat
  BY <1>3, DocumentIs
<1>8. k \in Nat /\ k \in 0..Len(doc.text)
  BY <1>4, <1>5, <1>6, <1>7 DEF Passed, p
<1>9. /\ Sums(doc.text)[k] \in Nat /\ Sums(doc.text)[k] <= Bytes(doc.text)
      /\ (k # 0 => Sums(doc.text)[k] # 0)
  BY <1>7, <1>8, SumsBelow
<1>10. Rest(k) \in Nat
  BY <1>7, <1>9 DEF Rest
<1> QED  BY <1>8, <1>9, <1>10

(* What is out has a size.                                                 *)
LEMMA SizeIs == Written => Size \in Nat
<1> SUFFICES ASSUME Written PROVE Size \in Nat
  OBVIOUS
<1>1. CASE Kind("value")
  <2>1. output \in Seq(Items)
    BY <1>1 DEF Written
  <2>2. Wide(output) /\ Len(output) \in 0..Len(output)
    BY <2>1, ItemsWide
  <2> QED  BY <1>1, <2>2, SumsBelow DEF Size
<1>2. CASE ~Kind("value")
  BY <1>2 DEF Written, Size
<1> QED  BY <1>1, <1>2

(* A step that takes no token, or the last one.                            *)
Quiet ==
  /\ UNCHANGED doc /\ Written' /\ Size' <= Size /\ Accounts'
  /\ Live' => /\ Live /\ Passed(parsers[1])' = Passed(parsers[1]) /\ UNCHANGED <<direct, indirect>>
              /\ Alone => Alone'

(* Such a step keeps the balance.                                          *)
LEMMA QuietKeeps ==
  ASSUME EntityInv, AmpInv, Quiet
  PROVE  AmpInv'
<1>1. PICK k : k = Passed(parsers[1])
  OBVIOUS
<1>2. UNCHANGED doc /\ Written' /\ Size' <= Size /\ Accounts'
  BY DEF Quiet
<1>3. Written /\ Accounts /\ Accounted /\ Within(Size, Own) /\ (Live => Balance(k))
  BY <1>1 DEF AmpInv
<1>4. IsDocument(doc) /\ direct \in Nat /\ indirect \in Nat
  BY Now DEF Results, Counters
<1>5. Own \in Nat /\ Size \in Nat /\ Rest(k) \in Nat
  BY <1>1, <1>3, <1>4, SizeIs, DocumentIs, PassedIs
<1>6. (Size \in Nat)'
  <2>1. Written'
    BY <1>2
  <2> QED  BY <2>1, SizeIs, PTL
<1>7. Own' = Own /\ (IsOwn' <=> IsOwn) /\ (Accounted' <=> Accounted)
  BY <1>2 DEF Own, IsOwn, Accounted, Bytes
<1>8. Rest(k)' = Rest(k)
  BY <1>2, <1>7 DEF Rest, IsOwn, Bytes, Sums, IsTally, Tally
<1>9. Within(Size, Own)'
  <2>1. Within(Size', Own)
    BY <1>2, <1>3, <1>5, <1>6, WithinLess
  <2> QED  BY <1>7, <2>1 DEF Within
<1>10. ASSUME Live' PROVE Balance(Passed(parsers[1]))'
  <2>1. Live /\ Passed(parsers[1])' = k /\ (Alone => Alone') /\ UNCHANGED <<direct, indirect>>
    BY <1>1, <1>10 DEF Quiet
  <2>2. Balance(k)
    BY <1>3, <2>1
  <2> DEFINE r == Rest(k)
             a == Size
             b == Size'
  <2>3. r \in Nat /\ a \in Nat /\ b \in Nat /\ b <= a /\ a + r <= direct + indirect /\ Within(a + r, Own)
    BY <1>2, <1>5, <1>6, <2>2 DEF Balance
  <2> HIDE DEF r, a, b
  <2>4. a + r \in Nat /\ b + r \in Nat /\ b + r <= a + r /\ b + r <= direct + indirect
    BY <1>4, <2>3
  <2>5. Within(b + r, Own)
    BY <1>5, <2>3, <2>4, WithinLess
  <2>6. direct' = doc'.before + IF IsOwn' THEN Sums(doc'.text)[k] ELSE 0
    BY <1>2, <1>7, <2>1, <2>2 DEF Balance
  <2>7. IsOwn' /\ k = 0 => Alone'
    BY <1>7, <2>1, <2>2 DEF Balance
  <2>8. (Size + Rest(k))' = b + r
    BY <1>8 DEF b, r
  <2>9. (Size + Rest(k) <= direct + indirect)'
    BY <2>1, <2>4, <2>8
  <2>10. Within(Size + Rest(k), Own)'
    BY <1>7, <2>5, <2>8 DEF Within
  <2>11. Balance(k)'
    BY <2>6, <2>7, <2>9, <2>10 DEF Balance, Sums, IsTally, Tally
  <2> QED  BY <2>1, <2>11 DEF Balance, Rest
<1> QED  BY <1>2, <1>3, <1>7, <1>9, <1>10 DEF AmpInv

(* A step that takes a token: of the document's own text, or of another.   *)
TakesOwn == IsRoot /\ self.cur = Null
Step == IF TakesOwn THEN 1 ELSE 0
TakesOne(item) ==
  /\ Takes(item) /\ UNCHANGED doc /\ Written' /\ Accounts' /\ Size' <= Size + Width(item)
  /\ Live' => Passed(parsers[1])' = Passed(parsers[1]) + Step

(* What is counted with it.                                                *)
LEMMA CountedIs ==
  ASSUME EntityInv, Accounts, NEW item, Takes(item), NEW k, k = Passed(parsers[1])
  PROVE  /\ Live /\ Width(item) \in Nat \ {0} /\ item \in Items
         /\ CountedDirect(item) = direct + (IF TakesOwn /\ IsOwn THEN Width(item) ELSE 0)
         /\ CountedIndirect(item) = indirect + (IF TakesOwn THEN 0 ELSE Width(item))
         /\ Unaccounted <=> TakesOwn /\ ~IsOwn
         /\ TakesOwn => /\ k + 1 \in 0..Len(doc.text)
                        /\ Sums(doc.text)[k + 1] = Sums(doc.text)[k] + Width(item)
         /\ Alone => TakesOwn
<1>1. /\ Reading /\ item = Item /\ cause = "NONE" /\ self.at = "text" /\ self.s + 1 <= Len(Text(self))
      /\ self.s + 1 \in Nat
  BY Taken
<1>2. item \in Items
  BY <1>1, Token
<1>3. Width(item) \in Nat \ {0}
  BY <1>2, EntityAssumption DEF EntityAssumption
<1>4. /\ IsRoot => self = parsers[1]
      /\ ~IsRoot => parsers[1].at = "external"
      /\ Len(parsers) \in Nat /\ Len(parsers) > 0 /\ DOMAIN parsers = 1..Len(parsers)
  BY RootIs
<1>5. Live
  BY <1>1, <1>4 DEF Live
<1>6. IsDocument(doc) /\ self \in Parser /\ ReadsHead(self)
  BY Now
<1>7. IsRoot => self.account = doc.account /\ self.text = doc.text
  BY <1>4 DEF Accounts
<1>8. ~IsRoot => self.account # "none"
  <2>1. ~IsRoot => Len(parsers) > 1 /\ Len(parsers) \in DOMAIN parsers
    BY <1>4 DEF IsRoot
  <2>2. self = parsers[Len(parsers)]
    BY DEF self, Last
  <2> QED  BY <2>1, <2>2 DEF Accounts
<1>9. IsOwn <=> doc.account # "none"
  BY <1>6, DocumentIs
<1>10. IsDirect <=> TakesOwn /\ IsOwn
  BY <1>7 DEF IsDirect, TakesOwn, IsOwn
<1>11. Unaccounted <=> TakesOwn /\ ~IsOwn
  BY <1>7, <1>8, <1>9 DEF Unaccounted, TakesOwn
<1>12. /\ CountedDirect(item) = direct + (IF TakesOwn /\ IsOwn THEN Width(item) ELSE 0)
       /\ CountedIndirect(item) = indirect + (IF TakesOwn THEN 0 ELSE Width(item))
  BY <1>10, <1>11 DEF CountedDirect, CountedIndirect
<1>13. ASSUME TakesOwn
       PROVE  k + 1 \in 0..Len(doc.text) /\ Sums(doc.text)[k + 1] = Sums(doc.text)[k] + Width(item)
  <2>1. self = parsers[1] /\ self.cur = Null /\ Text(self) = doc.text
    BY <1>4, <1>7, <1>13 DEF TakesOwn, Text
  <2>2. k = self.s
    BY <1>1, <2>1 DEF Passed
  <2>3. k \in Nat /\ item = doc.text[k + 1] /\ k + 1 <= Len(doc.text)
    BY <1>1, <2>1, <2>2, PassedIs DEF Item
  <2>4. Wide(doc.text) /\ Len(doc.text) \in Nat
    BY <1>6, DocumentIs
  <2>5. Grows(Sums(doc.text), doc.text, Len(doc.text))
    BY <2>4, SumsGrow
  <2> DEFINE m == k + 1
  <2>6. m \in 1..Len(doc.text) /\ m - 1 = k /\ m \in 0..Len(doc.text) /\ item = doc.text[m]
    BY <2>3, <2>4
  <2> HIDE DEF m
  <2>7. Sums(doc.text)[m] = Sums(doc.text)[k] + Width(item)
    BY <2>5, <2>6 DEF Grows
  <2> QED  BY <2>6, <2>7 DEF m
<1>14. Alone => TakesOwn
  BY <1>1, <1>4, <1>6 DEF Alone, TakesOwn, IsRoot, ReadsHead
<1> QED  BY <1>2, <1>3, <1>5, <1>11, <1>12, <1>13, <1>14

(* Such a step keeps the balance: what is not counted has been before, and *)
(* what is counted is tolerated.                                           *)
LEMMA TakenKeeps ==
  ASSUME EntityInv, AmpInv, NEW item, TakesOne(item)
  PROVE  AmpInv'
<1>1. PICK k : k = Passed(parsers[1])
  OBVIOUS
<1>2. PICK w : w = Width(item)
  OBVIOUS
<1>3. /\ Takes(item) /\ UNCHANGED doc /\ Written' /\ Accounts' /\ Size' <= Size + w
      /\ Live' => Passed(parsers[1])' = k + Step
  BY <1>1, <1>2 DEF TakesOne
<1>4. Written /\ Accounts /\ Accounted /\ (Live => Balance(k))
  BY <1>1 DEF AmpInv
<1>5. /\ Live /\ w \in Nat \ {0} /\ item \in Items
      /\ CountedDirect(item) = direct + (IF TakesOwn /\ IsOwn THEN w ELSE 0)
      /\ CountedIndirect(item) = indirect + (IF TakesOwn THEN 0 ELSE w)
      /\ Unaccounted <=> TakesOwn /\ ~IsOwn
      /\ TakesOwn => k + 1 \in 0..Len(doc.text) /\ Sums(doc.text)[k + 1] = Sums(doc.text)[k] + w
      /\ Alone => TakesOwn
  BY <1>1, <1>2, <1>3, <1>4, CountedIs
<1>6. IsDocument(doc) /\ direct \in Nat /\ indirect \in Nat
  BY Now DEF Results, Counters
<1>7. /\ k \in Nat /\ Sums(doc.text)[k] \in Nat /\ Sums(doc.text)[k] <= Bytes(doc.text)
      /\ (k # 0 => Sums(doc.text)[k] # 0) /\ Rest(k) \in Nat
  BY <1>1, <1>4, PassedIs
<1>8. /\ Bytes(doc.text) \in Nat /\ doc.before \in Nat /\ Own \in Nat /\ Wide(doc.text)
      /\ Own = doc.before + IF IsOwn THEN Bytes(doc.text) ELSE 0
      /\ IsOwn <=> doc.account # "none"
  BY <1>6, DocumentIs
<1>9. Size \in Nat /\ (Size \in Nat)'
  <2>1. Written'
    BY <1>3
  <2> QED  BY <1>4, <2>1, SizeIs, PTL
<1>10. Own' = Own /\ (IsOwn' <=> IsOwn) /\ (Accounted' <=> Accounted)
  BY <1>3 DEF Own, IsOwn, Accounted, Bytes
<1>11. PICK j : j = k + Step
  OBVIOUS
<1>12. Rest(j)' = Rest(j)
  BY <1>3, <1>10 DEF Rest, IsOwn, Bytes, Sums, IsTally, Tally
<1>13. PICK d : d = CountedDirect(item)
  OBVIOUS
<1>14. PICK i : i = CountedIndirect(item)
  OBVIOUS
<1>15. direct' = d /\ (indirect' = i \/ indirect' = i + 1) /\ (Unaccounted \/ d + i < Threshold \/ ~Amplified(d, i))
  <2>1. direct' = CountedDirect(item) /\ Tolerated(item)
    BY <1>3 DEF Takes
  <2>2. \E n \in {0, 1} : indirect' = CountedIndirect(item) + n
    BY <1>3 DEF Takes
  <2>3. i \in Nat
    BY <1>5, <1>6, <1>14
  <2> QED  BY <1>13, <1>14, <2>1, <2>2, <2>3 DEF Tolerated
<1>16. PICK a : a = Size
  OBVIOUS
<1>17. PICK b : b = Size'
  OBVIOUS
<1>18. PICK r : r = Rest(k)
  OBVIOUS
<1>19. PICK t : t = Rest(j)
  OBVIOUS
<1>20. /\ a \in Nat /\ b \in Nat /\ r \in Nat /\ b <= a + w /\ a + r <= direct + indirect /\ Within(a + r, Own)
       /\ direct = doc.before + IF IsOwn THEN Sums(doc.text)[k] ELSE 0
       /\ IsOwn /\ k = 0 => Alone
  BY <1>3, <1>4, <1>5, <1>7, <1>9, <1>16, <1>17, <1>18 DEF Balance
<1>21. ~TakesOwn => k = j
  BY <1>7, <1>11 DEF Step
<1>22. TakesOwn => j = k + 1 /\ j # 0
  BY <1>7, <1>11 DEF Step
<1>23. /\ d \in Nat /\ i \in Nat /\ t \in Nat
       /\ d = doc.before + IF IsOwn THEN Sums(doc.text)[j] ELSE 0
       /\ d <= Own /\ (IsOwn /\ j = 0 => Alone) /\ b + t <= d + i
       /\ Unaccounted => b + t <= a + r
       /\ ~Unaccounted /\ d = 0 => Own = 0
  <2>1. CASE TakesOwn
    <3>1. Sums(doc.text)[j] = Sums(doc.text)[k] + w /\ j \in 0..Len(doc.text) /\ j # 0
      BY <1>5, <1>22, <2>1
    <3>2. Sums(doc.text)[j] <= Bytes(doc.text) /\ Sums(doc.text)[j] \in Nat
      BY <1>8, <3>1, SumsBelow
    <3> DEFINE x == Sums(doc.text)[k]
               y == Sums(doc.text)[j]
               c == Bytes(doc.text)
               f == doc.before
    <3>3. /\ y = x + w /\ y <= c /\ x \in Nat /\ c \in Nat /\ w \in Nat /\ w > 0 /\ f \in Nat
      BY <1>5, <1>7, <1>8, <3>1, <3>2
    <3>4. (IsOwn => r = 0 /\ t = 0) /\ (~IsOwn => r = c - x /\ t = c - y)
      BY <1>18, <1>19 DEF Rest
    <3>5. direct = f + (IF IsOwn THEN x ELSE 0) /\ Own = f + (IF IsOwn THEN c ELSE 0)
      BY <1>8, <1>20
    <3>6. d = direct + (IF IsOwn THEN w ELSE 0) /\ i = indirect
      BY <1>5, <1>6, <1>13, <1>14, <2>1
    <3>7. Unaccounted <=> ~IsOwn
      BY <1>5, <2>1
    <3> HIDE DEF x, y, c, f
    <3>8. CASE IsOwn
      <4>1. /\ r = 0 /\ t = 0 /\ direct = f + x /\ Own = f + c /\ d = direct + w /\ i = indirect /\ ~Unaccounted
        BY <3>4, <3>5, <3>6, <3>7, <3>8
      <4>2. d = f + y /\ d <= Own /\ d > 0 /\ b + t <= d + i /\ d \in Nat /\ i \in Nat /\ t \in Nat
        BY <1>6, <1>20, <3>3, <4>1
      <4> QED  BY <3>1, <3>8, <4>1, <4>2 DEF y, f
    <3>9. CASE ~IsOwn
      <4>1. /\ r = c - x /\ t = c - y /\ direct = f /\ Own = f /\ d = direct /\ i = indirect /\ Unaccounted
        BY <1>6, <3>3, <3>4, <3>5, <3>6, <3>7, <3>9
      <4>2. /\ d <= Own /\ b + t <= a + r /\ b + t <= d + i /\ d \in Nat /\ i \in Nat /\ t \in Nat
            /\ d = f
        BY <1>6, <1>20, <3>3, <4>1
      <4> QED  BY <3>9, <4>1, <4>2 DEF f
    <3> QED  BY <3>8, <3>9
  <2>2. CASE ~TakesOwn
    <3>1. j = k /\ ~Unaccounted /\ ~Alone /\ r = t
      BY <1>5, <1>18, <1>19, <1>21, <2>2
    <3>2. d = direct /\ i = indirect + w
      BY <1>5, <1>6, <1>13, <1>14, <2>2
    <3>3. IsOwn => k # 0
      BY <1>20, <3>1
    <3> DEFINE x == Sums(doc.text)[k]
               c == Bytes(doc.text)
               f == doc.before
    <3>4. /\ x \in Nat /\ c \in Nat /\ x <= c /\ w \in Nat /\ f \in Nat /\ (IsOwn => x # 0)
          /\ direct = f + (IF IsOwn THEN x ELSE 0) /\ Own = f + (IF IsOwn THEN c ELSE 0)
      BY <1>5, <1>7, <1>8, <1>20, <3>3
    <3>5. Sums(doc.text)[j] = x
      BY <3>1
    <3> HIDE DEF x, c, f
    <3>6. /\ d \in Nat /\ i \in Nat /\ t \in Nat /\ d = f + (IF IsOwn THEN x ELSE 0) /\ d <= Own
          /\ b + t <= d + i /\ (d = 0 => Own = 0)
      <4>1. CASE IsOwn
        BY <1>6, <1>20, <3>1, <3>2, <3>4, <4>1
      <4>2. CASE ~IsOwn
        BY <1>6, <1>20, <3>1, <3>2, <3>4, <4>2
      <4> QED  BY <4>1, <4>2
    <3> QED  BY <3>1, <3>3, <3>5, <3>6 DEF f
  <2> QED  BY <2>1, <2>2
<1>24. Within(b + t, Own)
  <2>1. b + t \in Nat /\ a + r \in Nat
    BY <1>20, <1>23
  <2>2. CASE Unaccounted
    BY <1>8, <1>20, <1>23, <2>1, <2>2, WithinLess
  <2>3. CASE ~Unaccounted
    <3>1. d + i < Threshold \/ ~Amplified(d, i)
      BY <1>15, <2>3
    <3> QED  BY <1>8, <1>23, <2>1, <2>3, <3>1, WithinCounted
  <2> QED  BY <2>2, <2>3
<1>25. Within(Size, Own)'
  <2>1. b + t \in Nat /\ b <= b + t
    BY <1>20, <1>23
  <2>2. Within(b, Own)
    BY <1>8, <1>20, <1>24, <2>1, WithinLess
  <2> QED  BY <1>10, <1>17, <2>2 DEF Within
<1>26. ASSUME Live' PROVE Balance(Passed(parsers[1]))'
  <2>1. Passed(parsers[1])' = j
    BY <1>3, <1>11, <1>26
  <2>2. direct' = doc'.before + IF IsOwn' THEN Sums(doc'.text)[j] ELSE 0
    BY <1>3, <1>10, <1>15, <1>23
  <2>3. ~(IsOwn' /\ j = 0)
    <3>1. IsOwn /\ j = 0 => Alone /\ ~TakesOwn
      BY <1>22, <1>23
    <3> QED  BY <1>5, <1>10, <3>1
  <2>4. (Size + Rest(j))' = b + t
    BY <1>12, <1>17, <1>19
  <2>5. (Size + Rest(j) <= direct + indirect)'
    BY <1>15, <1>20, <1>23, <2>4
  <2>6. Within(Size + Rest(j), Own)'
    BY <1>10, <1>24, <2>4 DEF Within
  <2>7. Balance(j)'
    BY <2>2, <2>3, <2>5, <2>6 DEF Balance, Sums, IsTally, Tally
  <2> QED  BY <2>1, <2>7 DEF Balance, Rest
<1> QED  BY <1>3, <1>4, <1>10, <1>25, <1>26 DEF AmpInv

-----------------------------------------------------------------------------
(* What a step does to the root parser.                                    *)
LEMMA OutputKept ==
  ASSUME Written, UNCHANGED <<doc, output>>
  PROVE  Written' /\ Size' = Size
BY DEF Written, Size, Kind, Bytes

(* A parser that has not ended is within a document that is read.          *)
LEMMA LiveNow ==
  ASSUME EntityInv, self.at # "done"
  PROVE  Live
BY Now, RootIs DEF Live

RootTo(k) ==
  /\ Accounts'
  /\ Live' => Passed(parsers[1])' = IF IsRoot THEN k ELSE Passed(parsers[1])
RootOpens(list) == (Live' /\ IsRoot /\ list = <<>>) => Alone'

(* The parser that reads changes: the root parser, or none that counts.    *)
LEMMA RootBecomes ==
  ASSUME EntityInv, Accounts, UNCHANGED doc, NEW q, Becomes(q), q.text = self.text, q.account = self.account
  PROVE  /\ RootTo(Passed(q)) /\ RootOpens(q.open)
         /\ parsers'[1] = IF IsRoot THEN q ELSE parsers[1]
<1> DEFINE n == Len(parsers)
<1>1. n \in Nat /\ n > 0 /\ 1 \in DOMAIN parsers /\ DOMAIN parsers = 1..n /\ (IsRoot <=> n = 1)
  BY RootIs DEF IsRoot
<1>2. parsers' = [parsers EXCEPT ![n] = q] /\ self = parsers[n] /\ parsers \in Seq(Parser)
  BY Now DEF Becomes, self, Last, Chain
<1> HIDE DEF n
<1>3. parsers'[1] = IF IsRoot THEN q ELSE parsers[1]
  BY <1>1, <1>2
<1>4. /\ DOMAIN parsers' = 1..n /\ n \in 1..n
      /\ \A m \in 1..n : parsers'[m] = IF m = n THEN q ELSE parsers[m]
  BY <1>1, <1>2
<1>5. Accounts'
  <2>1. parsers'[1].text = parsers[1].text /\ parsers'[1].account = parsers[1].account
    BY <1>1, <1>2, <1>3
  <2>2. \A m \in DOMAIN parsers' : parsers'[m].account = parsers[m].account
    BY <1>2, <1>4
  <2> QED  BY <1>1, <1>4, <2>1, <2>2 DEF Accounts
<1>6. Passed(parsers[1])' = Passed(parsers'[1])
  BY DEF Passed
<1>7. IsRoot => Len(parsers') = 1
  BY <1>1, <1>2, <1>4
<1> QED  BY <1>3, <1>5, <1>6, <1>7 DEF RootTo, RootOpens, Alone

(* After a failure nothing comes out.                                      *)
LEMMA FailKeeps ==
  ASSUME EntityInv, AmpInv, UNCHANGED <<doc, output>>, NEW e, e # "NONE", Fail(e)
  PROVE  AmpInv'
<1> DEFINE q == [self EXCEPT !.error = e, !.at = "done"]
<1>1. Becomes(q) /\ cause' # "NONE"
  BY DEF Fail
<1>2. self \in Parser
  BY Now
<1>3. q.text = self.text /\ q.account = self.account
  BY <1>2 DEF Parser
<1> HIDE DEF q
<1>4. Accounts'
  BY <1>1, <1>3, RootBecomes DEF AmpInv, RootTo
<1>5. Written' /\ Size' = Size /\ Size \in Nat
  BY OutputKept, SizeIs DEF AmpInv
<1>6. ~Live'
  BY <1>1 DEF Live
<1>7. Quiet
  BY <1>4, <1>5, <1>6 DEF Quiet
<1> QED  BY <1>7, QuietKeeps

(* The parser p, which is the one that reads but for where it goes on,     *)
(* leaves the text or goes on with it.                                     *)
Similar(p) ==
  /\ p \in Parser /\ Marks(p) /\ p.text = self.text /\ p.account = self.account
After(p, next) == IF p.cur = Null THEN next ELSE p.pos

(* Leaving the text.                                                       *)
LEMMA LeaveRoot ==
  ASSUME EntityInv, Accounts, UNCHANGED doc, NEW p, Similar(p), NEW next \in Nat, next <= Len(Text(p)),
         Leave(p, next), p.at \in {"turn", "suspended", "done"}
  PROVE  RootTo(After(p, next)) /\ RootOpens(p.open)
<1>1. p \in Parser /\ Marks(p) /\ p.text = self.text /\ p.account = self.account /\ IsDocument(doc) /\ self \in Parser
  BY Now DEF Similar
<1>2. CASE EndsAsync(p, next)
  <2> DEFINE q == [self EXCEPT !.error = "ASYNC_ENTITY", !.at = "done"]
  <2>1. Becomes(q) /\ cause' # "NONE"
    BY <1>2 DEF Leave, Fail
  <2>2. q.text = self.text /\ q.account = self.account
    BY <1>1 DEF Parser
  <2> HIDE DEF q
  <2>3. Accounts' /\ ~Live'
    BY <2>1, <2>2, RootBecomes DEF RootTo, Live
  <2> QED  BY <2>3 DEF RootTo, RootOpens
<1>3. CASE ~EndsAsync(p, next)
  <2> DEFINE q == Left(p, next)
  <2>1. Becomes(q)
    BY <1>3 DEF Leave
  <2>2. /\ q.text = p.text /\ q.account = p.account /\ q.open = p.open /\ q.at = p.at /\ q.cur = Null
        /\ q.pos = IF p.cur = Null THEN next ELSE p.pos
    BY <1>1, LeftIs
  <2> HIDE DEF q
  <2>3. Passed(q) = After(p, next)
    BY <2>2 DEF Passed, After
  <2> QED  BY <1>1, <2>1, <2>2, <2>3, RootBecomes
<1> QED  BY <1>2, <1>3

(* The same for the next token.                                            *)
LEMMA GoesOnRoot ==
  ASSUME EntityInv, Accounts, UNCHANGED doc, NEW p, Similar(p), p.s < Len(Text(p)), GoesOn(p)
  PROVE  RootTo(After(p, p.s + 1)) /\ RootOpens(p.open)
<1>1. p \in Parser /\ Marks(p) /\ p.text = self.text /\ p.account = self.account /\ IsDocument(doc)
  BY Now DEF Similar
<1>2. p.s \in Nat /\ Text(p) \in Seq(Items)
  BY <1>1, Fields, Texts
<1> DEFINE t == p.s + 1
<1>3. t \in Nat /\ t <= Len(Text(p))
  BY <1>2
<1> HIDE DEF t
<1>4. CASE IsRoot /\ status' = "SUSPENDED"
  <2> DEFINE r == [p EXCEPT !.at = "suspended"]
  <2>1. Leave(r, t)
    BY <1>4 DEF GoesOn, t
  <2>2. /\ r \in Parser /\ r.text = p.text /\ r.account = p.account /\ r.open = p.open /\ r.at = "suspended"
        /\ r.cur = p.cur /\ r.pos = p.pos /\ r.s = p.s /\ r.processed = p.processed
    BY <1>1 DEF Parser
  <2> HIDE DEF r
  <2>3. Marks(r) /\ Text(r) = Text(p) /\ After(r, t) = After(p, t)
    BY <1>1, <2>2 DEF Marks, Text, After
  <2>4. Similar(r)
    BY <1>1, <2>2, <2>3 DEF Similar
  <2>5. RootTo(After(r, t)) /\ RootOpens(r.open)
    BY <1>3, <2>1, <2>2, <2>3, <2>4, LeaveRoot
  <2> QED  BY <2>2, <2>3, <2>5 DEF t
<1>5. CASE ~(IsRoot /\ status' = "SUSPENDED")
  <2> DEFINE q == [p EXCEPT !.at = "text", !.s = t]
  <2>1. Becomes(q)
    <3>1. Becomes([p EXCEPT !.at = "text", !.s = @ + 1])
      BY <1>5 DEF GoesOn
    <3> QED  BY <3>1, <1>1 DEF t
  <2>2. /\ q.text = p.text /\ q.account = p.account /\ q.open = p.open /\ q.at = "text" /\ q.cur = p.cur
        /\ q.pos = p.pos /\ q.s = t
    BY <1>1, <1>3 DEF Parser
  <2> HIDE DEF q
  <2>3. Passed(q) = After(p, t)
    BY <2>2 DEF Passed, After
  <2>4. RootTo(After(p, t)) /\ RootOpens(p.open)
    BY <1>1, <2>1, <2>2, <2>3, RootBecomes
  <2> QED  BY <2>4 DEF t
<1> QED  BY <1>4, <1>5

(* Steps of the parser that reads, without a token and with one.           *)
LEMMA QuietRoot ==
  ASSUME EntityInv, AmpInv, self.at # "done", UNCHANGED <<doc, direct, indirect>>, Written', Size' <= Size,
         RootTo(Passed(self)), NEW list, RootOpens(list), self.open = <<>> => list = <<>>
  PROVE  AmpInv'
<1>1. Live /\ (IsRoot => self = parsers[1])
  BY LiveNow, RootIs
<1>2. Accounts' /\ (Live' => Passed(parsers[1])' = Passed(parsers[1]))
  BY <1>1 DEF RootTo
<1>3. Live' => (Alone => Alone')
  BY <1>1 DEF RootOpens, Alone, IsRoot
<1>4. Quiet
  BY <1>1, <1>2, <1>3 DEF Quiet
<1> QED  BY <1>4, QuietKeeps

(* The same with a token.                                                  *)
LEMMA TokenRoot ==
  ASSUME EntityInv, AmpInv, NEW item, Takes(item), UNCHANGED doc, Written', Size' <= Size + Width(item),
         RootTo(After(self, self.s + 1))
  PROVE  AmpInv'
<1>1. self.at = "text" /\ (IsRoot => self = parsers[1]) /\ self \in Parser
  BY Taken, RootIs, Now
<1>2. self.pos \in Nat /\ self.s \in Nat
  BY <1>1, Fields
<1>3. IsRoot => After(self, self.s + 1) = Passed(parsers[1]) + Step
  BY <1>1, <1>2 DEF After, Passed, Step, TakesOwn
<1>4. ~IsRoot => Step = 0
  BY DEF Step, TakesOwn
<1>5. Passed(parsers[1]) \in Nat
  BY PassedIs DEF AmpInv
<1>6. Accounts' /\ (Live' => Passed(parsers[1])' = Passed(parsers[1]) + Step)
  BY <1>3, <1>4, <1>5 DEF RootTo
<1>7. TakesOne(item)
  BY <1>6 DEF TakesOne
<1> QED  BY <1>7, TakenKeeps

(* A text is read on.                                                      *)
LEMMA ReadOwnAmp ==
  ASSUME EntityInv, AmpInv, ReadOwn
  PROVE  AmpInv'
<1> DEFINE q == [self EXCEPT !.at = "text", !.cur = Null, !.s = self.pos]
<1>1. /\ self \in Parser /\ self.at = "turn" /\ self.open = <<>> /\ Becomes(q)
      /\ UNCHANGED <<doc, status, output, direct, indirect, depth, cause>>
  BY Now DEF ReadOwn
<1>2. /\ q.text = self.text /\ q.account = self.account /\ q.open = self.open /\ q.at = "text" /\ q.cur = Null
      /\ q.s = self.pos
  BY <1>1 DEF Parser
<1> HIDE DEF q
<1>3. Passed(q) = Passed(self)
  BY <1>1, <1>2 DEF Passed
<1>4. RootTo(Passed(self)) /\ RootOpens(q.open)
  BY <1>1, <1>2, <1>3, RootBecomes DEF AmpInv
<1>5. Written' /\ Size' = Size /\ Size \in Nat
  BY <1>1, OutputKept, SizeIs DEF AmpInv
<1> QED  BY <1>1, <1>2, <1>4, <1>5, QuietRoot

(* The same for an entity.                                                 *)
LEMMA ReadEntityAmp ==
  ASSUME EntityInv, AmpInv, ReadEntity
  PROVE  AmpInv'
<1> DEFINE e == Head(self.open).entity
           q == [self EXCEPT !.at = "text", !.cur = e, !.s = self.processed[e]]
<1>1. /\ self \in Parser /\ self.at = "turn" /\ self.open # <<>> /\ Becomes(q)
      /\ UNCHANGED <<doc, status, output, direct, indirect, depth, cause>>
  BY Now DEF ReadEntity
<1>2. e # Null
  <2>1. self.open \in Seq(OpenedEntity)
    BY <1>1, Fields
  <2>2. Head(self.open) \in OpenedEntity
    BY <1>1, <2>1
  <2> QED  BY <2>2, EntityAssumption DEF OpenedEntity, EntityAssumption
<1> HIDE DEF e
<1>3. /\ q.text = self.text /\ q.account = self.account /\ q.open = self.open /\ q.at = "text" /\ q.cur = e
      /\ q.pos = self.pos
  BY <1>1 DEF Parser
<1> HIDE DEF q
<1>4. Passed(q) = Passed(self)
  BY <1>1, <1>2, <1>3 DEF Passed
<1>5. RootTo(Passed(self)) /\ RootOpens(q.open)
  BY <1>1, <1>3, <1>4, RootBecomes DEF AmpInv
<1>6. Written' /\ Size' = Size /\ Size \in Nat
  BY <1>1, OutputKept, SizeIs DEF AmpInv
<1> QED  BY <1>1, <1>3, <1>5, <1>6, QuietRoot

(* A value that is complete may lose the space at its end.                 *)
LEMMA CompleteSize ==
  ASSUME Written, UNCHANGED doc, Complete
  PROVE  Written' /\ Size' <= Size
<1>1. CASE output' = output
  BY <1>1, OutputKept, SizeIs
<1>2. CASE output' = Front(output) /\ output # <<>>
  <2>1. output \in Seq(Items \cup {"skipped"})
    BY DEF Written
  <2>2. output' \in Seq(Items \cup {"skipped"}) /\ Len(output') <= Len(output)
    <3> DEFINE f == Front(output)
               S == Items \cup {"skipped"}
               m == Len(output) - 1
    <3>1. m \in Nat /\ m <= Len(output) /\ f = SubSeq(output, 1, m)
      BY <1>2, <2>1 DEF Front
    <3> HIDE DEF f, S
    <3>2. output \in Seq(S)
      BY <2>1 DEF S
    <3>3. f \in Seq(S) /\ Len(f) <= Len(output)
      BY <3>1, <3>2
    <3> QED  BY <1>2, <3>3 DEF f, S
  <2>3. Kind("value") => output' \in Seq(Items) /\ Bytes(output') <= Bytes(output)
    BY <1>2, BytesFront DEF Written
  <2>4. (Kind("value")' <=> Kind("value")) /\ Bytes(output)' = Bytes(output')
    BY DEF Kind, Bytes
  <2> QED  BY <2>2, <2>3, <2>4 DEF Written, Size
<1> QED  BY <1>1, <1>2 DEF Complete

(* An entity is closed.                                                    *)
LEMMA CloseEntityAmp ==
  ASSUME EntityInv, AmpInv, CloseEntity
  PROVE  AmpInv'
<1> DEFINE complete == ~Kind("content") /\ Len(self.open) = 1 /\ self.pos = Len(self.text)
           r == Closed(self)
           at == IF complete THEN "done" ELSE "turn"
           q == [r EXCEPT !.at = at]
<1>1. /\ self \in Parser /\ self.at = "turn" /\ self.open # <<>> /\ Becomes(q) /\ (Complete \/ UNCHANGED output)
      /\ UNCHANGED <<doc, status, direct, indirect, cause>>
  BY Now DEF CloseEntity
<1>2. self.cur = Null
  BY <1>1, Now DEF ReadsHead
<1>3. /\ r.text = self.text /\ r.account = self.account /\ r.cur = self.cur /\ r.pos = self.pos
      /\ q.text = r.text /\ q.account = r.account /\ q.cur = r.cur /\ q.pos = r.pos /\ q.at = at
  <2>1. self = [text |-> self.text, account |-> self.account, pos |-> self.pos, level |-> self.level,
                open |-> self.open, isOpen |-> self.isOpen, more |-> self.more, processed |-> self.processed,
                at |-> self.at, cur |-> self.cur, s |-> self.s, error |-> self.error]
    BY <1>1, Fields
  <2> DEFINE tail == Tail(self.open)
             flags == self.isOpen \ {Head(self.open).entity}
  <2>2. r = [self EXCEPT !.open = tail, !.isOpen = flags]
    BY DEF Closed
  <2> HIDE DEF tail, flags, r, at
  <2>3. r = [text |-> self.text, account |-> self.account, pos |-> self.pos, level |-> self.level,
             open |-> tail, isOpen |-> flags, more |-> self.more, processed |-> self.processed,
             at |-> self.at, cur |-> self.cur, s |-> self.s, error |-> self.error]
    BY <2>1, <2>2
  <2> QED  BY <2>3
<1>4. at \in {"done", "turn"}
  OBVIOUS
<1> HIDE DEF q, r, at
<1>5. Passed(q) = Passed(self)
  BY <1>1, <1>2, <1>3, <1>4 DEF Passed
<1>6. RootTo(Passed(self)) /\ RootOpens(q.open)
  BY <1>1, <1>3, <1>5, RootBecomes DEF AmpInv
<1>7. Written' /\ Size' <= Size
  BY <1>1, OutputKept, CompleteSize, SizeIs DEF AmpInv
<1> QED  BY <1>1, <1>6, <1>7, QuietRoot

(* The end of a text.                                                      *)
LEMMA TextEndsAmp ==
  ASSUME EntityInv, AmpInv, TextEnds
  PROVE  AmpInv'
<1>1. /\ IsDocument(doc) /\ self \in Parser /\ Marks(self) /\ self.at = "text" /\ self.s = Len(Text(self))
      /\ UNCHANGED <<doc, status, direct, indirect, depth>>
  BY Now DEF TextEnds
<1>2. self.s \in Nat /\ self.s <= Len(Text(self)) /\ Written /\ Accounts
  BY <1>1, Fields DEF AmpInv
<1>3. CASE self.cur # Null
  <2> DEFINE p == [self EXCEPT !.at = "turn"]
  <2>1. Leave(p, self.s) /\ UNCHANGED output
    BY <1>3 DEF TextEnds
  <2>2. /\ p \in Parser /\ p.text = self.text /\ p.account = self.account /\ p.pos = self.pos /\ p.open = self.open
        /\ p.processed = self.processed /\ p.at = "turn" /\ p.cur = self.cur /\ p.s = self.s
    BY <1>1 DEF Parser
  <2> HIDE DEF p
  <2>3. Text(p) = Text(self) /\ Marks(p)
    BY <1>1, <2>2 DEF Text, Marks
  <2>4. Similar(p)
    BY <2>2, <2>3 DEF Similar
  <2>5. RootTo(After(p, self.s)) /\ RootOpens(p.open)
    BY <1>1, <1>2, <2>1, <2>2, <2>3, <2>4, LeaveRoot
  <2>6. After(p, self.s) = Passed(self)
    BY <1>1, <1>3, <2>2 DEF After, Passed
  <2>7. Written' /\ Size' <= Size
    BY <1>1, <1>2, <2>1, OutputKept, SizeIs
  <2> QED  BY <1>1, <2>2, <2>5, <2>6, <2>7, QuietRoot
<1>4. CASE Fail("ASYNC_ENTITY") /\ UNCHANGED output
  BY <1>1, <1>4, FailKeeps
<1>5. CASE self.cur = Null /\ Becomes([self EXCEPT !.at = "done"]) /\ Complete
  <2> DEFINE q == [self EXCEPT !.at = "done"]
  <2>1. Becomes(q)
    BY <1>5
  <2>2. /\ q.text = self.text /\ q.account = self.account /\ q.open = self.open /\ q.at = "done"
    BY <1>1 DEF Parser
  <2> HIDE DEF q
  <2>3. RootTo(Passed(q)) /\ RootOpens(q.open) /\ parsers'[1] = IF IsRoot THEN q ELSE parsers[1]
    BY <1>1, <1>2, <2>1, <2>2, RootBecomes
  <2>4. IsRoot => ~Live'
    BY <2>2, <2>3 DEF Live
  <2>5. RootTo(Passed(self))
    BY <2>3, <2>4 DEF RootTo
  <2>6. Written' /\ Size' <= Size
    BY <1>1, <1>2, <1>5, CompleteSize
  <2> QED  BY <1>1, <2>2, <2>3, <2>5, <2>6, QuietRoot
<1> QED  BY <1>3, <1>4, <1>5 DEF TextEnds

(* A suspended parser is resumed.                                          *)
LEMMA ResumeAmp ==
  ASSUME EntityInv, AmpInv, Resume
  PROVE  AmpInv'
<1> DEFINE q == [self EXCEPT !.at = "turn"]
<1>1. /\ self \in Parser /\ ReadsHead(self) /\ self.at = "suspended" /\ Becomes(q)
      /\ UNCHANGED <<doc, output, direct, indirect, depth, cause>>
  BY Now DEF Resume
<1>2. /\ q.text = self.text /\ q.account = self.account /\ q.open = self.open /\ q.at = "turn"
      /\ q.pos = self.pos /\ q.cur = self.cur
  BY <1>1 DEF Parser
<1> HIDE DEF q
<1>3. Passed(q) = Passed(self)
  BY <1>1, <1>2 DEF Passed
<1>4. RootTo(Passed(self)) /\ RootOpens(q.open)
  BY <1>1, <1>2, <1>3, RootBecomes DEF AmpInv
<1>5. Written' /\ Size' = Size /\ Size \in Nat
  BY <1>1, OutputKept, SizeIs DEF AmpInv
<1> QED  BY <1>1, <1>2, <1>4, <1>5, QuietRoot

(* The parser above goes on after the entity.                              *)
LEMMA AfterExternalAmp ==
  ASSUME EntityInv, AmpInv, AfterExternal
  PROVE  AmpInv'
<1>1. /\ self \in Parser /\ Marks(self) /\ ReadsHead(self) /\ self.at = "back" /\ GoesOn(self)
      /\ UNCHANGED <<doc, status, output, direct, indirect, depth>>
  BY Now DEF AfterExternal
<1>2. self.s < Len(Text(self)) /\ Similar(self) /\ Accounts
  BY <1>1 DEF ReadsHead, Similar, AmpInv
<1>3. RootTo(After(self, self.s + 1)) /\ RootOpens(self.open)
  BY <1>1, <1>2, GoesOnRoot
<1>4. After(self, self.s + 1) = Passed(self)
  BY <1>1 DEF After, Passed
<1>5. Written' /\ Size' = Size /\ Size \in Nat
  BY <1>1, OutputKept, SizeIs DEF AmpInv
<1> QED  BY <1>1, <1>3, <1>4, <1>5, QuietRoot

(* The parser of an external entity ends, the one above has waited.        *)
LEMMA ExternalEndsAmp ==
  ASSUME EntityInv, AmpInv, ExternalEnds
  PROVE  AmpInv'
<1> DEFINE n == Len(parsers)
           k == n - 1
           p == parsers[k]
           e == Waits(parsers, k)
           q == BackWith(p, e)
           front == Front(parsers)
           qs == [front EXCEPT ![k] = q]
<1>1. /\ ~IsRoot /\ parsers' = qs /\ UNCHANGED <<doc, status, output, direct, indirect, cause>>
  BY DEF ExternalEnds, Waits, BackWith, BackAt
<1>2. self \in Parser /\ Chain(parsers) /\ Accounts
  BY Now DEF AmpInv
<1>3. n \in Nat /\ n > 0 /\ DOMAIN parsers = 1..n /\ n # 1 /\ parsers \in Seq(Parser) /\ parsers[1].at = "external"
  BY <1>1, <1>2, RootIs DEF Chain, IsRoot
<1>4. k \in Nat /\ k > 0 /\ k \in 1..n /\ 1 \in 1..k /\ k <= Len(parsers)
  BY <1>3
<1>5. p \in Parser
  BY <1>3, <1>4
<1>6. IsBack(p, e, q)
  BY <1>2, <1>5, BackIs
<1>7. front = SubSeq(parsers, 1, k)
  BY <1>4 DEF Front
<1> HIDE DEF n, q, e, front
<1>8. front \in Seq(Parser) /\ Len(front) = k /\ \A m \in 1..k : front[m] = parsers[m]
  <2> HIDE DEF k, p
  <2> QED  BY <1>3, <1>4, <1>7
<1>9. q \in Parser /\ q.text = p.text /\ q.pos = p.pos /\ q.cur = p.cur /\ q.s = p.s /\ q.account = p.account
      /\ (q.at = "back" \/ q.at = "done")
  BY <1>6 DEF IsBack
<1> HIDE DEF k, p
<1>10. DOMAIN qs = 1..k /\ \A m \in 1..k : qs[m] = IF m = k THEN q ELSE parsers[m]
  BY <1>4, <1>8
<1> HIDE DEF qs
<1>11. qs[1].text = parsers[1].text /\ qs[1].account = parsers[1].account
  BY <1>4, <1>9, <1>10 DEF p
<1>12. \A m \in 1..k : m \in 1..n /\ qs[m].account = parsers[m].account
  <2>1. \A m \in 1..k : m \in 1..n
    BY <1>3, <1>4 DEF k
  <2> QED  BY <1>9, <1>10, <2>1 DEF p
<1>13. Accounts'
  BY <1>1, <1>2, <1>3, <1>10, <1>11, <1>12 DEF Accounts
<1>14. Live' => Live
  BY <1>1, <1>3 DEF Live
<1>15. Live' => Passed(parsers[1])' = Passed(parsers[1])
  <2> SUFFICES ASSUME Live' PROVE Passed(parsers[1])' = Passed(parsers[1])
    OBVIOUS
  <2>1. Passed(parsers[1])' = Passed(qs[1])
    BY <1>1 DEF Passed
  <2>2. CASE k = 1
    <3>1. qs[1] = q /\ parsers[1] = p
      BY <1>4, <1>10, <2>2 DEF p
    <3>2. q.at = "back"
      BY <1>1, <1>9, <3>1 DEF Live
    <3> QED  BY <1>3, <1>9, <2>1, <3>1, <3>2 DEF Passed
  <2>3. CASE k # 1
    <3>1. qs[1] = parsers[1]
      BY <1>4, <1>10, <2>3
    <3> QED  BY <2>1, <3>1
  <2> QED  BY <2>2, <2>3
<1>16. ~Alone
  BY <1>3 DEF Alone, n
<1>17. Written' /\ Size' = Size /\ Size \in Nat
  BY <1>1, OutputKept, SizeIs DEF AmpInv
<1>18. Quiet
  BY <1>1, <1>13, <1>14, <1>15, <1>16, <1>17 DEF Quiet
<1> QED  BY <1>18, QuietKeeps

(* A token is refused.                                                     *)
LEMMA RefusedAmp ==
  ASSUME EntityInv, AmpInv, NoToken \/ TooMuch \/ BadReference
  PROVE  AmpInv'
<1>1. CASE NoToken
  BY <1>1, FailKeeps DEF NoToken
<1>2. CASE TooMuch
  BY <1>2, FailKeeps DEF TooMuch
<1>3. CASE BadReference
  <2>1. PICK e \in Entities : Error(e) # "NONE" /\ Fail(Error(e))
    BY <1>3 DEF BadReference
  <2>2. UNCHANGED <<doc, output>>
    BY <1>3 DEF BadReference
  <2> QED  BY <2>1, <2>2, FailKeeps
<1> QED  BY <1>1, <1>2, <1>3

(* What a token adds to the output.                                        *)
LEMMA ReportedSize ==
  ASSUME Written, Kind("content"), UNCHANGED doc, NEW x \in Items \cup {"skipped"}, output' = Append(output, x),
         NEW item \in Items
  PROVE  Written' /\ Size' <= Size + Width(item)
<1>1. output \in Seq(Items \cup {"skipped"})
  BY DEF Written
<1>2. output' \in Seq(Items \cup {"skipped"}) /\ Len(output') = Len(output) + 1 /\ Len(output) \in Nat
  BY <1>1
<1>3. ~Kind("value") /\ ~Kind("value")'
  BY DEF Kind
<1>4. Width(item) \in Nat \ {0}
  BY EntityAssumption DEF EntityAssumption
<1> QED  BY <1>2, <1>3, <1>4 DEF Written, Size

(* The same in a value, where white space may be left out.                 *)
LEMMA StoredSize ==
  ASSUME Written, UNCHANGED doc, NEW item \in Items, output' = Stored(item)
  PROVE  Written' /\ Size' <= Size + Width(item)
<1>1. Width(item) \in Nat \ {0} /\ Size \in Nat
  BY SizeIs, EntityAssumption DEF EntityAssumption
<1>2. CASE output' = output
  <2>1. Written' /\ Size' = Size
    BY <1>2, OutputKept
  <2> QED  BY <1>1, <2>1
<1>3. CASE output' = Append(output, item)
  <2>1. output \in Seq(Items \cup {"skipped"}) /\ item \in Items \cup {"skipped"}
    BY DEF Written
  <2>2. output' \in Seq(Items \cup {"skipped"}) /\ Len(output') = Len(output) + 1 /\ Len(output) \in Nat
    BY <1>3, <2>1
  <2>3. ASSUME Kind("value") PROVE output' \in Seq(Items) /\ Bytes(output') = Bytes(output) + Width(item)
    <3>1. output \in Seq(Items)
      BY <2>3 DEF Written
    <3> QED  BY <1>3, <3>1, BytesAppend
  <2>4. (Kind("value")' <=> Kind("value")) /\ Bytes(output)' = Bytes(output')
    BY DEF Kind, Bytes
  <2> QED  BY <1>1, <2>2, <2>3, <2>4 DEF Written, Size
<1> QED  BY <1>2, <1>3 DEF Stored

(* What is taken as it is.                                                 *)
LEMMA KeptSize ==
  ASSUME Written, UNCHANGED <<doc, output>>, NEW item \in Items
  PROVE  Written' /\ Size' <= Size + Width(item)
<1>1. Width(item) \in Nat \ {0} /\ Size \in Nat
  BY SizeIs, EntityAssumption DEF EntityAssumption
<1> QED  BY <1>1, OutputKept

(* The parser that takes a token.                                          *)
LEMMA ReadingNow ==
  ASSUME EntityInv, AmpInv, NEW item, Takes(item)
  PROVE  /\ self \in Parser /\ Marks(self) /\ Similar(self) /\ self.at = "text" /\ self.s < Len(Text(self))
         /\ self.s + 1 \in Nat /\ self.s + 1 <= Len(Text(self)) /\ item \in Items /\ Written /\ Accounts
<1>1. /\ Reading /\ item = Item /\ self.at = "text" /\ self.s + 1 \in Nat /\ self.s + 1 <= Len(Text(self))
  BY Taken
<1>2. item \in Items
  BY <1>1, Token
<1>3. self \in Parser /\ Marks(self)
  BY Now
<1> QED  BY <1>1, <1>2, <1>3 DEF Reading, Similar, AmpInv

(* A token is reported or stored.                                          *)
LEMMA ContentTokenAmp ==
  ASSUME EntityInv, AmpInv, ContentToken
  PROVE  AmpInv'
<1>1. PICK item \in Items \ Entities :
        /\ Takes(item)
        /\ IF item = ")" /\ self.level = StartLevel(self) THEN Fail("ASYNC_ENTITY") /\ UNCHANGED <<output, status>>
           ELSE /\ Reports(item)
                /\ GoesOn([self EXCEPT !.level = IF item = "(" THEN @ + 1 ELSE IF item = ")" THEN @ - 1 ELSE @])
  BY DEF ContentToken
<1>2. Kind("content") /\ UNCHANGED <<doc, depth>>
  BY DEF ContentToken
<1>3. CASE item = ")" /\ self.level = StartLevel(self)
  BY <1>1, <1>2, <1>3, FailKeeps
<1>4. CASE ~(item = ")" /\ self.level = StartLevel(self))
  <2> DEFINE level == IF item = "(" THEN self.level + 1 ELSE IF item = ")" THEN self.level - 1 ELSE self.level
             p == [self EXCEPT !.level = level]
  <2>1. GoesOn(p) /\ output' = Append(output, item)
    <3>1. p = [self EXCEPT !.level = IF item = "(" THEN @ + 1 ELSE IF item = ")" THEN @ - 1 ELSE @]
      OBVIOUS
    <3> QED  BY <1>1, <1>4, <3>1 DEF Reports
  <2>2. /\ self \in Parser /\ Marks(self) /\ self.s < Len(Text(self)) /\ Written /\ Accounts
    BY <1>1, ReadingNow
  <2>3. level \in Nat
    <3>1. self.level \in Nat /\ ReadsHead(self) /\ LevelsNest(self, Lowest(Len(parsers))) /\ self.at = "text"
          /\ self.open \in Seq(OpenedEntity)
      BY <1>1, <2>2, ReadingNow, Now, Fields
    <3>2. /\ self.cur = Null => self.open = <<>> /\ StartLevel(self) = Lowest(Len(parsers))
          /\ self.cur # Null => self.open # <<>> /\ StartLevel(self) = self.open[1].level
      BY <3>1, StartIs
    <3>3. self.open # <<>> => self.open[1] \in OpenedEntity
      BY <3>1
    <3>4. StartLevel(self) \in Nat /\ StartLevel(self) <= self.level
      <4>1. CASE self.cur = Null
        BY <3>1, <3>2, <4>1 DEF LevelsNest, Lowest
      <4>2. CASE self.cur # Null
        BY <3>1, <3>2, <3>3, <4>2 DEF LevelsNest, OpenedEntity
      <4> QED  BY <4>1, <4>2
    <3>5. item = ")" => self.level # StartLevel(self)
      BY <1>4
    <3> QED  BY <3>1, <3>4, <3>5
  <2> HIDE DEF level
  <2>4. /\ p \in Parser /\ p.text = self.text /\ p.account = self.account /\ p.pos = self.pos
        /\ p.processed = self.processed /\ p.cur = self.cur /\ p.s = self.s
    BY <2>2, <2>3 DEF Parser
  <2> HIDE DEF p
  <2>5. Text(p) = Text(self) /\ Marks(p)
    BY <2>2, <2>4 DEF Text, Marks
  <2>6. Similar(p) /\ p.s < Len(Text(p))
    BY <2>2, <2>4, <2>5 DEF Similar
  <2>7. RootTo(After(p, p.s + 1))
    BY <1>2, <2>1, <2>2, <2>6, GoesOnRoot
  <2>8. After(p, p.s + 1) = After(self, self.s + 1)
    BY <2>4 DEF After
  <2>9. Written' /\ Size' <= Size + Width(item)
    BY <1>2, <2>1, <2>2, ReportedSize
  <2> QED  BY <1>1, <1>2, <2>7, <2>8, <2>9, TokenRoot
<1> QED  BY <1>3, <1>4

(* The next token of a value.                                              *)
LEMMA NextAmp ==
  ASSUME EntityInv, AmpInv, NEW item, Takes(item), UNCHANGED doc, Written', Size' <= Size + Width(item),
         Becomes([self EXCEPT !.s = @ + 1])
  PROVE  AmpInv'
<1> DEFINE t == self.s + 1
           q == [self EXCEPT !.s = t]
<1>1. self \in Parser /\ self.at = "text" /\ Accounts
  BY ReadingNow
<1>2. /\ q.text = self.text /\ q.account = self.account /\ q.pos = self.pos /\ q.cur = self.cur /\ q.s = t
      /\ q.at = "text" /\ q = [self EXCEPT !.s = @ + 1]
  BY <1>1 DEF Parser
<1> HIDE DEF q
<1>3. RootTo(Passed(q))
  BY <1>1, <1>2, RootBecomes
<1>4. Passed(q) = After(self, self.s + 1)
  BY <1>2 DEF Passed, After
<1> QED  BY <1>3, <1>4, TokenRoot

(* Data of a value.                                                        *)
LEMMA ValueTokenAmp ==
  ASSUME EntityInv, AmpInv, ValueToken
  PROVE  AmpInv'
<1>1. PICK item \in Items \ Entities : Takes(item) /\ output' = Stored(item)
  BY DEF ValueToken
<1>2. Becomes([self EXCEPT !.s = @ + 1]) /\ UNCHANGED <<doc, status, depth, cause>>
  BY DEF ValueToken
<1>3. Written' /\ Size' <= Size + Width(item)
  BY <1>1, <1>2, StoredSize DEF AmpInv
<1> QED  BY <1>1, <1>2, <1>3, NextAmp

(* References that are left out.                                           *)
LEMMA SkipInContentAmp ==
  ASSUME EntityInv, AmpInv, NEW e \in Entities, SkipInContent(e)
  PROVE  AmpInv'
<1>1. Takes(e) /\ Reports("skipped") /\ GoesOn(self) /\ Kind("content") /\ UNCHANGED <<doc, depth>>
  BY DEF SkipInContent, Refers
<1>2. Similar(self) /\ self.s < Len(Text(self)) /\ e \in Items /\ Written /\ Accounts
  BY <1>1, ReadingNow
<1>3. Written' /\ Size' <= Size + Width(e)
  BY <1>1, <1>2, ReportedSize DEF Reports
<1>4. RootTo(After(self, self.s + 1))
  BY <1>1, <1>2, GoesOnRoot
<1> QED  BY <1>1, <1>3, <1>4, TokenRoot

(* The same in a value: read on, leave the text, or return.                *)
LEMMA SkipInValueAmp ==
  ASSUME EntityInv, AmpInv, NEW e \in Entities, SkipInValue(e)
  PROVE  AmpInv'
<1>1. Takes(e) /\ UNCHANGED <<doc, status, output, depth, cause>>
  BY DEF SkipInValue, Refers
<1>2. /\ self \in Parser /\ Marks(self) /\ self.at = "text" /\ self.s + 1 \in Nat /\ self.s + 1 <= Len(Text(self))
      /\ e \in Items /\ Written /\ Accounts
  BY <1>1, ReadingNow
<1>3. Written' /\ Size' <= Size + Width(e)
  BY <1>1, <1>2, KeptSize
<1>4. CASE Kind("value") /\ doc.decl[e].is = "undeclared" /\ IsRoot
  <2> DEFINE p == [self EXCEPT !.at = "turn"]
  <2>1. Becomes(Left(p, self.s + 1))
    BY <1>4 DEF SkipInValue
  <2>2. /\ p \in Parser /\ p.text = self.text /\ p.account = self.account /\ p.pos = self.pos
        /\ p.processed = self.processed /\ p.at = "turn" /\ p.cur = self.cur /\ p.s = self.s
    BY <1>2 DEF Parser
  <2> HIDE DEF p
  <2>3. Text(p) = Text(self) /\ Marks(p)
    BY <1>2, <2>2 DEF Text, Marks
  <2>4. Similar(p) /\ Leave(p, self.s + 1)
    BY <1>1, <1>4, <2>1, <2>2, <2>3 DEF Similar, Leave, EndsAsync, Kind
  <2>5. RootTo(After(p, self.s + 1))
    BY <1>1, <1>2, <2>2, <2>3, <2>4, LeaveRoot
  <2>6. After(p, self.s + 1) = After(self, self.s + 1)
    BY <2>2 DEF After
  <2> QED  BY <1>1, <1>3, <2>5, <2>6, TokenRoot
<1>5. CASE Kind("value") /\ doc.decl[e].is = "undeclared" /\ ~IsRoot
  <2> DEFINE q == [self EXCEPT !.at = "done"]
  <2>1. Becomes(q)
    BY <1>5 DEF SkipInValue
  <2>2. q.text = self.text /\ q.account = self.account
    BY <1>2 DEF Parser
  <2> HIDE DEF q
  <2>3. RootTo(Passed(q))
    BY <1>1, <1>2, <2>1, <2>2, RootBecomes
  <2>4. RootTo(After(self, self.s + 1))
    BY <1>5, <2>3 DEF RootTo
  <2> QED  BY <1>1, <1>3, <2>4, TokenRoot
<1>6. CASE ~(Kind("value") /\ doc.decl[e].is = "undeclared")
  <2>1. Becomes([self EXCEPT !.s = @ + 1])
    BY <1>6 DEF SkipInValue
  <2> QED  BY <1>1, <1>3, <2>1, NextAmp
<1> QED  BY <1>4, <1>5, <1>6

(* An entity is opened, in this parser or in one of its own.               *)
LEMMA OpenEntityAmp ==
  ASSUME EntityInv, AmpInv, NEW e \in Entities, OpenEntity(e)
  PROVE  AmpInv'
<1> DEFINE p == [Opened(self, e) EXCEPT !.at = "turn"]
           t == self.s + 1
<1>1. Takes(e) /\ UNCHANGED <<doc, status, output>>
  BY DEF OpenEntity, Refers
<1>2. /\ self \in Parser /\ Marks(self) /\ self.at = "text" /\ t \in Nat /\ t <= Len(Text(self))
      /\ e \in Items /\ Written /\ Accounts
  BY <1>1, ReadingNow
<1>3. Written' /\ Size' <= Size + Width(e)
  BY <1>1, <1>2, KeptSize
<1>4. IsOpened(self, e, p)
  BY <1>2, OpenedIs
<1>5. CASE Kind("value") /\ ~IsRoot
  <2> DEFINE o == Opened(self, e)
             q == [o EXCEPT !.at = "done"]
  <2>1. Becomes(q)
    BY <1>5 DEF OpenEntity
  <2>2. o.text = self.text /\ o.account = self.account /\ q.text = o.text /\ q.account = o.account
    <3>1. p.text = self.text /\ p.account = self.account /\ p = [o EXCEPT !.at = "turn"]
      BY <1>4 DEF IsOpened
    <3> HIDE DEF o, p
    <3> QED  BY <3>1
  <2> HIDE DEF q, o
  <2>3. RootTo(Passed(q))
    BY <1>1, <1>2, <2>1, <2>2, RootBecomes
  <2>4. RootTo(After(self, self.s + 1))
    BY <1>5, <2>3 DEF RootTo
  <2> QED  BY <1>1, <1>3, <2>4, TokenRoot
<1>6. CASE ~(Kind("value") /\ ~IsRoot)
  <2>1. Leave(p, t)
    BY <1>6 DEF OpenEntity
  <2> HIDE DEF p
  <2>2. /\ p.text = self.text /\ p.account = self.account /\ p.pos = self.pos /\ p.cur = self.cur /\ p.s = self.s
        /\ p.at = "turn" /\ p.processed = [self.processed EXCEPT ![e] = 0]
        /\ p.open = <<[entity |-> e, level |-> self.level]>> \o self.open
        /\ p.open \in Seq(OpenedEntity) => p \in Parser
    BY <1>4 DEF IsOpened
  <2>3. self.open \in Seq(OpenedEntity) /\ self.level \in Nat /\ self.processed \in [Entities -> Nat]
    BY <1>2, Fields
  <2>4. p.open \in Seq(OpenedEntity)
    <3> DEFINE o == [entity |-> e, level |-> self.level]
    <3>1. o \in OpenedEntity
      BY <2>3 DEF OpenedEntity
    <3> HIDE DEF o
    <3>2. <<o>> \o self.open \in Seq(OpenedEntity)
      BY <2>3, <3>1
    <3> QED  BY <2>2, <3>2 DEF o
  <2>5. Text(p) = Text(self) /\ Marks(p)
    <3>1. Text(p) = Text(self)
      BY <2>2 DEF Text
    <3>2. \A f \in Entities : Len(doc.decl[f].text) \in Nat
      BY Now DEF IsDocument
    <3> QED  BY <1>2, <2>2, <2>3, <3>1, <3>2 DEF Marks
  <2>6. Similar(p)
    BY <2>2, <2>4, <2>5 DEF Similar
  <2>7. RootTo(After(p, t))
    BY <1>1, <1>2, <2>1, <2>2, <2>5, <2>6, LeaveRoot
  <2>8. After(p, t) = After(self, self.s + 1)
    BY <2>2 DEF After
  <2> QED  BY <1>1, <1>3, <2>7, <2>8, TokenRoot
<1> QED  BY <1>5, <1>6

(* An external entity gets a parser, none of whose text is direct.         *)
LEMMA ReadExternalAmp ==
  ASSUME EntityInv, AmpInv, NEW e \in Entities, ReadExternal(e)
  PROVE  AmpInv'
<1> DEFINE n == Len(parsers)
           w == [self EXCEPT !.at = "external"]
           c == Child(e)
           ps == With(w)
           qs == Append(ps, c)
<1>1. Takes(e) /\ UNCHANGED <<doc, status, output, cause>>
  BY DEF ReadExternal, Refers
<1>2. /\ self \in Parser /\ Marks(self) /\ self.at = "text" /\ e \in Items /\ Written /\ Accounts
  BY <1>1, ReadingNow
<1>3. Written' /\ Size' <= Size + Width(e)
  BY <1>1, <1>2, KeptSize
<1>4. n \in Nat /\ n > 0 /\ DOMAIN parsers = 1..n /\ (IsRoot <=> n = 1) /\ parsers \in Seq(Parser) /\ self = parsers[n]
  BY RootIs, Now DEF IsRoot, Chain, self, Last
<1>5. parsers' = qs
  <2>1. parsers' = Append([parsers EXCEPT ![n].at = "external"], c)
    BY DEF ReadExternal
  <2>2. [parsers EXCEPT ![n].at = "external"] = ps
    BY <1>4 DEF With
  <2> QED  BY <2>1, <2>2
<1>6. c.account # "none" /\ c \in Parser
  BY <1>2, Now, ChildIs
<1>7. /\ w \in Parser /\ w.text = self.text /\ w.account = self.account /\ w.pos = self.pos /\ w.at = "external"
      /\ w.cur = self.cur /\ w.s = self.s
  BY <1>2 DEF Parser
<1>8. ps = [parsers EXCEPT ![n] = w]
  BY DEF With
<1> HIDE DEF n, c, w, ps
<1>9. ps \in Seq(Parser) /\ Len(ps) = n /\ \A m \in 1..n : ps[m] = IF m = n THEN w ELSE parsers[m]
  BY <1>4, <1>7, <1>8
<1>10. /\ DOMAIN qs = 1 .. n + 1 /\ qs[n + 1] = c /\ \A m \in 1..n : qs[m] = ps[m]
  BY <1>4, <1>6, <1>9
<1> HIDE DEF qs
<1>11. 1 \in 1..n /\ \A m \in 1 .. n + 1 : m = n + 1 \/ m \in 1..n
  BY <1>4
<1>12. qs[1] = (IF IsRoot THEN w ELSE parsers[1]) /\ (IsRoot => parsers[1] = self)
  BY <1>4, <1>9, <1>10, <1>11
<1>13. \A m \in 1 .. n + 1 : m > 1 => qs[m].account # "none"
  <2> TAKE m \in 1 .. n + 1
  <2> HAVE m > 1
  <2>1. CASE m = n + 1
    BY <1>6, <1>10, <2>1
  <2>2. CASE m \in 1..n
    <3>1. qs[m].account = parsers[m].account
      BY <1>4, <1>7, <1>9, <1>10, <2>2
    <3> QED  BY <1>2, <1>4, <2>2, <3>1 DEF Accounts
  <2> QED  BY <1>11, <2>1, <2>2
<1>14. Accounts'
  BY <1>1, <1>2, <1>5, <1>7, <1>10, <1>12, <1>13 DEF Accounts
<1>15. Passed(parsers[1])' = IF IsRoot THEN After(self, self.s + 1) ELSE Passed(parsers[1])
  <2>1. Passed(parsers[1])' = Passed(qs[1])
    BY <1>5 DEF Passed
  <2>2. Passed(w) = After(self, self.s + 1)
    BY <1>7 DEF Passed, After
  <2> QED  BY <1>12, <2>1, <2>2
<1>16. RootTo(After(self, self.s + 1))
  BY <1>14, <1>15 DEF RootTo
<1> QED  BY <1>1, <1>3, <1>16, TokenRoot

(* A step that changes nothing.                                            *)
LEMMA AmpStutters ==
  ASSUME EntityInv, AmpInv, UNCHANGED vars
  PROVE  AmpInv'
<1>1. /\ doc' = doc /\ parsers' = parsers /\ output' = output /\ direct' = direct /\ indirect' = indirect
      /\ cause' = cause
  BY DEF vars
<1>2. Written' /\ Size' = Size /\ Size \in Nat
  BY <1>1, OutputKept, SizeIs DEF AmpInv
<1>3. Accounts'
  BY <1>1 DEF AmpInv, Accounts
<1>4. (Live' <=> Live) /\ Passed(parsers[1])' = Passed(parsers[1]) /\ (Alone' <=> Alone)
  BY <1>1 DEF Live, Passed, Alone
<1>5. Quiet
  BY <1>1, <1>2, <1>3, <1>4 DEF Quiet
<1> QED  BY <1>5, QuietKeeps

(* Nothing is out and nothing is read at first.                            *)
LEMMA AmpStarts ==
  ASSUME Init, Accounted
  PROVE  AmpInv
<1> DEFINE p == Fresh(doc.text, doc.account, 1)
           none == [f \in Entities |-> 0]
<1>1. doc \in Documents /\ parsers = <<p>> /\ output = <<>> /\ direct = doc.before /\ indirect = 0
  BY DEF Init
<1>2. IsDocument(doc) /\ EntityInv
  BY <1>1, EntityStarts, EntityAssumption DEF EntityAssumption
<1>3. p.text = doc.text /\ p.account = doc.account /\ p.pos = 0 /\ p.open = <<>> /\ p.at = "turn"
  BY DEF Fresh
<1> HIDE DEF p
<1>4. parsers[1] = p /\ Len(parsers) = 1 /\ DOMAIN parsers = {1}
  BY <1>1
<1>5. Accounts /\ Passed(p) = 0 /\ Alone
  BY <1>3, <1>4 DEF Accounts, Passed, Alone
<1>6. Written /\ Size = 0
  <2>1. output \in Seq(Items) /\ output \in Seq(Items \cup {"skipped"}) /\ Len(output) = 0
    BY <1>1
  <2> QED  BY <1>1, <2>1, NoBytes DEF Written, Size
<1>7. /\ Wide(doc.text) /\ doc.before \in Nat /\ (IsOwn <=> doc.account # "none") /\ Bytes(doc.text) \in Nat
      /\ Own \in Nat /\ Own = doc.before + IF IsOwn THEN Bytes(doc.text) ELSE 0
  BY <1>2, DocumentIs
<1> DEFINE z == 0
<1>8. Sums(doc.text)[z] = 0
  BY <1>7, SumsGrow DEF Grows
<1> HIDE DEF z
<1>9. Rest(z) = IF IsOwn THEN 0 ELSE Bytes(doc.text)
  BY <1>7, <1>8 DEF Rest
<1>10. Rest(z) \in Nat /\ Rest(z) <= doc.before /\ Rest(z) <= Own
  BY <1>7, <1>9 DEF Accounted
<1> DEFINE r == Rest(z)
<1>11. Within(r, Own) /\ Within(0, Own)
  <2> DEFINE zero == 0
             own == Own
             limit == IF own = 0 THEN ShortestInclude ELSE own
  <2>1. limit \in Nat /\ own <= limit /\ r \in Nat /\ own \in Nat /\ r <= limit /\ zero \in Nat /\ zero <= r
    BY <1>7, <1>10 DEF ShortestInclude
  <2> HIDE DEF limit, own, r
  <2>2. limit <= Factor * limit /\ Factor * limit \in Nat
    BY <2>1, Multiples
  <2> DEFINE most == Factor * limit
  <2> HIDE DEF most
  <2>3. r <= most
    BY <2>1, <2>2 DEF most
  <2>4. Within(r, own)
    BY <2>3 DEF Within, most, limit
  <2> HIDE DEF zero
  <2>5. Within(zero, own)
    BY <2>1, <2>4, WithinLess
  <2> QED  BY <2>4, <2>5 DEF own, zero
<1> HIDE DEF r
<1>12. Balance(z)
  <2>1. Size + Rest(z) = r
    BY <1>6, <1>10 DEF r
  <2>2. direct = doc.before + IF IsOwn THEN Sums(doc.text)[z] ELSE 0
    BY <1>1, <1>7, <1>8
  <2>3. Size + Rest(z) <= direct + indirect
    BY <1>1, <1>7, <1>10, <2>1 DEF r
  <2> QED  BY <1>5, <1>11, <2>1, <2>2, <2>3 DEF Balance
<1> QED  BY <1>4, <1>5, <1>6, <1>11, <1>12 DEF AmpInv, z

(* What is read without being counted, the value of an attribute whose tag *)
(* has been counted or of a declaration, has been counted before.          *)
OwnTextAccounted == \A d \in Documents : d.account = "none" => Bytes(d.text) <= d.before

(* AmplificationBounded: whatever entities are declared and however they   *)
(* refer to one another, what the handlers get or the value that is stored *)
(* is no more than the multiple of the document's own bytes that           *)
(* accountingDiffTolerated allows, or below the threshold.  The invariant  *)
(* relates what is out to the two counters, at every token.                *)
THEOREM AmplificationBoundedHolds ==
  ASSUME NothingLost, OwnTextAccounted
  PROVE  Spec => []AmplificationBounded
<1>1. Init => AmpInv
  <2> SUFFICES ASSUME Init PROVE AmpInv
    OBVIOUS
  <2>1. Accounted
    BY DEF Init, OwnTextAccounted, Accounted
  <2> QED  BY <2>1, AmpStarts
<1>2. EntityInv /\ AmpInv /\ [Next]_vars => AmpInv'
  <2> SUFFICES ASSUME EntityInv, AmpInv, [Next]_vars PROVE AmpInv'
    OBVIOUS
  <2>1. CASE ReadOwn \/ ReadEntity \/ CloseEntity \/ TextEnds
    BY <2>1, ReadOwnAmp, ReadEntityAmp, CloseEntityAmp, TextEndsAmp
  <2>2. CASE NoToken \/ TooMuch \/ ContentToken \/ ValueToken \/ BadReference
    BY <2>2, RefusedAmp, ContentTokenAmp, ValueTokenAmp
  <2>3. CASE \E e \in Entities : Reference(e)
    BY <2>3, SkipInContentAmp, SkipInValueAmp, OpenEntityAmp, ReadExternalAmp DEF Reference
  <2>4. CASE ExternalEnds \/ AfterExternal \/ Resume
    BY <2>4, ExternalEndsAmp, AfterExternalAmp, ResumeAmp
  <2>5. CASE UNCHANGED vars
    BY <2>5, AmpStutters
  <2> QED  BY <2>1, <2>2, <2>3, <2>4, <2>5 DEF Next, Parsing
<1>3. AmpInv => AmplificationBounded
  <2> SUFFICES ASSUME AmpInv PROVE AmplificationBounded
    OBVIOUS
  <2>1. Within(Size, Own)
    BY DEF AmpInv
  <2> QED  BY <2>1 DEF Within, Size, Own, AmplificationBounded
<1>4. Spec => []EntityInv
  BY EntityInvHolds
<1> QED  BY <1>1, <1>2, <1>3, <1>4, PTL DEF Spec


-----------------------------------------------------------------------------
(* The entities a text leads to, for a document d.                         *)
Follows(d, e) ==
  CASE d.decl[e].is = "internal" -> d.kind = "content" => d.expand
    [] d.decl[e].is = "external" -> d.handler
    [] OTHER -> d.decl[e].is = "declared"
NamedIn(d, text) == {e \in ToSet(text) \cap Entities : Follows(d, e)}
Led(d, S) == S \cup UNION {NamedIn(d, d.decl[e].text) : e \in S}
Layer(d, g, text, i) == IF i = 0 THEN NamedIn(d, text) ELSE Led(d, g[i - 1])
IsLayers(d, g, text, n) == g = [i \in 0..n |-> Layer(d, g, text, i)]
Layers(d, text) == CHOOSE g : IsLayers(d, g, text, Cardinality(Entities))
ReachedIn(d, text) == Layers(d, text)[Cardinality(Entities)]
Recurs(d, e) == d.decl[e].is = "declared" \/ e \in ReachedIn(d, d.decl[e].text)
Sound(d, e) == ~Recurs(d, e) /\ (d.kind = "content" => WellNested(d.decl[e].text))
(* An entity that leads to no recursion, and to no text that is not nested.*)
Good(d, e) == \A x \in {e} \cup ReachedIn(d, d.decl[e].text) : Sound(d, x)

(* There are such functions.                                               *)
LEMMA LayersExist ==
  ASSUME NEW d, NEW text, NEW n \in Nat
  PROVE  \E g : IsLayers(d, g, text, n)
<1> DEFINE T == {k \in Nat : \E g : IsLayers(d, g, text, k)}
<1>1. 0 \in T
  <2> DEFINE h == [i \in 0..0 |-> NamedIn(d, text)]
  <2>1. \A i \in 0..0 : i = 0
    OBVIOUS
  <2>2. \A i \in 0..0 : Layer(d, h, text, i) = NamedIn(d, text)
    BY <2>1 DEF Layer
  <2>3. IsLayers(d, h, text, 0)
    BY <2>2 DEF IsLayers
  <2> HIDE DEF h
  <2> QED  BY <2>3
<1>2. ASSUME NEW k \in Nat, k \in T PROVE k + 1 \in T
  <2>1. PICK g : IsLayers(d, g, text, k)
    BY <1>2
  <2> DEFINE h == [i \in 0 .. k + 1 |-> IF i = k + 1 THEN Led(d, g[k]) ELSE g[i]]
  <2>2. ASSUME NEW i \in 0 .. k + 1 PROVE h[i] = Layer(d, h, text, i)
    <3>1. CASE i = 0
      BY <2>1, <3>1 DEF IsLayers, Layer
    <3>2. CASE i \in 1..k
      <4>1. h[i] = g[i] /\ h[i - 1] = g[i - 1] /\ i \in 0..k
        BY <3>2
      <4>2. g[i] = Layer(d, g, text, i)
        BY <2>1, <4>1 DEF IsLayers
      <4> HIDE DEF h
      <4> QED  BY <4>1, <4>2 DEF Layer
    <3>3. CASE i = k + 1
      <4>1. h[i] = Led(d, g[k]) /\ h[i - 1] = g[k] /\ i # 0
        BY <3>3
      <4> HIDE DEF h
      <4> QED  BY <4>1 DEF Layer
    <3> QED  BY <3>1, <3>2, <3>3
  <2>3. h = [i \in 0 .. k + 1 |-> h[i]]
    OBVIOUS
  <2> HIDE DEF h
  <2>4. IsLayers(d, h, text, k + 1)
    BY <2>2, <2>3 DEF IsLayers
  <2> QED  BY <2>4
<1> HIDE DEF T
<1>3. Nat \subseteq T
  BY <1>1, <1>2, Induct
<1> QED  BY <1>3 DEF T

(* The layers, one from the other.                                         *)
LEMMA LayersAre ==
  ASSUME NEW d, NEW text, NEW n, n = Cardinality(Entities), NEW g, g = Layers(d, text)
  PROVE  /\ n \in Nat /\ g[0] = NamedIn(d, text) /\ \A i \in 0 .. n - 1 : g[i + 1] = Led(d, g[i])
         /\ ReachedIn(d, text) = g[n]
<1>1. IsFiniteSet(Entities) /\ n \in Nat
  <2>1. IsFiniteSet(Entities)
    BY EntityAssumption DEF EntityAssumption
  <2> QED  BY <2>1, FS_CardinalityType
<1>2. IsLayers(d, g, text, n)
  BY <1>1, LayersExist DEF Layers
<1>3. \A i \in 0..n : g[i] = Layer(d, g, text, i)
  BY <1>1, <1>2 DEF IsLayers
<1>4. g[0] = NamedIn(d, text)
  BY <1>1, <1>3 DEF Layer
<1>5. ASSUME NEW i \in 0 .. n - 1 PROVE g[i + 1] = Led(d, g[i])
  <2>1. i + 1 \in 0..n /\ i + 1 # 0 /\ i + 1 - 1 = i
    BY <1>1
  <2>2. g[i + 1] = Layer(d, g, text, i + 1)
    BY <1>3, <2>1
  <2> QED  BY <2>1, <2>2 DEF Layer
<1> QED  BY <1>1, <1>4, <1>5 DEF ReachedIn

(* A set that has what the text names and what its entities lead to has    *)
(* all that is reached.                                                    *)
LEMMA ReachedLeast ==
  ASSUME NEW d, NEW text, NEW S, NamedIn(d, text) \subseteq S,
         \A e \in S : NamedIn(d, d.decl[e].text) \subseteq S
  PROVE  ReachedIn(d, text) \subseteq S
<1> DEFINE n == Cardinality(Entities)
           g == Layers(d, text)
<1>1. /\ n \in Nat /\ g[0] = NamedIn(d, text) /\ \A i \in 0 .. n - 1 : g[i + 1] = Led(d, g[i])
      /\ ReachedIn(d, text) = g[n]
  BY LayersAre
<1> HIDE DEF n, g
<1> DEFINE T == {k \in Nat : k <= n => g[k] \subseteq S}
<1>2. 0 \in T
  BY <1>1
<1>3. ASSUME NEW k \in Nat, k \in T PROVE k + 1 \in T
  <2> SUFFICES ASSUME k + 1 <= n PROVE g[k + 1] \subseteq S
    BY <1>1
  <2>1. k \in 0 .. n - 1 /\ g[k] \subseteq S
    BY <1>1, <1>3
  <2>2. g[k + 1] = Led(d, g[k])
    BY <1>1, <2>1
  <2>3. Led(d, g[k]) \subseteq S
    BY <2>1 DEF Led
  <2> QED  BY <2>2, <2>3
<1> HIDE DEF T
<1>4. Nat \subseteq T
  BY <1>2, <1>3, Induct
<1>5. n \in T
  BY <1>1, <1>4
<1> QED  BY <1>1, <1>5 DEF T

(* What is reached is such a set: there are as many layers as entities.    *)
LEMMA ReachedClosed ==
  ASSUME NEW d, NEW text, NEW R, R = ReachedIn(d, text)
  PROVE  /\ NamedIn(d, text) \subseteq R /\ R \subseteq Entities
         /\ \A e \in R : NamedIn(d, d.decl[e].text) \subseteq R
<1> DEFINE n == Cardinality(Entities)
           g == Layers(d, text)
<1>1. n \in Nat /\ g[0] = NamedIn(d, text) /\ (\A i \in 0 .. n - 1 : g[i + 1] = Led(d, g[i])) /\ R = g[n]
  BY LayersAre
<1>2. IsFiniteSet(Entities)
  BY EntityAssumption DEF EntityAssumption
<1> HIDE DEF g
<1>3. \A t : NamedIn(d, t) \subseteq Entities
  BY DEF NamedIn
<1> DEFINE Full(S) == Led(d, S) = S
           T == {k \in Nat : k <= n => /\ g[0] \subseteq g[k] /\ g[k] \subseteq Entities
                                       /\ Full(g[k]) \/ k <= Cardinality(g[k])}
<1>4. 0 \in T
  <2>1. IsFiniteSet(g[0])
    BY <1>1, <1>2, <1>3, FS_Subset
  <2>2. Cardinality(g[0]) \in Nat
    BY <2>1, FS_CardinalityType
  <2> HIDE DEF Full, n
  <2> QED  BY <1>1, <1>3, <2>2
<1>5. ASSUME NEW k \in Nat, k \in T PROVE k + 1 \in T
  <2> SUFFICES ASSUME k + 1 <= n
               PROVE  /\ g[0] \subseteq g[k + 1] /\ g[k + 1] \subseteq Entities
                      /\ Full(g[k + 1]) \/ k + 1 <= Cardinality(g[k + 1])
    BY <1>1
  <2>1. /\ k \in 0 .. n - 1 /\ g[0] \subseteq g[k] /\ g[k] \subseteq Entities
        /\ Full(g[k]) \/ k <= Cardinality(g[k])
    BY <1>1, <1>5
  <2>2. g[k + 1] = Led(d, g[k])
    BY <1>1, <2>1
  <2> DEFINE x == g[k]
             y == g[k + 1]
  <2>3. x \subseteq y /\ y \subseteq Entities
    BY <1>3, <2>1, <2>2 DEF Led
  <2>4. CASE Full(x)
    BY <2>1, <2>2, <2>3, <2>4
  <2>5. CASE ~Full(x)
    <3>1. k <= Cardinality(x) /\ x # y
      BY <2>1, <2>2, <2>5
    <3>2. IsFiniteSet(y) /\ IsFiniteSet(x)
      BY <1>2, <2>1, <2>3, FS_Subset
    <3>3. Cardinality(x) < Cardinality(y)
      BY <2>3, <3>1, <3>2, FS_Subset, FS_CardinalityType
    <3>4. Cardinality(x) \in Nat /\ Cardinality(y) \in Nat
      BY <3>2, FS_CardinalityType
    <3>5. k + 1 <= Cardinality(y)
      BY <3>1, <3>3, <3>4
    <3> QED  BY <2>1, <2>3, <3>5
  <2> QED  BY <2>4, <2>5
<1> HIDE DEF T
<1>6. Nat \subseteq T
  BY <1>4, <1>5, Induct
<1>7. g[0] \subseteq R /\ R \subseteq Entities /\ (Full(R) \/ n <= Cardinality(R))
  <2>1. n \in T
    BY <1>1, <1>6
  <2> HIDE DEF Full, n
  <2> QED  BY <1>1, <2>1 DEF T
<1>8. Full(R)
  <2>1. CASE n <= Cardinality(R)
    <3>1. R = Entities
      <4>1. IsFiniteSet(R) /\ Cardinality(R) \in Nat /\ (R # Entities => Cardinality(R) < n)
        BY <1>2, <1>7, FS_Subset, FS_CardinalityType
      <4> QED  BY <1>1, <2>1, <4>1
    <3> QED  BY <1>3, <3>1 DEF Led
  <2> QED  BY <1>7, <2>1
<1> QED  BY <1>1, <1>7, <1>8 DEF Led

(* What XmlEntity says of its document.                                    *)
LEMMA InDocument ==
  /\ \A e : Followed(e) <=> Follows(doc, e)
  /\ \A text : Named(text) = NamedIn(doc, text)
  /\ \A text : Reached(text) = ReachedIn(doc, text)
  /\ \A e : IsRecursive(e) <=> Recurs(doc, e)
<1>1. ASSUME NEW e PROVE Followed(e) <=> Follows(doc, e)
  BY DEF Followed, Follows, Kind
<1>2. ASSUME NEW text PROVE Named(text) = NamedIn(doc, text)
  BY <1>1 DEF Named, NamedIn
<1>3. ASSUME NEW text PROVE Reached(text) = ReachedIn(doc, text)
  <2> DEFINE n == Cardinality(Entities)
             F(g) == [i \in 0..n |-> IF i = 0 THEN Named(text)
                                     ELSE g[i - 1] \cup UNION {Named(doc.decl[e].text) : e \in g[i - 1]}]
  <2>1. ASSUME NEW g PROVE F(g) = [i \in 0..n |-> Layer(doc, g, text, i)]
    <3>1. ASSUME NEW S PROVE {Named(doc.decl[e].text) : e \in S} = {NamedIn(doc, doc.decl[e].text) : e \in S}
      BY <1>2
    <3>2. ASSUME NEW i PROVE UNION {Named(doc.decl[e].text) : e \in g[i - 1]}
                             = UNION {NamedIn(doc, doc.decl[e].text) : e \in g[i - 1]}
      BY <3>1
    <3> QED  BY <1>2, <3>2 DEF Layer, Led
  <2> HIDE DEF F
  <2>2. ASSUME NEW g PROVE g = F(g) <=> IsLayers(doc, g, text, n)
    BY <2>1 DEF IsLayers
  <2>3. (CHOOSE g : g = F(g)) = (CHOOSE g : IsLayers(doc, g, text, n))
    BY <2>2
  <2>4. Reached(text) = (CHOOSE g : g = F(g))[n]
    BY DEF Reached, F
  <2> QED  BY <2>3, <2>4 DEF ReachedIn, Layers
<1>4. ASSUME NEW e PROVE IsRecursive(e) <=> Recurs(doc, e)
  BY <1>3 DEF IsRecursive, Recurs
<1> QED  BY <1>1, <1>2, <1>3, <1>4

(* What an entity leads to is led to by what leads to the entity.          *)
LEMMA ReachedThrough ==
  ASSUME NEW d, NEW text, NEW e, e \in ReachedIn(d, text)
  PROVE  ReachedIn(d, d.decl[e].text) \subseteq ReachedIn(d, text)
BY ReachedClosed, ReachedLeast

(* A reference that is reached is one of a text, or one it leads to.       *)
LEMMA ReachedFrom ==
  ASSUME NEW d, NEW text, NEW x, x \in ReachedIn(d, text)
  PROVE  \E e \in NamedIn(d, text) : x = e \/ x \in ReachedIn(d, d.decl[e].text)
<1> DEFINE S == {y \in Entities : \E e \in NamedIn(d, text) : y = e \/ y \in ReachedIn(d, d.decl[e].text)}
<1>1. NamedIn(d, text) \subseteq S
  BY DEF NamedIn
<1>2. ASSUME NEW y \in S PROVE NamedIn(d, d.decl[y].text) \subseteq S
  <2>1. PICK e \in NamedIn(d, text) : y = e \/ y \in ReachedIn(d, d.decl[e].text)
    OBVIOUS
  <2>2. /\ NamedIn(d, d.decl[e].text) \subseteq ReachedIn(d, d.decl[e].text)
        /\ ReachedIn(d, d.decl[e].text) \subseteq Entities
        /\ y \in ReachedIn(d, d.decl[e].text) => NamedIn(d, d.decl[y].text) \subseteq ReachedIn(d, d.decl[e].text)
    BY ReachedClosed
  <2> QED  BY <2>1, <2>2
<1> HIDE DEF S
<1>3. x \in S
  BY <1>1, <1>2, ReachedLeast
<1> QED  BY <1>3 DEF S

(* Only what is followed is reached.                                       *)
LEMMA ReachedFollowed ==
  ASSUME NEW d, NEW text, NEW x, x \in ReachedIn(d, text)
  PROVE  x \in Entities /\ Follows(d, x)
<1> DEFINE S == {e \in Entities : Follows(d, e)}
<1>1. \A t : NamedIn(d, t) \subseteq S
  BY DEF NamedIn
<1> HIDE DEF S
<1>2. x \in S
  BY <1>1, ReachedLeast
<1> QED  BY <1>2 DEF S

(* All that is reached from a text whose references are good is sound.     *)
LEMMA GoodText ==
  ASSUME NEW d, NEW text, \A e \in NamedIn(d, text) : Good(d, e), NEW x \in ReachedIn(d, text)
  PROVE  Sound(d, x)
<1>1. PICK e \in NamedIn(d, text) : x = e \/ x \in ReachedIn(d, d.decl[e].text)
  BY ReachedFrom
<1> QED  BY <1>1 DEF Good

(* An entity whose references are good is good itself: it leads to itself  *)
(* only if one of them does.                                               *)
LEMMA GoodFrom ==
  ASSUME NEW d, NEW e, d.decl[e].is # "declared", d.kind = "content" => WellNested(d.decl[e].text),
         \A x \in NamedIn(d, d.decl[e].text) : Good(d, x)
  PROVE  Good(d, e)
<1>1. \A x \in ReachedIn(d, d.decl[e].text) : Sound(d, x)
  BY GoodText
<1>2. e \notin ReachedIn(d, d.decl[e].text)
  BY <1>1 DEF Sound, Recurs
<1>3. Sound(d, e)
  BY <1>2 DEF Sound, Recurs
<1> QED  BY <1>1, <1>3 DEF Good

-----------------------------------------------------------------------------
(* How many of the first k tokens of a text are an item.                   *)
Count(item, text, k) == Occurrences(item, SubSeq(text, 1, k))

(* They are counted one by one.                                            *)
LEMMA CountStep ==
  ASSUME NEW text \in Seq(Items), NEW item
  PROVE  /\ Count(item, text, 0) = 0 /\ Count(item, text, Len(text)) = Occurrences(item, text)
         /\ \A k \in 0..Len(text) : Count(item, text, k) \in Nat
         /\ \A k \in 0..Len(text) - 1 :
              Count(item, text, k + 1) = Count(item, text, k) + IF text[k + 1] = item THEN 1 ELSE 0
<1> DEFINE n == Len(text)
           S(k) == {i \in 1..k : text[i] = item}
<1>1. n \in Nat /\ DOMAIN text = 1..n
  OBVIOUS
<1>2. ASSUME NEW k \in 0..n PROVE Count(item, text, k) = Cardinality(S(k))
  <2> DEFINE u == SubSeq(text, 1, k)
  <2>1. DOMAIN u = 1..k /\ \A i \in 1..k : u[i] = text[i]
    BY <1>1
  <2> HIDE DEF u
  <2>2. {i \in DOMAIN u : u[i] = item} = S(k)
    BY <2>1
  <2> QED  BY <2>2 DEF Count, Occurrences, u
<1>3. ASSUME NEW k \in 0..n PROVE IsFiniteSet(S(k)) /\ Cardinality(S(k)) \in Nat
  <2>1. IsFiniteSet(1..k)
    BY FS_Interval
  <2> QED  BY <2>1, FS_Subset, FS_CardinalityType
<1>4. Cardinality(S(0)) = 0
  <2>1. S(0) = {}
    OBVIOUS
  <2> QED  BY <2>1, FS_EmptySet
<1>5. ASSUME NEW k \in 0 .. n - 1
      PROVE  Cardinality(S(k + 1)) = Cardinality(S(k)) + IF text[k + 1] = item THEN 1 ELSE 0
  <2>1. IsFiniteSet(S(k)) /\ Cardinality(S(k)) \in Nat /\ k + 1 \notin S(k)
    BY <1>1, <1>3
  <2>2. CASE text[k + 1] = item
    <3>1. S(k + 1) = S(k) \cup {k + 1}
      BY <1>1, <2>2
    <3> HIDE DEF S
    <3> QED  BY <2>1, <2>2, <3>1, FS_AddElement
  <2>3. CASE text[k + 1] # item
    <3>1. S(k + 1) = S(k)
      BY <1>1, <2>3
    <3> HIDE DEF S
    <3> QED  BY <2>1, <2>3, <3>1
  <2> QED  BY <2>2, <2>3
<1>6. Cardinality(S(n)) = Occurrences(item, text)
  BY <1>1 DEF Occurrences
<1> HIDE DEF S
<1> QED  BY <1>1, <1>2, <1>3, <1>4, <1>5, <1>6

-----------------------------------------------------------------------------
(* The texts a parser is in: those of its list and, last, its own.         *)
TextAt(d, p, i) == IF i = Len(p.open) + 1 THEN p.text ELSE d.decl[p.open[i].entity].text
(* How much of one has been taken, the entity that is read in its place,   *)
(* and the levels of tags it has come to and began at.                     *)
TakenAt(d, p, i) ==
  IF i = 1 /\ p.at = "text" THEN p.s
  ELSE IF i = 1 /\ p.at \in {"external", "back"} THEN p.s + 1
  ELSE IF i = Len(p.open) + 1 THEN p.pos
  ELSE IF p.open[i].entity \in p.more THEN p.processed[p.open[i].entity]
  ELSE Len(TextAt(d, p, i))
AboveAt(d, p, i) ==
  IF i > 1 THEN {p.open[i - 1].entity} ELSE IF p.at = "external" THEN {TextAt(d, p, 1)[p.s + 1]} ELSE {}
BeganAt(p, i) == IF i = Len(p.open) + 1 THEN 1 ELSE p.open[i].level
LevelAt(p, i) == IF i = 1 THEN p.level ELSE p.open[i - 1].level
EndedAt(p, i) == i <= Len(p.open) /\ p.open[i].entity \notin p.more
Around(p, B, i) == B \cup {p.open[j].entity : j \in i .. Len(p.open)}

(* What a text leads to is led to by the entities that are open around it. *)
LedTo(d, text, S) ==
  /\ NamedIn(d, text) \subseteq ReachedIn(d, d.text)
  /\ \A a \in S : NamedIn(d, text) \subseteq ReachedIn(d, d.decl[a].text)
Through(d, text, k, S) ==
  \A j \in 1..k : text[j] \in Entities /\ Follows(d, text[j]) => Good(d, text[j]) \/ text[j] \in S
Nested(text, k) == \A j \in 1..k : Count(")", text, j) <= Count("(", text, j)
Balanced(text, k, level, began) ==
  level + Count(")", text, k) = began + Count("(", text, k) /\ Nested(text, k)
Frame(d, text, around, k, S, level, began, ended) ==
  /\ LedTo(d, text, around)
  /\ Through(d, text, k, S)
  /\ d.kind = "content" => Balanced(text, k, level, began) /\ (ended => level = began)
FrameOK(d, p, B, i) ==
  Frame(d, TextAt(d, p, i), Around(p, B, i), TakenAt(d, p, i), AboveAt(d, p, i), LevelAt(p, i), BeganAt(p, i),
        EndedAt(p, i))

OpenOK(d, S) == \A a \in S : a \in ReachedIn(d, d.text) /\ d.decl[a].is # "declared"
ReadOut(d, text) == (\A e \in NamedIn(d, text) : Good(d, e)) /\ (d.kind = "content" => WellNested(text))
ReadOK(d, p, B) ==
  /\ OpenOK(d, Around(p, B, 1))
  /\ p.cur # Null => p.cur \in p.more
  /\ p.at # "done" => \A i \in 1 .. Len(p.open) + 1 : FrameOK(d, p, B, i)
  /\ p.at = "done" => ReadOut(d, p.text)

TextOf(d, p) == IF p.cur = Null THEN p.text ELSE d.decl[p.cur].text
BeforeIn(d, ps, n) == IF n = 1 THEN {} ELSE ps[n - 1].isOpen \cup {TextOf(d, ps[n - 1])[ps[n - 1].s + 1]}
Shared(d, ps, n) == n > 1 /\ d.kind = "value" => ps[n].more = ps[n - 1].more /\ ps[n].processed = ps[n - 1].processed
RefusedOK(d, error) ==
  /\ error = "RECURSIVE_ENTITY_REF" => \E e \in ReachedIn(d, d.text) : Recurs(d, e)
  /\ d.kind = "content" /\ error = "ASYNC_ENTITY" => \E e \in ReachedIn(d, d.text) : ~WellNested(d.decl[e].text)
RefInv ==
  /\ doc \in Documents /\ parsers[1].text = doc.text /\ RefusedOK(doc, cause)
  /\ cause = "NONE" =>
       \A n \in DOMAIN parsers : ReadOK(doc, parsers[n], BeforeIn(doc, parsers, n)) /\ Shared(doc, parsers, n)


-----------------------------------------------------------------------------
(* Tags in a text that has begun at a level.                               *)
LEMMA NestStarts ==
  ASSUME NEW text \in Seq(Items), NEW level \in Nat
  PROVE  Balanced(text, 0, level, level)
<1>1. Count(")", text, 0) = 0 /\ Count("(", text, 0) = 0
  BY CountStep
<1> QED  BY <1>1 DEF Balanced, Nested

(* What is known of them after k tokens.                                   *)
LEMMA NestIs ==
  ASSUME NEW text \in Seq(Items), NEW k \in 0..Len(text), NEW level \in Nat, NEW began \in Nat,
         Balanced(text, k, level, began), NEW a, a = Count(")", text, k), NEW b, b = Count("(", text, k)
  PROVE  a \in Nat /\ b \in Nat /\ a <= b /\ level + a = began + b /\ began <= level
<1>1. a \in Nat /\ b \in Nat /\ Len(text) \in Nat
  <2>1. \A j \in 0..Len(text) : Count(")", text, j) \in Nat
    BY CountStep
  <2>2. \A j \in 0..Len(text) : Count("(", text, j) \in Nat
    BY CountStep
  <2> QED  BY <2>1, <2>2
<1>2. a <= b
  <2>1. CASE k = 0
    BY <2>1, CountStep
  <2>2. CASE k \in 1..k
    BY <2>2 DEF Balanced, Nested
  <2> QED  BY <1>1, <2>1, <2>2
<1>3. level + a = began + b
  BY DEF Balanced
<1> QED  BY <1>1, <1>2, <1>3

(* A token more: an end tag is none below the level the text began at.     *)
LEMMA NestStep ==
  ASSUME NEW text \in Seq(Items), NEW k \in 0..Len(text) - 1, NEW level \in Nat, NEW began \in Nat,
         Balanced(text, k, level, began), text[k + 1] = ")" => level # began,
         NEW next, next = IF text[k + 1] = "(" THEN level + 1 ELSE IF text[k + 1] = ")" THEN level - 1 ELSE level
  PROVE  Balanced(text, k + 1, next, began)
<1> DEFINE a == Count(")", text, k)
           b == Count("(", text, k)
           x == Count(")", text, k + 1)
           y == Count("(", text, k + 1)
           item == text[k + 1]
<1>1. k \in Nat /\ k \in 0..Len(text)
  OBVIOUS
<1>2. a \in Nat /\ b \in Nat /\ a <= b /\ level + a = began + b /\ began <= level
  BY <1>1, NestIs
<1>3. x = a + (IF item = ")" THEN 1 ELSE 0) /\ y = b + (IF item = "(" THEN 1 ELSE 0)
  BY CountStep
<1>4. (item = ")" => level # began)
      /\ next = IF item = "(" THEN level + 1 ELSE IF item = ")" THEN level - 1 ELSE level
  OBVIOUS
<1>5. \A j \in 1..k : Count(")", text, j) <= Count("(", text, j)
  BY DEF Balanced, Nested
<1>6. \A j \in 1 .. k + 1 : j \in 1..k \/ j = k + 1
  BY <1>1
<1> HIDE DEF a, b, item
<1>7. x <= y /\ next + x = began + y
  <2>1. CASE item = ")"
    BY <1>2, <1>3, <1>4, <2>1
  <2>2. CASE item = "("
    BY <1>2, <1>3, <1>4, <2>2
  <2>3. CASE item # "(" /\ item # ")"
    BY <1>2, <1>3, <1>4, <2>3
  <2> QED  BY <2>1, <2>2, <2>3
<1> QED  BY <1>5, <1>6, <1>7 DEF Balanced, Nested

(* At its end a text nests if it is at the level it began at.              *)
LEMMA NestEnds ==
  ASSUME NEW text \in Seq(Items), NEW level \in Nat, NEW began \in Nat,
         Balanced(text, Len(text), level, began)
  PROVE  WellNested(text) <=> level = began
<1> DEFINE n == Len(text)
           a == Count(")", text, n)
           b == Count("(", text, n)
<1>1. n \in Nat /\ n \in 0..n /\ DOMAIN text = 1..n
  OBVIOUS
<1>2. a \in Nat /\ b \in Nat /\ level + a = began + b
  BY <1>1, NestIs
<1>3. a = Occurrences(")", text) /\ b = Occurrences("(", text)
  BY CountStep
<1>4. \A j \in 1..n : Count(")", text, j) <= Count("(", text, j)
  BY DEF Balanced, Nested
<1>5. WellNested(text) <=> a = b
  BY <1>1, <1>3, <1>4 DEF WellNested, Count
<1> HIDE DEF a, b
<1> QED  BY <1>2, <1>5

(* An end tag at the level a text began at is one too many.                *)
LEMMA NestBreaks ==
  ASSUME NEW text \in Seq(Items), NEW k \in 0..Len(text) - 1, NEW level \in Nat,
         Balanced(text, k, level, level), text[k + 1] = ")"
  PROVE  ~WellNested(text)
<1> DEFINE a == Count(")", text, k)
           b == Count("(", text, k)
           x == Count(")", text, k + 1)
           y == Count("(", text, k + 1)
<1>1. k \in Nat /\ k \in 0..Len(text) /\ k + 1 \in DOMAIN text
  OBVIOUS
<1>2. a \in Nat /\ b \in Nat /\ level + a = level + b
  BY <1>1, NestIs
<1>3. x = a + 1 /\ y = b
  <2>1. x = a + (IF text[k + 1] = ")" THEN 1 ELSE 0) /\ y = b + (IF text[k + 1] = "(" THEN 1 ELSE 0)
    BY CountStep
  <2>2. b + 0 = b
    BY <1>2
  <2> QED  BY <2>1, <2>2
<1> HIDE DEF a, b
<1>4. ~(x <= y)
  BY <1>2, <1>3
<1> QED  BY <1>1, <1>4 DEF WellNested, Count

(* References that have been gone through.                                 *)
LEMMA ThroughStep ==
  ASSUME NEW d, NEW text, NEW k \in Nat, Through(d, text, k, {}), NEW S,
         text[k + 1] \in Entities /\ Follows(d, text[k + 1]) => Good(d, text[k + 1]) \/ text[k + 1] \in S
  PROVE  Through(d, text, k + 1, S)
<1>1. \A j \in 1 .. k + 1 : j \in 1..k \/ j = k + 1
  OBVIOUS
<1> QED  BY <1>1 DEF Through

(* Those of a whole text.                                                  *)
LEMMA ThroughEnds ==
  ASSUME NEW d, NEW text \in Seq(Items), Through(d, text, Len(text), {})
  PROVE  \A e \in NamedIn(d, text) : Good(d, e)
<1>1. DOMAIN text = 1..Len(text)
  OBVIOUS
<1>2. ASSUME NEW e \in NamedIn(d, text) PROVE Good(d, e)
  <2>1. e \in Entities /\ Follows(d, e) /\ \E j \in 1..Len(text) : e = text[j]
    BY <1>1 DEF NamedIn, ToSet
  <2> QED  BY <2>1 DEF Through
<1> QED  BY <1>2

(* A token of a text.                                                      *)
LEMMA FrameStep ==
  ASSUME NEW d, NEW text \in Seq(Items), NEW around, NEW k \in 0..Len(text) - 1, NEW level \in Nat,
         NEW began \in Nat, Frame(d, text, around, k, {}, level, began, FALSE), NEW S,
         text[k + 1] \in Entities /\ Follows(d, text[k + 1]) => Good(d, text[k + 1]) \/ text[k + 1] \in S,
         d.kind = "content" /\ text[k + 1] = ")" => level # began,
         NEW next,
         d.kind = "content" =>
           next = IF text[k + 1] = "(" THEN level + 1 ELSE IF text[k + 1] = ")" THEN level - 1 ELSE level
  PROVE  Frame(d, text, around, k + 1, S, next, began, FALSE)
<1>1. LedTo(d, text, around) /\ Through(d, text, k, {}) /\ (d.kind = "content" => Balanced(text, k, level, began))
  BY DEF Frame
<1>2. Through(d, text, k + 1, S)
  <2>1. k \in Nat
    OBVIOUS
  <2> QED  BY <1>1, <2>1, ThroughStep
<1>3. d.kind = "content" => Balanced(text, k + 1, next, began)
  BY <1>1, NestStep
<1> QED  BY <1>1, <1>2, <1>3 DEF Frame

(* A text that has been read out, at the level it began at.                *)
LEMMA FrameEnds ==
  ASSUME NEW d, NEW text \in Seq(Items), NEW around, NEW level \in Nat, NEW began \in Nat, NEW ended,
         Frame(d, text, around, Len(text), {}, level, began, ended),
         d.kind = "content" => level = began \/ WellNested(text)
  PROVE  ReadOut(d, text)
<1>1. Through(d, text, Len(text), {}) /\ (d.kind = "content" => Balanced(text, Len(text), level, began))
  BY DEF Frame
<1>2. \A e \in NamedIn(d, text) : Good(d, e)
  BY <1>1, ThroughEnds
<1>3. d.kind = "content" => WellNested(text)
  BY <1>1, NestEnds
<1> QED  BY <1>2, <1>3 DEF ReadOut

(* An entity whose text has been read out is good, where it was waited for.*)
LEMMA ThroughGood ==
  ASSUME NEW d, NEW text, NEW k, NEW e, Through(d, text, k, {e}), Good(d, e)
  PROVE  Through(d, text, k, {})
BY DEF Through

-----------------------------------------------------------------------------
(* What is open before the parser that is reading.                         *)
Bef == BeforeIn(doc, parsers, Len(parsers))

(* What is known of that parser, while nothing has failed.                 *)
LEMMA RefNow ==
  ASSUME EntityInv, RefInv, cause = "NONE"
  PROVE  /\ ReadOK(doc, self, Bef) /\ Shared(doc, parsers, Len(parsers)) /\ doc \in Documents /\ IsDocument(doc)
         /\ self \in Parser /\ self = parsers[Len(parsers)]
         /\ Kind("content") => WellNested(doc.text)
         /\ IsRoot => self.text = doc.text
         /\ self.isOpen = Around(self, Bef, 1)
<1>1. IsDocument(doc) /\ Chain(parsers)
  BY Now
<1> DEFINE n == Len(parsers)
<1>2. /\ n \in Nat /\ n > 0 /\ n \in DOMAIN parsers /\ self = parsers[n] /\ self \in Parser
      /\ self.isOpen = Before(parsers, n) \cup Listed(self)
  BY <1>1, Top
<1>3. Before(parsers, n) = Bef
  BY DEF Before, Bef, BeforeIn, Waits, TextOf, Text
<1> HIDE DEF n
<1>4. ReadOK(doc, self, Bef) /\ Shared(doc, parsers, n) /\ doc \in Documents
  BY <1>2 DEF RefInv, Bef, n
<1>5. Kind("content") => WellNested(doc.text)
  BY <1>4, EntityAssumption DEF EntityAssumption, Kind
<1>6. IsRoot => self.text = doc.text
  BY <1>2 DEF RefInv, IsRoot, n
<1>7. Listed(self) = {self.open[j].entity : j \in 1..Len(self.open)}
  <2>1. DOMAIN self.open = 1..Len(self.open)
    BY <1>2, Fields
  <2> QED  BY <2>1 DEF Listed
<1> QED  BY <1>1, <1>2, <1>3, <1>4, <1>5, <1>6, <1>7 DEF n, Around

(* That parser becomes q.                                                  *)
LEMMA RefTop ==
  ASSUME EntityInv, RefInv, cause = "NONE", UNCHANGED <<doc, cause>>, NEW q, q.text = self.text, Becomes(q),
         ReadOK(doc, q, Bef), Kind("value") /\ ~IsRoot => q.more = self.more /\ q.processed = self.processed
  PROVE  RefInv'
<1> DEFINE n == Len(parsers)
<1>1. n \in Nat /\ n > 0 /\ DOMAIN parsers = 1..n /\ self = parsers[n]
  BY Now, Top
<1>2. parsers' = [parsers EXCEPT ![n] = q] /\ parsers \in Seq(Parser) /\ (IsRoot <=> n = 1)
  BY Now DEF Becomes, Chain, IsRoot
<1> HIDE DEF n
<1>3. DOMAIN parsers' = 1..n /\ \A m \in 1..n : parsers'[m] = IF m = n THEN q ELSE parsers[m]
  BY <1>1, <1>2
<1>4. ASSUME NEW k \in 1..n PROVE BeforeIn(doc, parsers', k) = BeforeIn(doc, parsers, k)
  <2>1. k # 1 => k - 1 \in 1..n /\ k - 1 # n
    BY <1>1
  <2>2. k # 1 => parsers'[k - 1] = parsers[k - 1]
    BY <1>3, <2>1
  <2> QED  BY <2>2 DEF BeforeIn
<1>5. ASSUME NEW k \in 1..n
      PROVE  ReadOK(doc, parsers'[k], BeforeIn(doc, parsers', k)) /\ Shared(doc, parsers', k)
  <2>1. ReadOK(doc, parsers[k], BeforeIn(doc, parsers, k)) /\ Shared(doc, parsers, k)
    BY <1>1, <1>5 DEF RefInv
  <2>2. ReadOK(doc, parsers'[k], BeforeIn(doc, parsers', k))
    <3>1. CASE k = n
      BY <1>3, <1>4, <3>1 DEF Bef, n
    <3>2. CASE k # n
      BY <1>3, <1>4, <2>1, <3>2
    <3> QED  BY <3>1, <3>2
  <2>3. Shared(doc, parsers', k)
    <3> SUFFICES ASSUME k > 1, doc.kind = "value"
                 PROVE  parsers'[k].more = parsers'[k - 1].more /\ parsers'[k].processed = parsers'[k - 1].processed
      BY DEF Shared
    <3>1. k - 1 \in 1..n /\ k - 1 # n /\ n # 1
      BY <1>1
    <3>2. parsers'[k - 1] = parsers[k - 1]
      BY <1>3, <3>1
    <3>3. parsers[k].more = parsers[k - 1].more /\ parsers[k].processed = parsers[k - 1].processed
      BY <2>1 DEF Shared
    <3>4. k = n => parsers'[k].more = parsers[k].more /\ parsers'[k].processed = parsers[k].processed
      BY <1>1, <1>2, <1>3, <3>1 DEF Kind
    <3>5. k # n => parsers'[k] = parsers[k]
      BY <1>3
    <3> QED  BY <3>2, <3>3, <3>4, <3>5
  <2> QED  BY <2>2, <2>3
<1>6. parsers'[1].text = doc.text
  <2>1. 1 \in 1..n /\ parsers[1].text = doc.text
    BY <1>1 DEF RefInv
  <2> QED  BY <1>1, <1>3, <2>1
<1>7. doc \in Documents /\ RefusedOK(doc, cause)
  BY DEF RefInv
<1> QED  BY <1>3, <1>5, <1>6, <1>7 DEF RefInv

(* That parser fails, with an error that there is.                         *)
LEMMA RefFail ==
  ASSUME EntityInv, RefInv, cause = "NONE", UNCHANGED doc, NEW e, e # "NONE", Fail(e), RefusedOK(doc, e)
  PROVE  RefInv'
<1> DEFINE n == Len(parsers)
           q == [self EXCEPT !.error = e, !.at = "done"]
<1>1. n \in Nat /\ n > 0 /\ DOMAIN parsers = 1..n /\ self = parsers[n] /\ self \in Parser
  BY Now, Top
<1>2. parsers' = [parsers EXCEPT ![n] = q] /\ cause' = e
  BY DEF Fail, Becomes
<1>3. q.text = self.text
  BY <1>1 DEF Parser
<1> HIDE DEF n, q
<1>4. parsers'[1].text = doc.text
  <2>1. 1 \in 1..n /\ parsers[1].text = doc.text
    BY <1>1 DEF RefInv
  <2>2. parsers'[1] = IF n = 1 THEN q ELSE parsers[1]
    BY <1>1, <1>2, <2>1
  <2> QED  BY <1>1, <1>3, <2>1, <2>2
<1>5. doc \in Documents
  BY DEF RefInv
<1> QED  BY <1>2, <1>4, <1>5 DEF RefInv

(* Most errors say nothing of recursion or nesting.                        *)
LEMMA OtherErrors ==
  ASSUME NEW d, NEW e, e \notin {"RECURSIVE_ENTITY_REF", "ASYNC_ENTITY"} \/ (e = "ASYNC_ENTITY" /\ d.kind # "content")
  PROVE  RefusedOK(d, e)
BY DEF RefusedOK

-----------------------------------------------------------------------------
(* The text that is read, the first of those the parser is in.             *)
Ready(k, level, S) == Frame(doc, Text(self), Around(self, Bef, 1), k, S, level, BeganAt(self, 1), FALSE)

(* What is known of it.                                                    *)
LEMMA HeadIs ==
  ASSUME EntityInv, RefInv, self.at \in {"text", "back"}
  PROVE  /\ cause = "NONE" /\ TextAt(doc, self, 1) = Text(self) /\ Text(self) \in Seq(Items)
         /\ self.level \in Nat /\ BeganAt(self, 1) \in Nat /\ self.s \in Nat /\ Len(Text(self)) \in Nat
         /\ self.cur = Null => self.open = <<>> /\ BeganAt(self, 1) = 1 /\ Text(self) = self.text
         /\ self.cur # Null => /\ self.open # <<>> /\ self.open[1].entity = self.cur /\ self.cur \in self.more
                               /\ BeganAt(self, 1) = self.open[1].level /\ Text(self) = doc.decl[self.cur].text
                               /\ self.cur \in Around(self, Bef, 1) /\ self.cur \in Entities
         /\ Ready(IF self.at = "text" THEN self.s ELSE self.s + 1, self.level, {})
<1>1. cause = "NONE" /\ self \in Parser /\ ReadsHead(self) /\ IsDocument(doc)
  BY Now
<1>2. ReadOK(doc, self, Bef)
  BY <1>1, RefNow
<1>3. /\ Text(self) \in Seq(Items) /\ self.level \in Nat /\ self.s \in Nat /\ self.open \in Seq(OpenedEntity)
      /\ self.cur \in Entities \cup {Null} /\ Len(Text(self)) \in Nat
  BY <1>1, Fields, Texts
<1>4. CASE self.cur = Null
  <2>1. self.open = <<>> /\ Len(self.open) = 0
    BY <1>1, <1>4 DEF ReadsHead
  <2>2. TextAt(doc, self, 1) = self.text /\ Text(self) = self.text
    BY <1>4, <2>1 DEF TextAt, Text
  <2>3. BeganAt(self, 1) = 1 /\ ~EndedAt(self, 1)
    BY <2>1 DEF BeganAt, EndedAt
  <2>4. LevelAt(self, 1) = self.level /\ AboveAt(doc, self, 1) = {}
        /\ TakenAt(doc, self, 1) = IF self.at = "text" THEN self.s ELSE self.s + 1
    BY DEF LevelAt, AboveAt, TakenAt
  <2>5. FrameOK(doc, self, Bef, 1)
    BY <1>2, <2>1 DEF ReadOK
  <2>6. EndedAt(self, 1) = FALSE
    BY <2>3 DEF EndedAt
  <2>7. Ready(IF self.at = "text" THEN self.s ELSE self.s + 1, self.level, {})
    BY <2>2, <2>4, <2>5, <2>6 DEF Ready, FrameOK
  <2> QED  BY <1>1, <1>3, <1>4, <2>1, <2>2, <2>3, <2>7
<1>5. CASE self.cur # Null
  <2>1. self.open # <<>> /\ self.open[1].entity = self.cur /\ self.cur \in self.more
    BY <1>1, <1>2, <1>5 DEF ReadsHead, ReadOK
  <2>2. Len(self.open) \in Nat /\ Len(self.open) >= 1 /\ 1 # Len(self.open) + 1 /\ self.open[1].level \in Nat
    <3>1. 1 \in 1..Len(self.open) /\ Len(self.open) \in Nat
      BY <1>3, <2>1
    <3>2. self.open[1] \in OpenedEntity
      BY <1>3, <3>1
    <3> QED  BY <3>1, <3>2 DEF OpenedEntity
  <2>3. TextAt(doc, self, 1) = doc.decl[self.cur].text /\ Text(self) = doc.decl[self.cur].text
    BY <1>5, <2>1, <2>2 DEF TextAt, Text
  <2>4. BeganAt(self, 1) = self.open[1].level /\ EndedAt(self, 1) = FALSE
    BY <2>1, <2>2 DEF BeganAt, EndedAt
  <2>5. LevelAt(self, 1) = self.level /\ AboveAt(doc, self, 1) = {}
        /\ TakenAt(doc, self, 1) = IF self.at = "text" THEN self.s ELSE self.s + 1
    BY DEF LevelAt, AboveAt, TakenAt
  <2>6. FrameOK(doc, self, Bef, 1)
    BY <1>2, <2>2 DEF ReadOK
  <2>7. Ready(IF self.at = "text" THEN self.s ELSE self.s + 1, self.level, {})
    BY <2>3, <2>4, <2>5, <2>6 DEF Ready, FrameOK
  <2>8. self.cur \in Around(self, Bef, 1)
    BY <2>1, <2>2 DEF Around
  <2> QED  BY <1>1, <1>3, <1>5, <2>1, <2>2, <2>3, <2>4, <2>7, <2>8
<1> QED  BY <1>4, <1>5

(* A step that keeps the list keeps the texts but for the first.           *)
Keeps(q) ==
  /\ q \in Parser /\ q.open = self.open /\ q.text = self.text /\ (q.pos = self.pos \/ self.open = <<>>)
  /\ \A e \in Entities :
       \/ self.open # <<>> /\ e = self.open[1].entity
       \/ (e \in q.more <=> e \in self.more) /\ q.processed[e] = self.processed[e]

(* What depends on the list only.                                          *)
LEMMA ListIs ==
  ASSUME NEW d, NEW p, NEW q, NEW B, q.open = p.open, q.text = p.text, NEW i
  PROVE  /\ TextAt(d, q, i) = TextAt(d, p, i) /\ Around(q, B, i) = Around(p, B, i) /\ BeganAt(q, i) = BeganAt(p, i)
         /\ i > 1 => AboveAt(d, q, i) = AboveAt(d, p, i)
         /\ i # 1 => LevelAt(q, i) = LevelAt(p, i)
BY DEF TextAt, Around, BeganAt, AboveAt, LevelAt

(* The texts of the other entities stay as they are.                       *)
LEMMA FramesKept ==
  ASSUME OpenOnce(self), self \in Parser, NEW d, NEW B, NEW q, Keeps(q), FrameOK(d, q, B, 1),
         \A i \in 1 .. Len(self.open) + 1 : FrameOK(d, self, B, i)
  PROVE  \A i \in 1 .. Len(q.open) + 1 : FrameOK(d, q, B, i)
<1> DEFINE list == self.open
           n == Len(list)
<1>1. list \in Seq(OpenedEntity) /\ n \in Nat /\ DOMAIN list = 1..n
  BY Fields
<1>2. q.open = list /\ q.text = self.text /\ (q.pos = self.pos \/ list = <<>>)
  BY DEF Keeps
<1>3. ASSUME NEW i \in 2 .. n + 1 PROVE FrameOK(d, q, B, i)
  <2>1. list # <<>> /\ i \in 1 .. n + 1 /\ i # 1 /\ i > 1
    BY <1>1
  <2>2. /\ TextAt(d, q, i) = TextAt(d, self, i) /\ Around(q, B, i) = Around(self, B, i)
        /\ BeganAt(q, i) = BeganAt(self, i) /\ AboveAt(d, q, i) = AboveAt(d, self, i)
        /\ LevelAt(q, i) = LevelAt(self, i)
    BY <1>2, <2>1, ListIs
  <2>3. i # n + 1 => (list[i].entity \in q.more <=> list[i].entity \in self.more)
                     /\ q.processed[list[i].entity] = self.processed[list[i].entity]
    <3> SUFFICES ASSUME i # n + 1 PROVE (list[i].entity \in q.more <=> list[i].entity \in self.more)
                                        /\ q.processed[list[i].entity] = self.processed[list[i].entity]
      OBVIOUS
    <3>1. i \in 1..n /\ 1 \in 1..n
      BY <1>1, <2>1
    <3>2. list[i].entity # list[1].entity
      BY <1>1, <2>1, <3>1 DEF OpenOnce
    <3>3. list[i].entity \in Entities
      <4>1. list[i] \in OpenedEntity
        BY <1>1, <3>1
      <4> QED  BY <4>1 DEF OpenedEntity
    <3> QED  BY <3>2, <3>3 DEF Keeps
  <2>4. TakenAt(d, q, i) = TakenAt(d, self, i)
    BY <1>2, <2>1, <2>2, <2>3 DEF TakenAt
  <2>5. EndedAt(q, i) = EndedAt(self, i)
    <3>1. i <= n <=> i # n + 1
      BY <1>1
    <3>2. EndedAt(q, i) <=> EndedAt(self, i)
      BY <1>2, <2>3, <3>1 DEF EndedAt
    <3> QED  BY <3>2 DEF EndedAt
  <2>6. FrameOK(d, self, B, i)
    BY <2>1
  <2> QED  BY <2>2, <2>4, <2>5, <2>6 DEF FrameOK
<1>4. \A i \in 1 .. n + 1 : i = 1 \/ i \in 2 .. n + 1
  BY <1>1
<1> QED  BY <1>2, <1>3, <1>4

(* A parser that goes on reading, with its list as it is.                  *)
LEMMA RefKeeps ==
  ASSUME EntityInv, RefInv, self.at # "done", UNCHANGED <<doc, cause>>, NEW q, Becomes(q), Keeps(q), q.at # "done",
         q.cur # Null => q.cur \in q.more, FrameOK(doc, q, Bef, 1)
  PROVE  RefInv'
<1>1. /\ cause = "NONE" /\ self \in Parser /\ OpenOnce(self)
      /\ Kind("value") /\ ~IsRoot => self.open = <<>>
  BY Now
<1>2. ReadOK(doc, self, Bef)
  BY <1>1, RefNow
<1>3. q \in Parser /\ q.open = self.open /\ q.text = self.text
  BY DEF Keeps
<1>4. \A i \in 1 .. Len(self.open) + 1 : FrameOK(doc, self, Bef, i)
  BY <1>2 DEF ReadOK
<1>5. \A i \in 1 .. Len(q.open) + 1 : FrameOK(doc, q, Bef, i)
  BY <1>1, <1>4, FramesKept
<1>6. Around(q, Bef, 1) = Around(self, Bef, 1)
  BY <1>3, ListIs
<1>7. ReadOK(doc, q, Bef)
  BY <1>2, <1>5, <1>6 DEF ReadOK
<1>8. Kind("value") /\ ~IsRoot => q.more = self.more /\ q.processed = self.processed
  <2> SUFFICES ASSUME self.open = <<>> PROVE q.more = self.more /\ q.processed = self.processed
    BY <1>1
  <2>1. \A e \in Entities : (e \in q.more <=> e \in self.more) /\ q.processed[e] = self.processed[e]
    BY DEF Keeps
  <2>2. /\ q.more \in SUBSET Entities /\ self.more \in SUBSET Entities
        /\ q.processed \in [Entities -> Nat] /\ self.processed \in [Entities -> Nat]
    BY <1>1, <1>3, Fields
  <2>3. q.more = self.more
    BY <2>1, <2>2
  <2> DEFINE f == q.processed
             g == self.processed
  <2>4. f \in [Entities -> Nat] /\ g \in [Entities -> Nat] /\ \A e \in Entities : f[e] = g[e]
    BY <2>1, <2>2
  <2> HIDE DEF f, g
  <2>5. f = g
    BY <2>4
  <2> QED  BY <2>3, <2>5 DEF f, g
<1> QED  BY <1>1, <1>3, <1>7, <1>8, RefTop

(* A text that is read nests only if it ends at the level it began at.     *)
LEMMA EndsNested ==
  ASSUME EntityInv, RefInv, self.at \in {"text", "back"}, self.cur # Null, Kind("content"), NEW level \in Nat,
         level # self.open[1].level, Ready(Len(Text(self)), level, {})
  PROVE  RefusedOK(doc, "ASYNC_ENTITY")
<1>1. /\ cause = "NONE" /\ Text(self) \in Seq(Items) /\ BeganAt(self, 1) \in Nat
      /\ BeganAt(self, 1) = self.open[1].level /\ Text(self) = doc.decl[self.cur].text
      /\ self.cur \in Around(self, Bef, 1)
  BY HeadIs
<1>2. Balanced(Text(self), Len(Text(self)), level, BeganAt(self, 1))
  BY DEF Ready, Frame, Kind
<1>3. ~WellNested(Text(self))
  BY <1>1, <1>2, NestEnds
<1>4. self.cur \in ReachedIn(doc, doc.text)
  BY <1>1, RefNow DEF ReadOK, OpenOK
<1> QED  BY <1>1, <1>3, <1>4 DEF RefusedOK

(* Alike in all but where it goes on.                                      *)
SameMarks(p) ==
  /\ p \in Parser /\ Marks(p) /\ p.text = self.text /\ p.open = self.open /\ p.pos = self.pos /\ p.more = self.more
  /\ p.processed = self.processed /\ p.cur = self.cur

(* The text is left, for an inner one or for good.                         *)
LEMMA RefLeave ==
  ASSUME EntityInv, RefInv, self.at \in {"text", "back"}, UNCHANGED doc, NEW p, SameMarks(p),
         p.at \in {"turn", "suspended"}, NEW t \in Nat, t <= Len(Text(self)), Ready(t, p.level, {}), Leave(p, t)
  PROVE  RefInv'
<1>1. /\ cause = "NONE" /\ TextAt(doc, self, 1) = Text(self) /\ Text(self) \in Seq(Items)
      /\ self.cur = Null => self.open = <<>>
      /\ self.cur # Null => /\ self.open # <<>> /\ self.open[1].entity = self.cur /\ self.cur \in self.more
                            /\ BeganAt(self, 1) = self.open[1].level /\ self.cur \in Entities
  BY HeadIs
<1>2. /\ p \in Parser /\ Marks(p) /\ p.text = self.text /\ p.open = self.open /\ p.pos = self.pos
      /\ p.more = self.more /\ p.processed = self.processed /\ p.cur = self.cur
  BY DEF SameMarks
<1>3. IsDocument(doc) /\ self \in Parser /\ Marks(self) /\ p.level \in Nat /\ p.s \in Nat
  BY <1>2, Now, Fields
<1>4. Text(p) = Text(self) /\ StartLevel(p) = StartLevel(self)
  BY <1>2 DEF Text, StartLevel
<1>5. CASE EndsAsync(p, t)
  <2>1. Fail("ASYNC_ENTITY")
    BY <1>5 DEF Leave
  <2>2. Kind("content") /\ self.cur # Null /\ t = Len(Text(self)) /\ p.level # self.open[1].level
    BY <1>2, <1>4, <1>5, StartIs DEF EndsAsync
  <2>3. RefusedOK(doc, "ASYNC_ENTITY")
    BY <1>3, <2>2, EndsNested
  <2> QED  BY <1>1, <2>1, <2>3, RefFail
<1>6. CASE ~EndsAsync(p, t)
  <2> DEFINE q == Left(p, t)
             e == self.cur
             n == Len(Text(self))
  <2>1. Becomes(q) /\ UNCHANGED cause
    BY <1>6 DEF Leave
  <2>2. q = Left(p, t)
    OBVIOUS
  <2> HIDE DEF q
  <2>3. /\ q \in Parser /\ q.text = p.text /\ q.level = p.level /\ q.open = p.open /\ q.at = p.at /\ q.cur = Null
        /\ q.pos = (IF p.cur = Null THEN t ELSE p.pos) /\ MarksLeft(p, t, q)
    BY <1>2, <1>3, <1>4, <2>2, LeftIs
  <2>4. /\ q.open = self.open /\ q.text = self.text /\ q.level = p.level /\ q.at \in {"turn", "suspended"}
        /\ q.pos = IF e = Null THEN t ELSE self.pos
        /\ q.more = IF e # Null /\ t = n THEN self.more \ {e} ELSE self.more
        /\ q.processed = IF e # Null /\ t # n THEN [self.processed EXCEPT ![e] = t] ELSE self.processed
    <3>1. /\ q.more = IF p.cur # Null /\ t = Len(Text(p)) THEN p.more \ {p.cur} ELSE p.more
          /\ q.processed = IF p.cur # Null /\ t # Len(Text(p)) THEN [p.processed EXCEPT ![p.cur] = t] ELSE p.processed
      BY <2>3 DEF MarksLeft
    <3> QED  BY <1>2, <1>4, <2>3, <3>1
  <2>5. Keeps(q)
    <3>1. self.processed \in [Entities -> Nat]
      BY <1>3, Fields
    <3>2. \A f \in Entities :
            \/ self.open # <<>> /\ f = self.open[1].entity
            \/ (f \in q.more <=> f \in self.more) /\ q.processed[f] = self.processed[f]
      <4> TAKE f \in Entities
      <4>1. CASE e = Null
        BY <2>4, <4>1
      <4>2. CASE e # Null /\ f # e
        BY <2>4, <3>1, <4>2
      <4>3. CASE e # Null /\ f = e
        BY <1>1, <4>3
      <4> QED  BY <4>1, <4>2, <4>3
    <3>3. q.pos = self.pos \/ self.open = <<>>
      BY <1>1, <2>4
    <3> QED  BY <2>3, <2>4, <3>2, <3>3 DEF Keeps
  <2>6. FrameOK(doc, q, Bef, 1)
    <3>1. /\ TextAt(doc, q, 1) = Text(self) /\ Around(q, Bef, 1) = Around(self, Bef, 1)
          /\ BeganAt(q, 1) = BeganAt(self, 1) /\ LevelAt(q, 1) = p.level /\ AboveAt(doc, q, 1) = {}
      <4>1. /\ TextAt(doc, q, 1) = TextAt(doc, self, 1) /\ Around(q, Bef, 1) = Around(self, Bef, 1)
            /\ BeganAt(q, 1) = BeganAt(self, 1)
        <5>1. q.open = self.open /\ q.text = self.text
          BY <2>4
        <5> QED  BY <5>1, ListIs
      <4>2. LevelAt(q, 1) = p.level
        BY <2>4 DEF LevelAt
      <4>3. AboveAt(doc, q, 1) = {}
        BY <2>4 DEF AboveAt
      <4> QED  BY <1>1, <4>1, <4>2, <4>3
    <3>2. TakenAt(doc, q, 1) = t
      <4>1. CASE e = Null
        <5>1. Len(q.open) = 0
          BY <1>1, <2>4, <4>1
        <5> QED  BY <2>4, <4>1, <5>1 DEF TakenAt
      <4>2. CASE e # Null
        <5>1. q.open[1].entity = e /\ 1 # Len(q.open) + 1 /\ e \in self.more /\ e \in Entities
          <6>1. self.open # <<>> /\ self.open \in Seq(OpenedEntity)
            BY <1>1, <1>3, <4>2, Fields
          <6> QED  BY <1>1, <2>4, <4>2, <6>1
        <5>2. CASE t = n
          <6>1. e \notin q.more
            BY <2>4, <4>2, <5>2
          <6> QED  BY <2>4, <3>1, <5>1, <5>2, <6>1 DEF TakenAt
        <5>3. CASE t # n
          <6>1. e \in q.more /\ q.processed[e] = t
            <7>1. self.processed \in [Entities -> Nat]
              BY <1>3, Fields
            <7> QED  BY <2>4, <4>2, <5>1, <5>3, <7>1
          <6> QED  BY <2>4, <5>1, <6>1 DEF TakenAt
        <5> QED  BY <5>2, <5>3
      <4> QED  BY <4>1, <4>2
    <3>3. Kind("content") /\ EndedAt(q, 1) => p.level = BeganAt(self, 1)
      <4> SUFFICES ASSUME Kind("content"), EndedAt(q, 1) PROVE p.level = BeganAt(self, 1)
        OBVIOUS
      <4>1. 1 <= Len(self.open) /\ self.open[1].entity \notin q.more
        BY <2>4 DEF EndedAt
      <4>2. e # Null
        <5>1. self.open = <<>> => Len(self.open) = 0
          OBVIOUS
        <5> QED  BY <1>1, <4>1, <5>1
      <4>3. t = n
        BY <1>1, <2>4, <4>1, <4>2
      <4> QED  BY <1>1, <1>2, <1>4, <1>6, <4>2, <4>3, StartIs DEF EndsAsync
    <3>4. Frame(doc, Text(self), Around(self, Bef, 1), t, {}, p.level, BeganAt(self, 1), EndedAt(q, 1))
      BY <3>3 DEF Ready, Frame, Kind
    <3> QED  BY <3>1, <3>2, <3>4 DEF FrameOK
  <2>7. self.at # "done" /\ q.at # "done" /\ q.cur = Null
    BY <2>3, <2>4
  <2> QED  BY <2>1, <2>5, <2>6, <2>7, RefKeeps
<1> QED  BY <1>5, <1>6

(* A parser that goes on reading the same text.                            *)
LEMMA RefReads ==
  ASSUME EntityInv, RefInv, self.at \in {"text", "back"}, UNCHANGED <<doc, cause>>, NEW q, Becomes(q), SameMarks(q),
         q.at = "text", Ready(q.s, q.level, {})
  PROVE  RefInv'
<1>1. /\ cause = "NONE" /\ TextAt(doc, self, 1) = Text(self)
      /\ self.cur = Null => self.open = <<>>
      /\ self.cur # Null => self.open # <<>> /\ self.open[1].entity = self.cur /\ self.cur \in self.more
  BY HeadIs
<1>2. /\ q \in Parser /\ q.text = self.text /\ q.open = self.open /\ q.pos = self.pos /\ q.more = self.more
      /\ q.processed = self.processed /\ q.cur = self.cur
  BY DEF SameMarks
<1>3. Keeps(q)
  BY <1>2 DEF Keeps
<1>4. FrameOK(doc, q, Bef, 1)
  <2>1. /\ TextAt(doc, q, 1) = TextAt(doc, self, 1) /\ Around(q, Bef, 1) = Around(self, Bef, 1)
        /\ BeganAt(q, 1) = BeganAt(self, 1)
    BY <1>2, ListIs
  <2>2. LevelAt(q, 1) = q.level /\ AboveAt(doc, q, 1) = {}
    BY DEF LevelAt, AboveAt
  <2>3. TakenAt(doc, q, 1) = q.s
    BY DEF TakenAt
  <2>4. ~EndedAt(q, 1)
    <3>1. self.open = <<>> => Len(self.open) = 0
      OBVIOUS
    <3> QED  BY <1>1, <1>2, <3>1 DEF EndedAt
  <2>5. Frame(doc, Text(self), Around(self, Bef, 1), q.s, {}, q.level, BeganAt(self, 1), EndedAt(q, 1))
    BY <2>4 DEF Ready, Frame
  <2> QED  BY <1>1, <2>1, <2>2, <2>3, <2>5 DEF FrameOK
<1> QED  BY <1>1, <1>2, <1>3, <1>4, RefKeeps

(* The next token, or a stop before it.                                    *)
LEMMA RefGoesOn ==
  ASSUME EntityInv, RefInv, self.at \in {"text", "back"}, UNCHANGED doc, NEW p, SameMarks(p),
         p.s + 1 <= Len(Text(self)), Ready(p.s + 1, p.level, {}), GoesOn(p)
  PROVE  RefInv'
<1> DEFINE t == p.s + 1
<1>1. p \in Parser /\ p.s \in Nat /\ t \in Nat /\ t <= Len(Text(self)) /\ Ready(t, p.level, {})
  BY Fields DEF SameMarks
<1> HIDE DEF t
<1>2. CASE IsRoot /\ status' = "SUSPENDED"
  <2> DEFINE r == [p EXCEPT !.at = "suspended"]
  <2>1. Leave(r, t)
    BY <1>2 DEF GoesOn, t
  <2>2. /\ r \in Parser /\ r.text = p.text /\ r.open = p.open /\ r.pos = p.pos /\ r.more = p.more
        /\ r.processed = p.processed /\ r.cur = p.cur /\ r.at = "suspended" /\ r.level = p.level /\ r.s = p.s
    BY <1>1 DEF Parser
  <2> HIDE DEF r
  <2>3. SameMarks(r)
    BY <2>2 DEF SameMarks, Marks, Text
  <2> QED  BY <1>1, <2>1, <2>2, <2>3, RefLeave
<1>3. CASE ~(IsRoot /\ status' = "SUSPENDED")
  <2> DEFINE q == [p EXCEPT !.at = "text", !.s = t]
  <2>1. Becomes(q) /\ UNCHANGED cause
    <3>1. Becomes([p EXCEPT !.at = "text", !.s = @ + 1]) /\ UNCHANGED cause
      BY <1>3 DEF GoesOn
    <3> QED  BY <1>1, <3>1 DEF t
  <2>2. /\ q \in Parser /\ q.text = p.text /\ q.open = p.open /\ q.pos = p.pos /\ q.more = p.more
        /\ q.processed = p.processed /\ q.cur = p.cur /\ q.at = "text" /\ q.level = p.level /\ q.s = t
    BY <1>1 DEF Parser
  <2> HIDE DEF q
  <2>3. Text(p) = Text(self) /\ Len(p.text) \in Nat
    BY <1>1, Fields DEF SameMarks, Text
  <2>4. SameMarks(q)
    BY <1>1, <2>2, <2>3 DEF SameMarks, Marks, Text
  <2> QED  BY <1>1, <2>1, <2>2, <2>4, RefReads
<1> QED  BY <1>2, <1>3

(* What has been read with the token that is next.                         *)
LEMMA NextReady ==
  ASSUME EntityInv, RefInv, Reading, NEW S,
         Item \in Entities /\ Follows(doc, Item) => Good(doc, Item) \/ Item \in S,
         Kind("content") /\ Item = ")" => self.level # BeganAt(self, 1),
         NEW next,
         Kind("content") => next = IF Item = "(" THEN self.level + 1 ELSE IF Item = ")" THEN self.level - 1 ELSE self.level
  PROVE  self.s + 1 \in Nat /\ self.s + 1 <= Len(Text(self)) /\ Ready(self.s + 1, next, S)
<1> DEFINE text == Text(self)
           k == self.s
           began == BeganAt(self, 1)
           around == Around(self, Bef, 1)
<1>1. self.at = "text" /\ k < Len(text)
  BY DEF Reading
<1>2. /\ text \in Seq(Items) /\ self.level \in Nat /\ began \in Nat /\ k \in Nat /\ Len(text) \in Nat
      /\ Ready(k, self.level, {})
  BY <1>1, HeadIs
<1>3. k \in 0..Len(text) - 1 /\ text[k + 1] = Item
  BY <1>1, <1>2 DEF Item
<1>4. Frame(doc, text, around, k, {}, self.level, began, FALSE)
  BY <1>2 DEF Ready
<1> DEFINE level == self.level
           item == Item
<1>5. /\ item \in Entities /\ Follows(doc, item) => Good(doc, item) \/ item \in S
      /\ doc.kind = "content" /\ item = ")" => level # began
      /\ doc.kind = "content" =>
           next = IF item = "(" THEN level + 1 ELSE IF item = ")" THEN level - 1 ELSE level
      /\ text[k + 1] = item /\ level \in Nat
  BY <1>2, <1>3 DEF Kind
<1> HIDE DEF text, k, began, around, level, item
<1>6. Frame(doc, text, around, k + 1, S, next, began, FALSE)
  <2>1. Frame(doc, text, around, k, {}, level, began, FALSE)
    BY <1>4 DEF level
  <2> QED  BY <1>2, <1>3, <1>5, <2>1, FrameStep
<1>7. k + 1 \in Nat /\ k + 1 <= Len(text)
  BY <1>2, <1>3
<1> QED  BY <1>6, <1>7 DEF Ready, text, k, began, around

-----------------------------------------------------------------------------
(* A text is read on: as much of it has been taken as is marked.           *)
LEMMA ReadOwnRef ==
  ASSUME EntityInv, RefInv, ReadOwn
  PROVE  RefInv'
<1> DEFINE q == [self EXCEPT !.at = "text", !.cur = Null, !.s = self.pos]
<1>1. self \in Parser /\ self.at = "turn" /\ self.open = <<>> /\ cause = "NONE"
  BY Now DEF ReadOwn
<1>2. /\ q \in Parser /\ q.text = self.text /\ q.pos = self.pos /\ q.open = self.open /\ q.more = self.more
      /\ q.processed = self.processed /\ q.level = self.level /\ q.at = "text" /\ q.cur = Null /\ q.s = self.pos
  BY <1>1 DEF Parser
<1>3. Becomes(q) /\ UNCHANGED <<doc, cause>>
  BY DEF ReadOwn
<1> HIDE DEF q
<1>4. Keeps(q)
  BY <1>2 DEF Keeps
<1>5. FrameOK(doc, q, Bef, 1)
  <2>1. /\ TextAt(doc, q, 1) = TextAt(doc, self, 1) /\ Around(q, Bef, 1) = Around(self, Bef, 1)
        /\ BeganAt(q, 1) = BeganAt(self, 1)
    BY <1>2, ListIs
  <2>2. LevelAt(q, 1) = LevelAt(self, 1) /\ AboveAt(doc, q, 1) = {} /\ AboveAt(doc, self, 1) = {}
    BY <1>1, <1>2 DEF LevelAt, AboveAt
  <2>3. Len(self.open) = 0
    BY <1>1
  <2>4. TakenAt(doc, q, 1) = self.pos /\ TakenAt(doc, self, 1) = self.pos
    BY <1>1, <1>2, <2>3 DEF TakenAt
  <2>5. EndedAt(q, 1) = EndedAt(self, 1)
    BY <1>2 DEF EndedAt
  <2>6. FrameOK(doc, self, Bef, 1)
    BY <1>1, <2>3, RefNow DEF ReadOK
  <2> QED  BY <2>1, <2>2, <2>4, <2>5, <2>6 DEF FrameOK
<1> QED  BY <1>1, <1>2, <1>3, <1>4, <1>5, RefKeeps

(* The same for the entity at the head of the list.                        *)
LEMMA ReadEntityRef ==
  ASSUME EntityInv, RefInv, ReadEntity
  PROVE  RefInv'
<1> DEFINE e == Head(self.open).entity
           q == [self EXCEPT !.at = "text", !.cur = e, !.s = self.processed[e]]
<1>1. self \in Parser /\ self.at = "turn" /\ self.open # <<>> /\ cause = "NONE"
  BY Now DEF ReadEntity
<1>2. e \in Entities /\ self.open[1].entity = e /\ self.processed[e] \in Nat /\ 1 # Len(self.open) + 1
      /\ Len(self.open) \in Nat
  <2>1. self.open \in Seq(OpenedEntity) /\ self.processed \in [Entities -> Nat]
    BY <1>1, Fields
  <2>2. Head(self.open) = self.open[1] /\ Head(self.open) \in OpenedEntity /\ Len(self.open) # 0
    BY <1>1, <2>1
  <2> QED  BY <2>1, <2>2 DEF OpenedEntity
<1>3. Becomes(q) /\ UNCHANGED <<doc, cause>> /\ e \in self.more
  BY DEF ReadEntity
<1> HIDE DEF e
<1>4. /\ q \in Parser /\ q.text = self.text /\ q.pos = self.pos /\ q.open = self.open /\ q.more = self.more
      /\ q.processed = self.processed /\ q.level = self.level /\ q.at = "text" /\ q.cur = e
      /\ q.s = self.processed[e]
  BY <1>1, <1>2 DEF Parser
<1> HIDE DEF q
<1>5. Keeps(q)
  BY <1>4 DEF Keeps
<1>6. FrameOK(doc, q, Bef, 1)
  <2>1. /\ TextAt(doc, q, 1) = TextAt(doc, self, 1) /\ Around(q, Bef, 1) = Around(self, Bef, 1)
        /\ BeganAt(q, 1) = BeganAt(self, 1)
    BY <1>4, ListIs
  <2>2. LevelAt(q, 1) = LevelAt(self, 1) /\ AboveAt(doc, q, 1) = {} /\ AboveAt(doc, self, 1) = {}
    BY <1>1, <1>4 DEF LevelAt, AboveAt
  <2>3. TakenAt(doc, q, 1) = self.processed[e] /\ TakenAt(doc, self, 1) = self.processed[e]
    BY <1>1, <1>2, <1>3, <1>4 DEF TakenAt
  <2>4. EndedAt(q, 1) = EndedAt(self, 1)
    BY <1>4 DEF EndedAt
  <2>5. FrameOK(doc, self, Bef, 1)
    BY <1>1, <1>2, RefNow DEF ReadOK
  <2> QED  BY <2>1, <2>2, <2>3, <2>4, <2>5 DEF FrameOK
<1> QED  BY <1>1, <1>3, <1>4, <1>5, <1>6, RefKeeps

(* The same for a parser that is resumed.                                  *)
LEMMA ResumeRef ==
  ASSUME EntityInv, RefInv, Resume
  PROVE  RefInv'
<1> DEFINE q == [self EXCEPT !.at = "turn"]
<1>1. self \in Parser /\ self.at = "suspended" /\ cause = "NONE" /\ ReadsHead(self)
  BY Now DEF Resume
<1>2. /\ q \in Parser /\ q.text = self.text /\ q.pos = self.pos /\ q.open = self.open /\ q.more = self.more
      /\ q.processed = self.processed /\ q.level = self.level /\ q.at = "turn" /\ q.cur = Null
  BY <1>1 DEF Parser, ReadsHead
<1>3. Becomes(q) /\ UNCHANGED <<doc, cause>>
  BY DEF Resume
<1> HIDE DEF q
<1>4. Keeps(q)
  BY <1>2 DEF Keeps
<1>5. FrameOK(doc, q, Bef, 1)
  <2>1. /\ TextAt(doc, q, 1) = TextAt(doc, self, 1) /\ Around(q, Bef, 1) = Around(self, Bef, 1)
        /\ BeganAt(q, 1) = BeganAt(self, 1)
    BY <1>2, ListIs
  <2>2. LevelAt(q, 1) = LevelAt(self, 1) /\ AboveAt(doc, q, 1) = {} /\ AboveAt(doc, self, 1) = {}
    BY <1>1, <1>2 DEF LevelAt, AboveAt
  <2>3. TakenAt(doc, q, 1) = TakenAt(doc, self, 1)
    BY <1>1, <1>2, <2>1 DEF TakenAt
  <2>4. EndedAt(q, 1) = EndedAt(self, 1)
    BY <1>2 DEF EndedAt
  <2>5. Len(self.open) \in Nat
    BY <1>1, Fields
  <2>6. FrameOK(doc, self, Bef, 1)
    BY <1>1, <2>5, RefNow DEF ReadOK
  <2> QED  BY <2>1, <2>2, <2>3, <2>4, <2>6 DEF FrameOK
<1> QED  BY <1>1, <1>2, <1>3, <1>4, <1>5, RefKeeps

-----------------------------------------------------------------------------
(* The text of an external entity is that of one that is open.             *)
LEMMA ChildText ==
  ASSUME EntityInv, RefInv, cause = "NONE", ~IsRoot
  PROVE  \E w \in Entities : /\ w \in Around(self, Bef, 1) /\ w \in ReachedIn(doc, doc.text)
                             /\ doc.decl[w].is = "external" /\ self.text = doc.decl[w].text
<1> DEFINE n == Len(parsers)
           w == TextOf(doc, parsers[n - 1])[parsers[n - 1].s + 1]
<1>1. n \in Nat /\ n > 0 /\ self = parsers[n] /\ Place(parsers, n) /\ n # 1
  BY Now, Top DEF IsRoot
<1>2. Link(parsers, n)
  BY <1>1 DEF Place
<1>3. w = Waits(parsers, n - 1)
  BY DEF Waits, TextOf, Text
<1> HIDE DEF n
<1>4. w \in Entities /\ doc.decl[w].is = "external" /\ self.text = doc.decl[w].text
  <2>1. n > 1
    BY <1>1
  <2> QED  BY <1>1, <1>2, <1>3, <2>1 DEF Link
<1>5. w \in Bef
  BY <1>1 DEF Bef, BeforeIn, n
<1> HIDE DEF w
<1>6. w \in Around(self, Bef, 1)
  BY <1>5 DEF Around
<1>7. w \in ReachedIn(doc, doc.text)
  BY <1>6, RefNow DEF ReadOK, OpenOK
<1> QED  BY <1>4, <1>6, <1>7

(* An end tag at the level a text of an entity began at is one too many,   *)
(* and the document's own text has none.                                   *)
LEMMA EndTag ==
  ASSUME EntityInv, RefInv, Reading, Kind("content"), Item = ")"
  PROVE  /\ self.level = StartLevel(self) => RefusedOK(doc, "ASYNC_ENTITY")
         /\ self.level # StartLevel(self) => self.level # BeganAt(self, 1)
         /\ BeganAt(self, 1) <= self.level
<1> DEFINE text == Text(self)
           k == self.s
           began == BeganAt(self, 1)
           level == self.level
<1>1. self.at = "text" /\ k < Len(text)
  BY DEF Reading
<1>2. /\ text \in Seq(Items) /\ level \in Nat /\ began \in Nat /\ k \in Nat /\ Len(text) \in Nat
      /\ Ready(k, level, {}) /\ cause = "NONE"
      /\ self.cur = Null => began = 1 /\ text = self.text
      /\ self.cur # Null => /\ began = self.open[1].level /\ text = doc.decl[self.cur].text
                            /\ self.cur \in Around(self, Bef, 1)
  BY <1>1, HeadIs
<1>3. /\ self.cur = Null => StartLevel(self) = Lowest(Len(parsers))
      /\ self.cur # Null => StartLevel(self) = self.open[1].level
  BY <1>1, StartIs
<1>4. k \in 0..Len(text) - 1 /\ text[k + 1] = ")" /\ k \in 0..Len(text)
  BY <1>1, <1>2 DEF Item
<1>5. Balanced(text, k, level, began)
  BY <1>2 DEF Ready, Frame, Kind
<1>6. Lowest(Len(parsers)) = IF IsRoot THEN 0 ELSE 1
  BY DEF Lowest, IsRoot
<1>7. OpenOK(doc, Around(self, Bef, 1)) /\ WellNested(doc.text) /\ (IsRoot => self.text = doc.text)
  BY <1>2, RefNow DEF ReadOK
<1> HIDE DEF text, k, began, level
<1>8. began <= level
  <2>1. k \in 0..Len(text) /\ Balanced(text, k, level, began)
    BY <1>4, <1>5
  <2> QED  BY <1>2, <2>1, NestIs
<1>9. level = began => ~WellNested(text)
  BY <1>2, <1>4, <1>5, NestBreaks
<1>10. CASE self.cur # Null
  <2>1. StartLevel(self) = began
    BY <1>2, <1>3, <1>10
  <2>2. level = began => RefusedOK(doc, "ASYNC_ENTITY")
    BY <1>2, <1>7, <1>9, <1>10 DEF OpenOK, RefusedOK
  <2> QED  BY <1>8, <2>1, <2>2 DEF level, began
<1>11. CASE self.cur = Null /\ ~IsRoot
  <2>1. StartLevel(self) = began
    BY <1>2, <1>3, <1>6, <1>11
  <2>2. PICK w \in Entities : w \in ReachedIn(doc, doc.text) /\ self.text = doc.decl[w].text
    BY <1>2, <1>11, ChildText
  <2>3. level = began => RefusedOK(doc, "ASYNC_ENTITY")
    BY <1>2, <1>9, <1>11, <2>2 DEF RefusedOK
  <2> QED  BY <1>8, <2>1, <2>3 DEF level, began
<1>12. CASE self.cur = Null /\ IsRoot
  <2>1. StartLevel(self) = 0 /\ began = 1 /\ level # 0
    BY <1>2, <1>3, <1>6, <1>8, <1>12
  <2>2. level # began
    BY <1>2, <1>7, <1>9, <1>12
  <2> QED  BY <1>8, <2>1, <2>2 DEF level, began
<1> QED  BY <1>10, <1>11, <1>12

(* A token of content.                                                     *)
LEMMA ContentTokenRef ==
  ASSUME EntityInv, RefInv, ContentToken
  PROVE  RefInv'
<1>1. Kind("content") /\ UNCHANGED <<doc, depth>>
  BY DEF ContentToken
<1>2. PICK item \in Items \ Entities :
        /\ Takes(item)
        /\ IF item = ")" /\ self.level = StartLevel(self) THEN Fail("ASYNC_ENTITY") /\ UNCHANGED <<output, status>>
           ELSE /\ Reports(item)
                /\ GoesOn([self EXCEPT !.level = IF item = "(" THEN @ + 1 ELSE IF item = ")" THEN @ - 1 ELSE @])
  BY DEF ContentToken
<1>3. Reading /\ item = Item /\ cause = "NONE" /\ self.at = "text"
  BY <1>2, Taken
<1>4. CASE item = ")" /\ self.level = StartLevel(self)
  <2>1. Fail("ASYNC_ENTITY") /\ RefusedOK(doc, "ASYNC_ENTITY")
    BY <1>1, <1>2, <1>3, <1>4, EndTag
  <2> QED  BY <1>1, <1>3, <2>1, RefFail
<1>5. CASE ~(item = ")" /\ self.level = StartLevel(self))
  <2> DEFINE level == IF item = "(" THEN self.level + 1 ELSE IF item = ")" THEN self.level - 1 ELSE self.level
             p == [self EXCEPT !.level = level]
  <2>1. GoesOn(p)
    <3>1. p = [self EXCEPT !.level = IF item = "(" THEN @ + 1 ELSE IF item = ")" THEN @ - 1 ELSE @]
      OBVIOUS
    <3> QED  BY <1>2, <1>5, <3>1
  <2>2. self \in Parser /\ Marks(self) /\ self.level \in Nat /\ BeganAt(self, 1) \in Nat
    BY <1>3, Now, HeadIs
  <2>3. Item = ")" => self.level # BeganAt(self, 1) /\ BeganAt(self, 1) <= self.level
    BY <1>1, <1>3, <1>5, EndTag
  <2> DEFINE t == self.s + 1
             old == self.level
  <2>4. t \in Nat /\ t <= Len(Text(self)) /\ Ready(t, level, {})
    <3>1. Item \notin Entities
      BY <1>2, <1>3
    <3>2. level = IF Item = "(" THEN self.level + 1 ELSE IF Item = ")" THEN self.level - 1 ELSE self.level
      BY <1>3
    <3> HIDE DEF level
    <3> QED  BY <1>3, <2>3, <3>1, <3>2, NextReady
  <2>5. level \in Nat
    <3>1. item = ")" => old # 0
      BY <1>3, <2>2, <2>3
    <3>2. level = IF item = "(" THEN old + 1 ELSE IF item = ")" THEN old - 1 ELSE old
      OBVIOUS
    <3>3. old \in Nat
      BY <2>2
    <3> HIDE DEF level, old
    <3> QED  BY <3>1, <3>2, <3>3
  <2> HIDE DEF level
  <2>6. /\ p \in Parser /\ p.text = self.text /\ p.open = self.open /\ p.pos = self.pos /\ p.more = self.more
        /\ p.processed = self.processed /\ p.cur = self.cur /\ p.level = level /\ p.s = self.s
    BY <2>2, <2>5 DEF Parser
  <2> HIDE DEF p
  <2>7. SameMarks(p)
    BY <2>2, <2>6 DEF SameMarks, Marks, Text
  <2> QED  BY <1>1, <1>3, <2>1, <2>4, <2>6, <2>7, RefGoesOn
<1> QED  BY <1>4, <1>5

(* A token of a value, or a reference that is left out, is read over.      *)
LEMMA ReadOver ==
  ASSUME EntityInv, RefInv, Reading, Item \notin Entities \/ ~Follows(doc, Item), Item # ")" \/ ~Kind("content"),
         Item # "(" \/ ~Kind("content")
  PROVE  /\ Ready(self.s + 1, self.level, {}) /\ self.s + 1 \in Nat /\ self.s + 1 <= Len(Text(self))
         /\ SameMarks(self)
<1>1. self \in Parser /\ Marks(self)
  BY Now
<1>2. SameMarks(self)
  BY <1>1 DEF SameMarks
<1> QED  BY <1>2, NextReady

(* An item of a value is stored.                                           *)
LEMMA ValueTokenRef ==
  ASSUME EntityInv, RefInv, ValueToken
  PROVE  RefInv'
<1>1. PICK item \in Items \ Entities : Takes(item)
  BY DEF ValueToken
<1>2. ~Kind("content") /\ UNCHANGED <<doc, cause>> /\ Becomes([self EXCEPT !.s = @ + 1])
  BY DEF ValueToken
<1>3. Reading /\ item = Item /\ self.at = "text" /\ self \in Parser /\ Marks(self)
  BY <1>1, Taken, Now
<1> DEFINE t == self.s + 1
           q == [self EXCEPT !.s = t]
<1>4. Ready(t, self.level, {}) /\ t \in Nat /\ t <= Len(Text(self))
  BY <1>2, <1>3, ReadOver
<1>5. Becomes(q)
  BY <1>2
<1> HIDE DEF t
<1>6. /\ q \in Parser /\ q.text = self.text /\ q.open = self.open /\ q.pos = self.pos /\ q.more = self.more
      /\ q.processed = self.processed /\ q.cur = self.cur /\ q.level = self.level /\ q.s = t /\ q.at = "text"
  BY <1>3, <1>4 DEF Parser
<1> HIDE DEF q
<1>7. SameMarks(q)
  BY <1>3, <1>4, <1>6 DEF SameMarks, Marks, Text
<1> QED  BY <1>2, <1>3, <1>4, <1>5, <1>6, <1>7, RefReads

(* A reference in content that is left out leads nowhere.                  *)
LEMMA SkipInContentRef ==
  ASSUME EntityInv, RefInv, NEW e \in Entities, SkipInContent(e)
  PROVE  RefInv'
<1>1. /\ Kind("content") /\ Takes(e) /\ GoesOn(self) /\ UNCHANGED doc
      /\ \/ doc.decl[e].is = "undeclared"
         \/ doc.decl[e].is = "internal" /\ ~doc.expand
         \/ doc.decl[e].is = "external" /\ ~doc.handler
  BY DEF SkipInContent, Refers
<1>2. Reading /\ e = Item /\ self.at = "text"
  BY <1>1, Taken
<1>3. ~Follows(doc, e)
  BY <1>1 DEF Follows, Kind
<1>4. e # ")" /\ e # "("
  BY EntityAssumption DEF EntityAssumption
<1>5. Ready(self.s + 1, self.level, {}) /\ self.s + 1 <= Len(Text(self)) /\ SameMarks(self)
  BY <1>2, <1>3, <1>4, ReadOver
<1> QED  BY <1>1, <1>2, <1>5, RefGoesOn

(* The value of an entity refers to external entities only where these     *)
(* name declared ones: storeEntityValue returns at one that is not, and    *)
(* what follows it is lost.                                                *)
NothingUnknown ==
  \A d \in Documents : d.kind = "value" =>
    \A e \in Entities : d.decl[e].is = "external" =>
      \A i \in DOMAIN d.decl[e].text :
        d.decl[e].text[i] \in Entities => d.decl[d.decl[e].text[i]].is # "undeclared"

(* A reference in a value that is left out leads nowhere.                  *)
LEMMA SkipInValueRef ==
  ASSUME EntityInv, RefInv, NothingUnknown, NEW e \in Entities, SkipInValue(e)
  PROVE  RefInv'
<1> DEFINE t == self.s + 1
<1>1. /\ ~Kind("content") /\ Takes(e) /\ UNCHANGED <<doc, cause>>
      /\ doc.decl[e].is = "undeclared" \/ (doc.decl[e].is = "external" /\ ~doc.handler)
  BY DEF SkipInValue, Refers
<1>2. Reading /\ e = Item /\ self.at = "text" /\ cause = "NONE"
  BY <1>1, Taken
<1>3. ~Follows(doc, e)
  BY <1>1 DEF Follows
<1>4. /\ IsDocument(doc) /\ self \in Parser /\ Marks(self) /\ self.s \in Nat
      /\ Kind("value") /\ ~IsRoot => self.cur = Null
  BY Now, Fields
<1>5. Ready(t, self.level, {}) /\ t \in Nat /\ t <= Len(Text(self))
  BY <1>1, <1>2, <1>3, ReadOver
<1>6. CASE Kind("value") /\ doc.decl[e].is = "undeclared" /\ IsRoot
  <2> DEFINE p == [self EXCEPT !.at = "turn"]
  <2>1. Becomes(Left(p, t))
    BY <1>6 DEF SkipInValue
  <2>2. /\ p \in Parser /\ p.text = self.text /\ p.open = self.open /\ p.pos = self.pos /\ p.more = self.more
        /\ p.processed = self.processed /\ p.cur = self.cur /\ p.level = self.level /\ p.s = self.s /\ p.at = "turn"
    BY <1>4 DEF Parser
  <2> HIDE DEF p
  <2>3. SameMarks(p)
    BY <1>4, <2>2 DEF SameMarks, Marks, Text
  <2>4. Leave(p, t)
    BY <1>1, <2>1 DEF Leave, EndsAsync
  <2> HIDE DEF t
  <2> QED  BY <1>1, <1>2, <1>5, <2>2, <2>3, <2>4, RefLeave
<1>7. CASE Kind("value") /\ doc.decl[e].is = "undeclared" /\ ~IsRoot
  <2>1. PICK w \in Entities : doc.decl[w].is = "external" /\ self.text = doc.decl[w].text
    BY <1>2, <1>7, ChildText
  <2>2. Text(self) = self.text /\ self.text \in Seq(Items)
    BY <1>4, <1>7, Fields DEF Text
  <2>3. t \in DOMAIN self.text /\ self.text[t] = e
    <3>1. t \in 1..Len(self.text)
      BY <1>4, <1>5, <2>2
    <3> QED  BY <1>2, <2>2, <3>1 DEF Item
  <2>4. doc.kind = "value" /\ doc \in Documents /\ doc.decl[e].is = "undeclared"
    BY <1>7 DEF Kind, RefInv
  <2> HIDE DEF t
  <2>5. doc.decl[self.text[t]].is # "undeclared"
    BY <2>1, <2>3, <2>4 DEF NothingUnknown
  <2> QED  BY <2>3, <2>4, <2>5
<1>8. CASE ~(Kind("value") /\ doc.decl[e].is = "undeclared")
  <2> DEFINE q == [self EXCEPT !.s = t]
  <2>1. Becomes(q)
    BY <1>8 DEF SkipInValue
  <2> HIDE DEF t
  <2>2. /\ q \in Parser /\ q.text = self.text /\ q.open = self.open /\ q.pos = self.pos /\ q.more = self.more
        /\ q.processed = self.processed /\ q.cur = self.cur /\ q.level = self.level /\ q.s = t /\ q.at = "text"
    BY <1>2, <1>4, <1>5 DEF Parser
  <2> HIDE DEF q
  <2>3. SameMarks(q)
    BY <1>4, <1>5, <2>2 DEF SameMarks, Marks, Text
  <2> QED  BY <1>1, <1>2, <1>5, <2>1, <2>2, <2>3, RefReads
<1> QED  BY <1>6, <1>7, <1>8

(* After an external entity the text goes on.                              *)
LEMMA AfterExternalRef ==
  ASSUME EntityInv, RefInv, AfterExternal
  PROVE  RefInv'
<1>1. self.at = "back" /\ GoesOn(self) /\ UNCHANGED doc
  BY DEF AfterExternal
<1>2. self \in Parser /\ Marks(self) /\ self.s < Len(Text(self))
  BY <1>1, Now DEF ReadsHead
<1>3. Ready(self.s + 1, self.level, {}) /\ self.s \in Nat /\ Len(Text(self)) \in Nat
  BY <1>1, HeadIs
<1>4. SameMarks(self) /\ self.s + 1 <= Len(Text(self))
  BY <1>2, <1>3 DEF SameMarks
<1> QED  BY <1>1, <1>3, <1>4, RefGoesOn

(* A reference to an entity that is open is one it leads to itself.        *)
LEMMA Recursion ==
  ASSUME EntityInv, RefInv, Reading, NEW e \in Entities, e = Item, e \in self.isOpen \/ doc.decl[e].is = "declared"
  PROVE  e \in ReachedIn(doc, doc.text) /\ Recurs(doc, e)
<1>1. self.at = "text" /\ self.s < Len(Text(self))
  BY DEF Reading
<1>2. /\ cause = "NONE" /\ Text(self) \in Seq(Items) /\ self.s \in Nat /\ Len(Text(self)) \in Nat
      /\ Ready(self.s, self.level, {})
  BY <1>1, HeadIs
<1>3. LedTo(doc, Text(self), Around(self, Bef, 1))
  BY <1>2 DEF Ready, Frame
<1>4. e \in ToSet(Text(self))
  <2>1. self.s + 1 \in DOMAIN Text(self)
    BY <1>1, <1>2
  <2> QED  BY <2>1 DEF ToSet, Item
<1>5. ReadOK(doc, self, Bef) /\ self.isOpen = Around(self, Bef, 1)
  BY <1>2, RefNow
<1>6. Follows(doc, e)
  <2>1. CASE doc.decl[e].is = "declared"
    BY <2>1 DEF Follows
  <2>2. CASE e \in self.isOpen
    <3>1. e \in ReachedIn(doc, doc.text)
      BY <1>5, <2>2 DEF ReadOK, OpenOK
    <3> QED  BY <3>1, ReachedFollowed
  <2> QED  BY <2>1, <2>2
<1>7. e \in NamedIn(doc, Text(self))
  BY <1>4, <1>6 DEF NamedIn
<1>8. e \in ReachedIn(doc, doc.text)
  BY <1>3, <1>7 DEF LedTo
<1>9. e \in self.isOpen => e \in ReachedIn(doc, doc.decl[e].text)
  BY <1>3, <1>5, <1>7 DEF LedTo
<1> QED  BY <1>8, <1>9 DEF Recurs

(* What is refused for recursion is recursive.                             *)
LEMMA RefusedRef ==
  ASSUME EntityInv, RefInv, NoToken \/ TooMuch \/ BadReference
  PROVE  RefInv'
<1>1. Reading /\ UNCHANGED doc
  BY DEF NoToken, TooMuch, BadReference, Takes
<1>2. cause = "NONE"
  BY <1>1, Token
<1>3. CASE NoToken
  <2>1. Fail("INVALID_TOKEN")
    BY <1>3 DEF NoToken
  <2> QED  BY <1>1, <1>2, <2>1, OtherErrors, RefFail
<1>4. CASE TooMuch
  <2>1. Fail("AMPLIFICATION_LIMIT_BREACH")
    BY <1>4 DEF TooMuch
  <2> QED  BY <1>1, <1>2, <2>1, OtherErrors, RefFail
<1>5. CASE BadReference
  <2>1. PICK e \in Entities : Takes(e) /\ Error(e) # "NONE" /\ Fail(Error(e))
    BY <1>5 DEF BadReference
  <2>2. e = Item
    BY <2>1 DEF Takes
  <2>3. Error(e) # "ASYNC_ENTITY"
    BY DEF Error, ParameterError, GeneralError
  <2>4. Error(e) = "RECURSIVE_ENTITY_REF" => e \in self.isOpen \/ doc.decl[e].is = "declared"
    BY DEF Error, ParameterError, GeneralError
  <2>5. Error(e) = "RECURSIVE_ENTITY_REF" => e \in ReachedIn(doc, doc.text) /\ Recurs(doc, e)
    BY <1>1, <2>2, <2>4, Recursion
  <2> DEFINE error == Error(e)
  <2> HIDE DEF error
  <2>6. error # "NONE" /\ Fail(error) /\ RefusedOK(doc, error)
    BY <2>1, <2>3, <2>5 DEF error, RefusedOK
  <2> QED  BY <1>1, <1>2, <2>6, RefFail
<1> QED  BY <1>3, <1>4, <1>5

(* A text is at its end.                                                   *)
LEMMA TextEndsRef ==
  ASSUME EntityInv, RefInv, TextEnds
  PROVE  RefInv'
<1>1. /\ self.at = "text" /\ self.s = Len(Text(self)) /\ UNCHANGED doc
      /\ IF self.cur # Null THEN Leave([self EXCEPT !.at = "turn"], self.s) /\ UNCHANGED output
         ELSE IF ~IsRoot /\ Kind("content") /\ self.level # StartLevel(self)
         THEN Fail("ASYNC_ENTITY") /\ UNCHANGED output
         ELSE Becomes([self EXCEPT !.at = "done"]) /\ Complete /\ UNCHANGED cause
  BY DEF TextEnds
<1>2. /\ cause = "NONE" /\ Text(self) \in Seq(Items) /\ self.level \in Nat /\ BeganAt(self, 1) \in Nat
      /\ self.s \in Nat /\ Ready(self.s, self.level, {})
      /\ self.cur = Null => BeganAt(self, 1) = 1 /\ Text(self) = self.text
  BY <1>1, HeadIs
<1>3. self \in Parser /\ Marks(self)
  BY Now
<1>4. Frame(doc, Text(self), Around(self, Bef, 1), Len(Text(self)), {}, self.level, BeganAt(self, 1), FALSE)
  BY <1>1, <1>2 DEF Ready
<1>5. self.cur = Null /\ ~IsRoot => StartLevel(self) = 1
  BY <1>1, StartIs DEF Lowest, IsRoot
<1>6. CASE self.cur # Null
  <2> DEFINE p == [self EXCEPT !.at = "turn"]
             t == self.s
  <2>1. Leave(p, t)
    BY <1>1, <1>6
  <2>2. /\ p \in Parser /\ p.text = self.text /\ p.open = self.open /\ p.pos = self.pos /\ p.more = self.more
        /\ p.processed = self.processed /\ p.cur = self.cur /\ p.level = self.level /\ p.s = self.s /\ p.at = "turn"
    BY <1>3 DEF Parser
  <2> HIDE DEF p
  <2>3. SameMarks(p)
    BY <1>3, <2>2 DEF SameMarks, Marks, Text
  <2>4. t \in Nat /\ t <= Len(Text(self)) /\ Ready(t, p.level, {})
    BY <1>1, <1>2, <2>2
  <2> HIDE DEF t
  <2> QED  BY <1>1, <2>1, <2>2, <2>3, <2>4, RefLeave
<1>7. CASE self.cur = Null /\ ~IsRoot /\ Kind("content") /\ self.level # StartLevel(self)
  <2>1. Fail("ASYNC_ENTITY")
    BY <1>1, <1>7
  <2>2. PICK w \in Entities : w \in ReachedIn(doc, doc.text) /\ self.text = doc.decl[w].text
    BY <1>2, <1>7, ChildText
  <2>3. Balanced(Text(self), Len(Text(self)), self.level, BeganAt(self, 1))
    BY <1>4, <1>7 DEF Frame, Kind
  <2>4. ~WellNested(Text(self))
    BY <1>2, <1>5, <1>7, <2>3, NestEnds
  <2>5. RefusedOK(doc, "ASYNC_ENTITY")
    BY <1>2, <1>7, <2>2, <2>4 DEF RefusedOK
  <2> QED  BY <1>1, <1>2, <2>1, <2>5, RefFail
<1>8. CASE self.cur = Null /\ ~(~IsRoot /\ Kind("content") /\ self.level # StartLevel(self))
  <2> DEFINE q == [self EXCEPT !.at = "done"]
  <2>1. Becomes(q) /\ UNCHANGED cause
    BY <1>1, <1>8
  <2>2. /\ q.text = self.text /\ q.open = self.open /\ q.more = self.more /\ q.processed = self.processed
        /\ q.cur = Null /\ q.at = "done"
    BY <1>3, <1>8 DEF Parser
  <2> HIDE DEF q
  <2>3. ReadOK(doc, self, Bef) /\ (Kind("content") => WellNested(doc.text)) /\ (IsRoot => self.text = doc.text)
    BY <1>2, RefNow
  <2>4. doc.kind = "content" => self.level = BeganAt(self, 1) \/ WellNested(Text(self))
    BY <1>2, <1>5, <1>8, <2>3 DEF Kind
  <2>5. ReadOut(doc, q.text)
    <3>1. ReadOut(doc, Text(self))
      BY <1>2, <1>4, <2>4, FrameEnds
    <3> QED  BY <1>2, <1>8, <2>2, <3>1
  <2>6. Around(q, Bef, 1) = Around(self, Bef, 1)
    BY <2>2 DEF Around
  <2>7. ReadOK(doc, q, Bef)
    BY <2>2, <2>3, <2>5, <2>6 DEF ReadOK
  <2> QED  BY <1>1, <1>2, <2>1, <2>2, <2>7, RefTop
<1> QED  BY <1>6, <1>7, <1>8

-----------------------------------------------------------------------------
(* The texts of a list without its head.                                   *)
LEMMA CutFrame ==
  ASSUME NEW d, NEW B, NEW p \in Parser, p.at = "turn", p.open # <<>>,
         NEW r, r.open = Tail(p.open), r.text = p.text, r.pos = p.pos, r.more = p.more,
         r.processed = p.processed, r.at = "turn",
         NEW i \in 1..Len(p.open), NEW m, m = i + 1
  PROVE  /\ TextAt(d, r, i) = TextAt(d, p, m) /\ Around(r, B, i) = Around(p, B, m)
         /\ TakenAt(d, r, i) = TakenAt(d, p, m) /\ BeganAt(r, i) = BeganAt(p, m)
         /\ EndedAt(r, i) = EndedAt(p, m)
         /\ i > 1 => AboveAt(d, r, i) = AboveAt(d, p, m) /\ LevelAt(r, i) = LevelAt(p, m)
         /\ Len(r.open) + 1 = Len(p.open)
<1> DEFINE list == p.open
           n == Len(list)
           cut == r.open
<1>1. list \in Seq(OpenedEntity) /\ n \in Nat /\ list # <<>>
  BY Fields
<1>2. Len(cut) = n - 1 /\ \A j \in 1 .. n - 1 : cut[j] = list[j + 1]
  BY <1>1
<1>3. n > 0
  BY <1>1
<1> HIDE DEF list, n, cut
<1>4. i \in 1..n /\ i \in Nat /\ m \in 2 .. n + 1 /\ Len(cut) + 1 = n /\ (i = n <=> m = n + 1) /\ m # 1 /\ m > 1
  BY <1>1, <1>2, <1>3 DEF n, list
<1>5. i # n => i \in 1 .. n - 1 /\ cut[i] = list[m]
  BY <1>1, <1>2, <1>4
<1>6. i > 1 => i - 1 \in 1 .. n - 1 /\ cut[i - 1] = list[m - 1] /\ i # 1
  <2> SUFFICES ASSUME i > 1 PROVE i - 1 \in 1 .. n - 1 /\ cut[i - 1] = list[m - 1] /\ i # 1
    OBVIOUS
  <2>1. i - 1 \in 1 .. n - 1 /\ i - 1 + 1 = m - 1 /\ i # 1
    BY <1>1, <1>4
  <2>2. cut[i - 1] = list[i - 1 + 1]
    BY <1>2, <2>1
  <2> QED  BY <2>1, <2>2
<1>7. TextAt(d, r, i) = TextAt(d, p, m)
  BY <1>4, <1>5 DEF TextAt, list, n, cut
<1>8. Around(r, B, i) = Around(p, B, m)
  <2>1. \A j \in i .. Len(cut) : j + 1 \in m .. n /\ cut[j] = list[j + 1]
    BY <1>1, <1>2, <1>4
  <2>2. \A j \in m .. n : j - 1 \in i .. Len(cut) /\ cut[j - 1] = list[j]
    <3> TAKE j \in m .. n
    <3>1. j - 1 \in i .. Len(cut) /\ j - 1 \in 1 .. n - 1 /\ j - 1 + 1 = j
      BY <1>1, <1>2, <1>4
    <3> QED  BY <1>2, <3>1
  <2> DEFINE X == {cut[j].entity : j \in i .. Len(cut)}
             Y == {list[j].entity : j \in m .. n}
  <2>3. ASSUME NEW x \in X PROVE x \in Y
    <3>1. PICK j \in i .. Len(cut) : x = cut[j].entity
      OBVIOUS
    <3>2. j + 1 \in m .. n /\ x = list[j + 1].entity
      BY <2>1, <3>1
    <3> QED  BY <3>2
  <2>4. ASSUME NEW y \in Y PROVE y \in X
    <3>1. PICK j \in m .. n : y = list[j].entity
      OBVIOUS
    <3>2. j - 1 \in i .. Len(cut) /\ y = cut[j - 1].entity
      BY <2>2, <3>1
    <3> QED  BY <3>2
  <2>5. X = Y
    BY <2>3, <2>4
  <2> QED  BY <2>5 DEF Around, list, n, cut
<1>9. TakenAt(d, r, i) = TakenAt(d, p, m)
  BY <1>4, <1>5, <1>7 DEF TakenAt, list, n, cut
<1>10. BeganAt(r, i) = BeganAt(p, m)
  BY <1>4, <1>5 DEF BeganAt, list, n, cut
<1>11. EndedAt(r, i) = EndedAt(p, m)
  <2>1. (i <= Len(cut) <=> m <= n) /\ (i <= Len(cut) => i # n)
    BY <1>1, <1>4
  <2>2. EndedAt(r, i) <=> EndedAt(p, m)
    BY <1>5, <2>1 DEF EndedAt, list, n, cut
  <2> QED  BY <2>2 DEF EndedAt
<1>12. i > 1 => AboveAt(d, r, i) = AboveAt(d, p, m) /\ LevelAt(r, i) = LevelAt(p, m)
  BY <1>4, <1>6 DEF AboveAt, LevelAt, list, cut
<1> QED  BY <1>4, <1>7, <1>8, <1>9, <1>10, <1>11, <1>12 DEF list, n, cut

(* An entity is closed when its text has been read out: it is good.        *)
LEMMA CloseEntityRef ==
  ASSUME EntityInv, RefInv, CloseEntity
  PROVE  RefInv'
<1> DEFINE complete == ~Kind("content") /\ Len(self.open) = 1 /\ self.pos = Len(self.text)
           at == IF complete THEN "done" ELSE "turn"
           q == [Closed(self) EXCEPT !.at = at]
           r == [Closed(self) EXCEPT !.at = "turn"]
           h == self.open[1].entity
           n == Len(self.open)
<1>1. /\ self \in Parser /\ IsDocument(doc) /\ self.at = "turn" /\ self.open # <<>> /\ cause = "NONE"
      /\ self.cur = Null /\ ~(Kind("value") /\ ~IsRoot)
  BY Now DEF CloseEntity, ReadsHead
<1>2. /\ self.open \in Seq(OpenedEntity) /\ n \in Nat /\ n >= 1 /\ Head(self.open) = self.open[1]
      /\ h \in Entities /\ self.open[1].level \in Nat /\ self.level \in Nat
      /\ self.text \in Seq(Items)
  <2>1. self.open \in Seq(OpenedEntity) /\ self.open # <<>> /\ self.level \in Nat /\ self.text \in Seq(Items)
    BY <1>1, Fields
  <2>2. n \in Nat /\ n >= 1 /\ Head(self.open) = self.open[1] /\ self.open[1] \in OpenedEntity
    BY <2>1
  <2> QED  BY <2>1, <2>2 DEF OpenedEntity
<1>3. Becomes(q) /\ UNCHANGED <<doc, cause>> /\ h \notin self.more
  BY <1>2 DEF CloseEntity
<1>4. at \in {"turn", "done"}
  OBVIOUS
<1>5. complete <=> at = "done"
  OBVIOUS
<1> HIDE DEF at
<1>6. /\ q.text = self.text /\ q.pos = self.pos /\ q.open = Tail(self.open) /\ q.more = self.more
      /\ q.processed = self.processed /\ q.level = self.level /\ q.at = at /\ q.cur = Null
      /\ r.text = self.text /\ r.pos = self.pos /\ r.open = Tail(self.open) /\ r.more = self.more
      /\ r.processed = self.processed /\ r.level = self.level /\ r.at = "turn" /\ r.cur = Null
  <2> DEFINE isOpen == self.isOpen \ {Head(self.open).entity}
  <2>1. Closed(self) = [self EXCEPT !.open = Tail(self.open), !.isOpen = isOpen]
    BY DEF Closed
  <2> HIDE DEF isOpen
  <2>2. self = [text |-> self.text, account |-> self.account, pos |-> self.pos, level |-> self.level,
                open |-> self.open, isOpen |-> self.isOpen, more |-> self.more, processed |-> self.processed,
                at |-> self.at, cur |-> self.cur, s |-> self.s, error |-> self.error]
    BY <1>1, Fields
  <2>3. Closed(self) = [text |-> self.text, account |-> self.account, pos |-> self.pos, level |-> self.level,
                open |-> Tail(self.open), isOpen |-> isOpen, more |-> self.more, processed |-> self.processed,
                at |-> self.at, cur |-> self.cur, s |-> self.s, error |-> self.error]
    BY <2>1, <2>2
  <2> QED  BY <1>1, <2>3
<1> HIDE DEF q, r
<1>7. ReadOK(doc, self, Bef)
  BY <1>1, RefNow
<1>8. FrameOK(doc, self, Bef, 1)
  <2>1. 1 \in 1 .. n + 1
    BY <1>2
  <2> QED  BY <1>1, <1>7, <2>1 DEF ReadOK
<1>9. 1 # n + 1 /\ 1 <= n
  BY <1>2
<1>10. /\ TextAt(doc, self, 1) = doc.decl[h].text /\ AboveAt(doc, self, 1) = {} /\ LevelAt(self, 1) = self.level
       /\ BeganAt(self, 1) = self.open[1].level /\ EndedAt(self, 1) = TRUE
       /\ TakenAt(doc, self, 1) = Len(doc.decl[h].text)
  <2>1. TextAt(doc, self, 1) = doc.decl[h].text
    BY <1>9 DEF TextAt
  <2>2. AboveAt(doc, self, 1) = {} /\ LevelAt(self, 1) = self.level /\ BeganAt(self, 1) = self.open[1].level
    BY <1>1, <1>9 DEF AboveAt, LevelAt, BeganAt
  <2>3. EndedAt(self, 1) = TRUE
    BY <1>3, <1>9 DEF EndedAt
  <2>4. TakenAt(doc, self, 1) = Len(doc.decl[h].text)
    BY <1>1, <1>3, <1>9, <2>1 DEF TakenAt
  <2> QED  BY <2>1, <2>2, <2>3, <2>4
<1> DEFINE text == doc.decl[h].text
           began == self.open[1].level
<1>11. text \in Seq(Items) /\ began \in Nat
  BY <1>1, <1>2 DEF IsDocument
<1>12. Frame(doc, text, Around(self, Bef, 1), Len(text), {}, self.level, began, TRUE)
  BY <1>8, <1>10 DEF FrameOK
<1>13. doc.kind = "content" => self.level = began
  BY <1>12 DEF Frame
<1>14. ReadOut(doc, text)
  <2> DEFINE level == self.level
             ended == TRUE
             around == Around(self, Bef, 1)
  <2>1. /\ Frame(doc, text, around, Len(text), {}, level, began, ended)
        /\ text \in Seq(Items) /\ level \in Nat /\ began \in Nat
        /\ doc.kind = "content" => level = began \/ WellNested(text)
    BY <1>2, <1>11, <1>12, <1>13
  <2> HIDE DEF text, began, level, ended, around
  <2> QED  BY <2>1, FrameEnds
<1>15. Good(doc, h)
  <2>1. h \in Around(self, Bef, 1)
    BY <1>2 DEF Around
  <2>2. doc.decl[h].is # "declared"
    BY <1>7, <2>1 DEF ReadOK, OpenOK
  <2> HIDE DEF h
  <2> QED  BY <1>14, <2>2, GoodFrom DEF ReadOut
<1>16. ASSUME NEW i \in 1..n PROVE FrameOK(doc, r, Bef, i)
  <2> DEFINE m == i + 1
  <2>1. m \in 1 .. n + 1 /\ (i > 1 \/ i = 1)
    BY <1>2
  <2>2. FrameOK(doc, self, Bef, m)
    BY <1>1, <1>7, <2>1 DEF ReadOK
  <2>3. /\ TextAt(doc, r, i) = TextAt(doc, self, m) /\ Around(r, Bef, i) = Around(self, Bef, m)
        /\ TakenAt(doc, r, i) = TakenAt(doc, self, m) /\ BeganAt(r, i) = BeganAt(self, m)
        /\ EndedAt(r, i) = EndedAt(self, m)
        /\ i > 1 => AboveAt(doc, r, i) = AboveAt(doc, self, m) /\ LevelAt(r, i) = LevelAt(self, m)
    <3>1. /\ r.open = Tail(self.open) /\ r.text = self.text /\ r.pos = self.pos /\ r.more = self.more
          /\ r.processed = self.processed /\ r.at = "turn" /\ m = i + 1
      BY <1>6
    <3>2. i \in 1..Len(self.open) /\ self \in Parser /\ self.at = "turn" /\ self.open # <<>>
      BY <1>1, <1>16
    <3> HIDE DEF m
    <3> QED  BY ONLY <3>1, <3>2, CutFrame
  <2>4. CASE i > 1
    <3> HIDE DEF m
    <3> QED  BY <2>2, <2>3, <2>4 DEF FrameOK
  <2>5. CASE i = 1
    <3>1. m = 2
      BY <2>5
    <3>2. AboveAt(doc, self, m) = {h} /\ LevelAt(self, m) = began
      BY <3>1 DEF AboveAt, LevelAt
    <3>3. AboveAt(doc, r, i) = {} /\ LevelAt(r, i) = self.level
      BY <1>6, <2>5 DEF AboveAt, LevelAt
    <3> HIDE DEF m, h, began
    <3>4. Frame(doc, TextAt(doc, r, i), Around(r, Bef, i), TakenAt(doc, r, i), {h}, began, BeganAt(r, i),
                EndedAt(r, i))
      BY <2>2, <2>3, <3>2 DEF FrameOK
    <3>5. Through(doc, TextAt(doc, r, i), TakenAt(doc, r, i), {})
      <4>1. Through(doc, TextAt(doc, r, i), TakenAt(doc, r, i), {h})
        BY <3>4 DEF Frame
      <4> QED  BY <1>15, <4>1, ThroughGood
    <3>6. Frame(doc, TextAt(doc, r, i), Around(r, Bef, i), TakenAt(doc, r, i), {}, self.level, BeganAt(r, i),
                EndedAt(r, i))
      BY <1>13, <3>4, <3>5 DEF Frame
    <3> QED  BY <3>3, <3>6 DEF FrameOK
  <2> QED  BY <2>1, <2>4, <2>5
<1>17. Len(r.open) + 1 = n /\ r.open = q.open /\ Around(q, Bef, 1) \subseteq Around(self, Bef, 1)
  <2>1. Len(r.open) + 1 = n /\ Around(r, Bef, 1) = Around(self, Bef, 2)
    <3>1. /\ r.open = Tail(self.open) /\ r.text = self.text /\ r.pos = self.pos /\ r.more = self.more
          /\ r.processed = self.processed /\ r.at = "turn"
      BY <1>6
    <3> DEFINE i == 1
               m == 2
    <3>2. i \in 1..Len(self.open) /\ m = i + 1
      BY <1>2
    <3> HIDE DEF i, m
    <3>3. Len(r.open) + 1 = Len(self.open) /\ Around(r, Bef, i) = Around(self, Bef, m)
      BY <1>1, <3>1, <3>2, CutFrame
    <3> QED  BY <3>3 DEF i, m
  <2>2. Around(q, Bef, 1) = Around(r, Bef, 1)
    BY <1>6 DEF Around
  <2>3. Around(self, Bef, 2) \subseteq Around(self, Bef, 1)
    BY <1>2 DEF Around
  <2> QED  BY <1>6, <2>1, <2>2, <2>3
<1>18. OpenOK(doc, Around(q, Bef, 1))
  BY <1>7, <1>17 DEF ReadOK, OpenOK
<1>19. q.at # "done" => \A i \in 1 .. Len(q.open) + 1 : FrameOK(doc, q, Bef, i)
  <2> SUFFICES ASSUME q.at # "done", NEW i \in 1 .. Len(q.open) + 1 PROVE FrameOK(doc, q, Bef, i)
    OBVIOUS
  <2>1. FrameOK(doc, r, Bef, i)
    BY <1>16, <1>17
  <2>2. /\ q.open = r.open /\ q.text = r.text /\ q.pos = r.pos /\ q.more = r.more /\ q.processed = r.processed
        /\ q.level = r.level /\ q.at = "turn" /\ r.at = "turn"
    BY <1>4, <1>6
  <2>3. /\ TextAt(doc, q, i) = TextAt(doc, r, i) /\ Around(q, Bef, i) = Around(r, Bef, i)
        /\ BeganAt(q, i) = BeganAt(r, i) /\ EndedAt(q, i) = EndedAt(r, i) /\ LevelAt(q, i) = LevelAt(r, i)
    BY <2>2 DEF TextAt, Around, BeganAt, EndedAt, LevelAt
  <2>4. TakenAt(doc, q, i) = TakenAt(doc, r, i) /\ AboveAt(doc, q, i) = AboveAt(doc, r, i)
    BY <2>2, <2>3 DEF TakenAt, AboveAt
  <2> QED  BY <2>1, <2>3, <2>4 DEF FrameOK
<1>20. q.at = "done" => ReadOut(doc, q.text)
  <2> SUFFICES ASSUME q.at = "done" PROVE ReadOut(doc, self.text)
    BY <1>6
  <2>1. ~Kind("content") /\ n = 1 /\ self.pos = Len(self.text)
    BY <1>5, <1>6
  <2>2. FrameOK(doc, r, Bef, 1) /\ Len(r.open) = 0
    <3>1. Len(r.open) = 0
      <4>1. r.open = Tail(self.open) /\ Tail(self.open) \in Seq(OpenedEntity)
        BY <1>1, <1>2, <1>6
      <4>2. Len(r.open) \in Nat
        BY <4>1
      <4> QED  BY <1>17, <2>1, <4>2
    <3> QED  BY <1>16, <2>1, <3>1
  <2>3. TextAt(doc, r, 1) = self.text /\ TakenAt(doc, r, 1) = Len(self.text) /\ AboveAt(doc, r, 1) = {}
    BY <1>6, <2>1, <2>2 DEF TextAt, TakenAt, AboveAt
  <2>4. Through(doc, self.text, Len(self.text), {})
    BY <2>2, <2>3 DEF FrameOK, Frame
  <2>5. \A e \in NamedIn(doc, self.text) : Good(doc, e)
    BY <1>2, <2>4, ThroughEnds
  <2> QED  BY <2>1, <2>5 DEF ReadOut, Kind
<1>21. ReadOK(doc, q, Bef)
  BY <1>6, <1>18, <1>19, <1>20 DEF ReadOK
<1> QED  BY <1>1, <1>3, <1>6, <1>21, RefTop

-----------------------------------------------------------------------------
(* What the entity of a reference leads to is led to by what is open.      *)
LEMMA LedOn ==
  ASSUME NEW d, NEW text, NEW S, LedTo(d, text, S), NEW e \in NamedIn(d, text)
  PROVE  LedTo(d, d.decl[e].text, S \cup {e}) /\ e \in ReachedIn(d, d.text)
<1>1. ASSUME NEW t, e \in ReachedIn(d, t) PROVE NamedIn(d, d.decl[e].text) \subseteq ReachedIn(d, t)
  BY <1>1, ReachedClosed
<1>2. e \in ReachedIn(d, d.text) /\ \A a \in S : e \in ReachedIn(d, d.decl[a].text)
  BY DEF LedTo
<1>3. NamedIn(d, d.decl[e].text) \subseteq ReachedIn(d, d.decl[e].text)
  BY ReachedClosed
<1> QED  BY <1>1, <1>2, <1>3 DEF LedTo

(* A text that is begun.                                                   *)
LEMMA FrameBegins ==
  ASSUME NEW d, NEW text \in Seq(Items), NEW around, LedTo(d, text, around), NEW level \in Nat
  PROVE  Frame(d, text, around, 0, {}, level, level, FALSE)
BY NestStarts DEF Frame, Through

(* The reference that is read.                                             *)
LEMMA NamedNext ==
  ASSUME EntityInv, RefInv, Reading, NEW e \in Entities, e = Item, Follows(doc, e)
  PROVE  /\ e \in NamedIn(doc, Text(self)) /\ LedTo(doc, Text(self), Around(self, Bef, 1))
         /\ self.s + 1 \in Nat /\ self.s + 1 <= Len(Text(self)) /\ Ready(self.s + 1, self.level, {e})
<1>1. self.at = "text" /\ self.s < Len(Text(self))
  BY DEF Reading
<1>2. /\ Text(self) \in Seq(Items) /\ self.s \in Nat /\ Len(Text(self)) \in Nat
      /\ Ready(self.s, self.level, {})
  BY <1>1, HeadIs
<1>3. LedTo(doc, Text(self), Around(self, Bef, 1))
  BY <1>2 DEF Ready, Frame
<1>4. self.s + 1 \in DOMAIN Text(self)
  BY <1>1, <1>2
<1>5. e \in NamedIn(doc, Text(self))
  BY <1>4 DEF NamedIn, ToSet, Item
<1>6. e # ")" /\ e # "("
  BY EntityAssumption DEF EntityAssumption
<1>7. self.s + 1 \in Nat /\ self.s + 1 <= Len(Text(self)) /\ Ready(self.s + 1, self.level, {e})
  <2> DEFINE S == {e}
  <2>1. e \in S
    OBVIOUS
  <2> HIDE DEF S
  <2>2. self.s + 1 \in Nat /\ self.s + 1 <= Len(Text(self)) /\ Ready(self.s + 1, self.level, S)
    BY <1>6, <2>1, NextReady
  <2> QED  BY <2>2 DEF S
<1> QED  BY <1>3, <1>5, <1>7

(* An entity is put before a list; a text is then one further down it.     *)
PutBefore(p, e, q) ==
  /\ q.open = <<[entity |-> e, level |-> p.level]>> \o p.open /\ q.text = p.text /\ q.level = p.level
  /\ q.at = "turn"
FrameMoved(d, B, p, i, q, m) ==
  /\ TextAt(d, q, m) = TextAt(d, p, i) /\ Around(q, B, m) = Around(p, B, i)
  /\ BeganAt(q, m) = BeganAt(p, i) /\ (i # 1 => AboveAt(d, q, m) = AboveAt(d, p, i))
  /\ LevelAt(q, m) = LevelAt(p, i)

(* The texts of a list with an entity put before it.                       *)
LEMMA PutFrame ==
  ASSUME NEW d, NEW B, NEW p \in Parser, NEW e, NEW q, PutBefore(p, e, q),
         NEW i \in 1 .. Len(p.open) + 1, NEW m, m = i + 1
  PROVE  FrameMoved(d, B, p, i, q, m)
<1> DEFINE list == p.open
           n == Len(list)
           put == q.open
           h == [entity |-> e, level |-> p.level]
<1>1. list \in Seq(OpenedEntity) /\ n \in Nat
  BY Fields
<1>2. put = <<h>> \o list
  BY DEF PutBefore
<1>3. Len(put) = n + 1 /\ put[1] = h /\ \A j \in 1..n : put[j + 1] = list[j]
  <2> HIDE DEF h, put
  <2>1. Len(<<h>> \o list) = n + 1
    BY <1>1
  <2>2. (<<h>> \o list)[1] = h
    BY <1>1
  <2>3. ASSUME NEW j \in 1..n PROVE (<<h>> \o list)[j + 1] = list[j]
    <3>1. j + 1 \in 1 .. n + 1 /\ j + 1 > 1 /\ j + 1 - 1 = j
      BY <1>1
    <3> QED  BY <1>1, <3>1
  <2> QED  BY <1>2, <2>1, <2>2, <2>3
<1>4. i \in 1 .. n + 1 /\ i \in Nat
  OBVIOUS
<1> HIDE DEF list, n, put
<1>5. m \in 2 .. n + 2 /\ (i = n + 1 <=> m = Len(put) + 1) /\ m # 1 /\ m > 1 /\ (i > 1 <=> i # 1)
  BY <1>1, <1>3, <1>4
<1>6. i # n + 1 => i \in 1..n /\ put[m] = list[i]
  BY <1>1, <1>3, <1>4
<1>7. i # 1 => put[m - 1] = list[i - 1]
  <2> SUFFICES ASSUME i # 1 PROVE put[m - 1] = list[i - 1]
    OBVIOUS
  <2>1. i - 1 \in 1..n /\ i - 1 + 1 = m - 1
    BY <1>1, <1>4
  <2>2. put[i - 1 + 1] = list[i - 1]
    BY <1>3, <2>1
  <2> QED  BY <2>1, <2>2
<1>8. i = 1 => put[m - 1] = h
  <2>1. i = 1 => m - 1 = 1
    OBVIOUS
  <2> QED  BY <1>3, <2>1
<1>9. TextAt(d, q, m) = TextAt(d, p, i)
  BY <1>5, <1>6 DEF TextAt, list, n, put, PutBefore
<1>10. Around(q, B, m) = Around(p, B, i)
  <2>1. \A j \in i .. n : j + 1 \in m .. Len(put) /\ put[j + 1] = list[j]
    BY <1>1, <1>3, <1>4
  <2>2. \A j \in m .. Len(put) : j - 1 \in i .. n /\ list[j - 1] = put[j]
    <3> TAKE j \in m .. Len(put)
    <3>1. j - 1 \in i .. n /\ j - 1 \in 1 .. n /\ j - 1 + 1 = j
      BY <1>1, <1>3, <1>4
    <3> QED  BY <1>3, <3>1
  <2> DEFINE X == {list[j].entity : j \in i .. n}
             Y == {put[j].entity : j \in m .. Len(put)}
  <2>3. ASSUME NEW x \in X PROVE x \in Y
    <3>1. PICK j \in i .. n : x = list[j].entity
      OBVIOUS
    <3>2. j + 1 \in m .. Len(put) /\ x = put[j + 1].entity
      BY <2>1, <3>1
    <3> QED  BY <3>2
  <2>4. ASSUME NEW y \in Y PROVE y \in X
    <3>1. PICK j \in m .. Len(put) : y = put[j].entity
      OBVIOUS
    <3>2. j - 1 \in i .. n /\ y = list[j - 1].entity
      BY <2>2, <3>1
    <3> QED  BY <3>2
  <2>5. X = Y
    BY <2>3, <2>4
  <2> QED  BY <2>5 DEF Around, list, n, put
<1>11. BeganAt(q, m) = BeganAt(p, i)
  BY <1>5, <1>6 DEF BeganAt, list, n, put
<1>12. i # 1 => AboveAt(d, q, m) = AboveAt(d, p, i)
  BY <1>5, <1>7 DEF AboveAt, list, put
<1>13. LevelAt(q, m) = LevelAt(p, i)
  <2>1. CASE i = 1
    BY <1>5, <1>8, <2>1 DEF LevelAt, put
  <2>2. CASE i # 1
    BY <1>5, <1>7, <2>2 DEF LevelAt, list, put
  <2> QED  BY <2>1, <2>2
<1> QED  BY <1>9, <1>10, <1>11, <1>12, <1>13 DEF FrameMoved

(* What is marked when an entity is opened after t tokens of a text.       *)
OpensAfter(e, t, q) ==
  /\ PutBefore(self, e, q)
  /\ q.pos = IF self.cur = Null THEN t ELSE self.pos
  /\ e \in q.more /\ q.processed[e] = 0
  /\ \A f \in Entities :
       f \notin {e, self.cur} => (f \in q.more <=> f \in self.more) /\ q.processed[f] = self.processed[f]
  /\ self.cur # Null =>
       IF t = Len(Text(self)) THEN self.cur \notin q.more ELSE self.cur \in q.more /\ q.processed[self.cur] = t

(* Opened and Left make it so.                                             *)
LEMMA OpensAfterIs ==
  ASSUME IsDocument(doc), self \in Parser, Marks(self), OpenOnce(self), LevelsNest(self, Lowest(Len(parsers))),
         NEW e \in Entities, e \notin Listed(self), e # self.cur, self.cur # Null => self.cur \in self.more,
         NEW t \in Nat, t <= Len(Text(self)), NEW p, p = [Opened(self, e) EXCEPT !.at = "turn"],
         NEW q, q = Left(p, t)
  PROVE  /\ OpensAfter(e, t, q) /\ q.cur = Null
         /\ p.cur = self.cur /\ p.level = self.level /\ Text(p) = Text(self)
         /\ p.open = <<[entity |-> e, level |-> self.level]>> \o self.open /\ OpenOnce(p) /\ p \in Parser
<1>1. IsOpened(self, e, p)
  BY OpenedIs
<1>2. /\ p.text = self.text /\ p.pos = self.pos /\ p.open = <<[entity |-> e, level |-> self.level]>> \o self.open
      /\ p.more = self.more \cup {e} /\ p.processed = [self.processed EXCEPT ![e] = 0]
      /\ p.level = self.level /\ p.at = "turn" /\ p.cur = self.cur /\ p.s = self.s
      /\ p.open \in Seq(OpenedEntity) => p \in Parser
  BY <1>1 DEF IsOpened
<1>3. OpenOnce(p) /\ p.open \in Seq(OpenedEntity)
  <2> DEFINE lowest == Lowest(Len(parsers))
  <2>1. LevelsNest(self, lowest)
    OBVIOUS
  <2> HIDE DEF lowest
  <2> QED  BY <1>2, <2>1, Longer
<1>4. Text(p) = Text(self)
  BY <1>2 DEF Text
<1>5. self.processed \in [Entities -> Nat] /\ self.cur \in Entities \cup {Null}
  BY Fields
<1>6. Marks(p)
  <2>1. \A f \in Entities : p.processed[f] <= Len(doc.decl[f].text)
    <3> TAKE f \in Entities
    <3>1. self.processed[f] <= Len(doc.decl[f].text) /\ Len(doc.decl[f].text) \in Nat
      BY DEF Marks, IsDocument
    <3>2. p.processed[f] = IF f = e THEN 0 ELSE self.processed[f]
      BY <1>2, <1>5
    <3> QED  BY <3>1, <3>2
  <2> QED  BY <1>2, <1>4, <2>1 DEF Marks
<1>7. /\ q.text = p.text /\ q.level = p.level /\ q.open = p.open /\ q.at = p.at /\ q.cur = Null
      /\ q.pos = (IF p.cur = Null THEN t ELSE p.pos) /\ MarksLeft(p, t, q)
  <2>1. IsDocument(doc) /\ p \in Parser /\ Marks(p) /\ t \in Nat /\ t <= Len(Text(p)) /\ q = Left(p, t)
    BY <1>2, <1>3, <1>4, <1>6
  <2> QED  BY ONLY <2>1, LeftIs
<1>8. PutBefore(self, e, q)
  BY <1>2, <1>7 DEF PutBefore
<1> DEFINE c == self.cur
           more == p.more
           processed == p.processed
           n == Len(Text(self))
<1>9. /\ q.more = IF c # Null /\ t = n THEN more \ {c} ELSE more
      /\ q.processed = IF c # Null /\ t # n THEN [processed EXCEPT ![c] = t] ELSE processed
  BY <1>2, <1>4, <1>7 DEF MarksLeft
<1>10. /\ more = self.more \cup {e} /\ processed \in [Entities -> Nat] /\ c \in Entities \cup {Null} /\ e # c
       /\ \A f \in Entities : processed[f] = IF f = e THEN 0 ELSE self.processed[f]
  <2> DEFINE old == self.processed
  <2>1. old \in [Entities -> Nat] /\ processed = [old EXCEPT ![e] = 0]
    BY <1>2, <1>5
  <2> HIDE DEF processed, old
  <2>2. processed \in [Entities -> Nat] /\ \A f \in Entities : processed[f] = IF f = e THEN 0 ELSE old[f]
    BY <2>1
  <2> QED  BY <1>2, <1>5, <2>2 DEF old
<1> HIDE DEF more, processed, n
<1>11. e \in q.more /\ q.processed[e] = 0
  BY <1>9, <1>10
<1>12. \A f \in Entities :
         f \notin {e, c} => (f \in q.more <=> f \in self.more) /\ q.processed[f] = self.processed[f]
  BY <1>9, <1>10
<1>13. c # Null => IF t = n THEN c \notin q.more ELSE c \in q.more /\ q.processed[c] = t
  BY <1>9, <1>10
<1> QED  BY <1>2, <1>3, <1>4, <1>7, <1>8, <1>11, <1>12, <1>13 DEF OpensAfter, n

(* The level the text began at is that of the second on the list.          *)
LEMMA StartOpened ==
  ASSUME EntityInv, self.at \in {"text", "back"}, self.cur # Null, NEW p \in Parser, OpenOnce(p), p.cur = self.cur,
         NEW h, p.open = <<h>> \o self.open
  PROVE  StartLevel(p) = self.open[1].level
<1>1. self.open # <<>> /\ self.open[1].entity = self.cur /\ self.open \in Seq(OpenedEntity)
  BY Now, Fields DEF ReadsHead
<1>2. Len(self.open) \in Nat /\ Len(self.open) >= 1
  BY <1>1
<1>3. Len(p.open) = Len(self.open) + 1 /\ p.open[2] = self.open[1] /\ DOMAIN p.open = 1..Len(p.open)
  <2> DEFINE list == self.open
  <2>1. list \in Seq(OpenedEntity) /\ p.open = <<h>> \o list /\ Len(list) \in Nat /\ Len(list) >= 1
    BY <1>1, <1>2
  <2> HIDE DEF list
  <2>2. Len(<<h>> \o list) = Len(list) + 1 /\ (<<h>> \o list)[2] = list[1]
    BY <2>1
  <2>3. p.open \in Seq(OpenedEntity)
    BY Fields
  <2> QED  BY <2>1, <2>2, <2>3 DEF list
<1>4. 2 \in DOMAIN p.open
  BY <1>2, <1>3
<1>5. \A i \in DOMAIN p.open : p.open[i].entity = p.cur => i = 2
  BY <1>1, <1>3, <1>4 DEF OpenOnce
<1>6. (CHOOSE i \in DOMAIN p.open : p.open[i].entity = p.cur) = 2
  BY <1>1, <1>3, <1>4, <1>5
<1> QED  BY <1>3, <1>6 DEF StartLevel

(* The texts when an entity has been opened: its own is begun, and the one *)
(* it is referred to in waits for it.                                      *)
LEMMA OpensFrames ==
  ASSUME EntityInv, RefInv, Reading, NEW e \in Entities, e = Item, e \notin self.isOpen, Follows(doc, e),
         NEW t, t = self.s + 1, NEW q, OpensAfter(e, t, q),
         Kind("content") /\ self.cur # Null /\ t = Len(Text(self)) => self.level = self.open[1].level
  PROVE  \A i \in 1 .. Len(q.open) + 1 : FrameOK(doc, q, Bef, i)
<1> DEFINE list == self.open
           n == Len(list)
<1>1. /\ self.at = "text" /\ cause = "NONE" /\ self \in Parser /\ IsDocument(doc) /\ OpenOnce(self)
      /\ Text(self) \in Seq(Items) /\ self.level \in Nat /\ TextAt(doc, self, 1) = Text(self)
      /\ self.cur = Null => list = <<>>
      /\ self.cur # Null => /\ list # <<>> /\ list[1].entity = self.cur /\ self.cur \in self.more
                            /\ BeganAt(self, 1) = list[1].level
  BY Now, HeadIs DEF Reading
<1>2. list \in Seq(OpenedEntity) /\ n \in Nat /\ DOMAIN list = 1..n /\ \A i \in 1..n : list[i].entity \in Entities
  <2>1. list \in Seq(OpenedEntity)
    BY <1>1, Fields
  <2>2. n \in Nat /\ DOMAIN list = 1..n /\ \A i \in 1..n : list[i] \in OpenedEntity
    BY <2>1
  <2> QED  BY <2>1, <2>2 DEF OpenedEntity
<1>3. ReadOK(doc, self, Bef) /\ self.isOpen = Around(self, Bef, 1)
  BY <1>1, RefNow
<1>4. \A i \in 1..n : list[i].entity # e
  BY <1>2, <1>3 DEF Around
<1>5. /\ e \in NamedIn(doc, Text(self)) /\ LedTo(doc, Text(self), Around(self, Bef, 1))
      /\ t \in Nat /\ t <= Len(Text(self)) /\ Ready(t, self.level, {e})
  BY NamedNext
<1>6. PutBefore(self, e, q) /\ (q.pos = IF self.cur = Null THEN t ELSE self.pos) /\ e \in q.more /\ q.processed[e] = 0
  BY DEF OpensAfter
<1>7. q.open = <<[entity |-> e, level |-> self.level]>> \o list /\ q.level = self.level /\ q.at = "turn"
      /\ q.text = self.text
  BY <1>6 DEF PutBefore
<1>8. Len(q.open) = n + 1 /\ q.open[1].entity = e /\ q.open[1].level = self.level
  <2> DEFINE h == [entity |-> e, level |-> self.level]
  <2>1. q.open = <<h>> \o list
    BY <1>7
  <2>2. h.entity = e /\ h.level = self.level
    OBVIOUS
  <2> HIDE DEF h, list
  <2>3. Len(<<h>> \o list) = Len(list) + 1 /\ (<<h>> \o list)[1] = h
    BY <1>2
  <2> QED  BY <2>1, <2>2, <2>3
<1>9. FrameOK(doc, q, Bef, 1)
  <2>1. 1 # Len(q.open) + 1 /\ 1 <= Len(q.open)
    BY <1>2, <1>8
  <2>2. /\ TextAt(doc, q, 1) = doc.decl[e].text /\ AboveAt(doc, q, 1) = {} /\ LevelAt(q, 1) = self.level
        /\ BeganAt(q, 1) = self.level /\ EndedAt(q, 1) = FALSE
    BY <1>6, <1>7, <1>8, <2>1 DEF TextAt, AboveAt, LevelAt, BeganAt, EndedAt
  <2>3. TakenAt(doc, q, 1) = 0
    BY <1>6, <1>7, <1>8, <2>1 DEF TakenAt
  <2>4. Around(q, Bef, 1) = Around(self, Bef, 1) \cup {e}
    <3> DEFINE i == 1
               m == 2
    <3>1. Around(q, Bef, m) = Around(self, Bef, i)
      <4>1. i \in 1 .. Len(self.open) + 1 /\ m = i + 1 /\ self \in Parser /\ PutBefore(self, e, q)
        BY <1>1, <1>2, <1>6
      <4> HIDE DEF i, m
      <4>2. FrameMoved(doc, Bef, self, i, q, m)
        BY ONLY <4>1, PutFrame
      <4> QED  BY <4>2 DEF FrameMoved
    <3>2. \A j : j \in 1 .. Len(q.open) <=> j = 1 \/ j \in 2 .. Len(q.open)
      BY <1>2, <1>8
    <3>3. {q.open[j].entity : j \in 1 .. Len(q.open)} = {q.open[j].entity : j \in 2 .. Len(q.open)} \cup {e}
      BY <1>8, <3>2
    <3>4. Around(q, Bef, 1) = Around(q, Bef, 2) \cup {e}
      BY <3>3 DEF Around
    <3> QED  BY <3>1, <3>4
  <2> DEFINE text == doc.decl[e].text
             around == Around(self, Bef, 1) \cup {e}
             level == self.level
             ended == FALSE
  <2>5. text \in Seq(Items) /\ level \in Nat /\ LedTo(doc, text, around)
    <3>1. LedTo(doc, text, around)
      BY <1>5, LedOn
    <3> QED  BY <1>1, <3>1 DEF IsDocument
  <2> HIDE DEF text, around, level
  <2>6. Frame(doc, text, around, 0, {}, level, level, FALSE)
    BY <2>5, FrameBegins
  <2> QED  BY <2>2, <2>3, <2>4, <2>6 DEF FrameOK, text, around, level
<1>10. ASSUME NEW i \in 1 .. n + 1, NEW m, m = i + 1 PROVE FrameOK(doc, q, Bef, m)
  <2>1. /\ TextAt(doc, q, m) = TextAt(doc, self, i) /\ Around(q, Bef, m) = Around(self, Bef, i)
        /\ BeganAt(q, m) = BeganAt(self, i) /\ (i # 1 => AboveAt(doc, q, m) = AboveAt(doc, self, i))
        /\ LevelAt(q, m) = LevelAt(self, i)
    <3>1. i \in 1 .. Len(self.open) + 1 /\ m = i + 1 /\ self \in Parser /\ PutBefore(self, e, q)
      BY <1>1, <1>6, <1>10
    <3>2. FrameMoved(doc, Bef, self, i, q, m)
      BY ONLY <3>1, PutFrame
    <3> QED  BY <3>2 DEF FrameMoved
  <2>2. /\ (m = Len(q.open) + 1 <=> i = n + 1) /\ m # 1 /\ (m <= Len(q.open) <=> i # n + 1)
        /\ i # n + 1 => i \in 1..n /\ q.open[m].entity = list[i].entity
    <3>1. /\ (m = Len(q.open) + 1 <=> i = n + 1) /\ m # 1 /\ (m <= Len(q.open) <=> i # n + 1)
          /\ i # n + 1 => i \in 1..n
      BY <1>2, <1>8, <1>10
    <3>2. i # n + 1 => q.open[m].entity = list[i].entity
      <4> SUFFICES ASSUME i # n + 1 PROVE q.open[m] = list[i]
        OBVIOUS
      <4> DEFINE h == [entity |-> e, level |-> self.level]
      <4>1. q.open = <<h>> \o list /\ i \in 1..Len(list)
        BY <1>7, <3>1
      <4> HIDE DEF h, list
      <4>2. (<<h>> \o list)[i + 1] = list[i]
        <5>1. i + 1 \in 1 .. Len(list) + 1 /\ i + 1 > 1 /\ i + 1 - 1 = i
          BY <1>2, <4>1
        <5> QED  BY <1>2, <5>1
      <4> QED  BY <1>10, <4>1, <4>2
    <3> QED  BY <3>1, <3>2
  <2>3. CASE i = 1
    <3>1. LevelAt(self, 1) = self.level /\ AboveAt(doc, q, m) = {e}
      <4>1. m = 2
        BY <1>10, <2>3
      <4> QED  BY <1>8, <4>1 DEF LevelAt, AboveAt
    <3>2. TakenAt(doc, q, m) = t /\ (Kind("content") /\ EndedAt(q, m) => self.level = BeganAt(self, 1))
      <4>1. CASE n = 0
        <5>1. self.cur = Null
          BY <1>1, <1>2, <4>1
        <5>2. m = Len(q.open) + 1 /\ ~EndedAt(q, m)
          BY <2>2, <2>3, <4>1 DEF EndedAt
        <5> QED  BY <1>6, <1>7, <2>2, <5>1, <5>2 DEF TakenAt
      <4>2. CASE n # 0
        <5>1. self.cur # Null /\ m # Len(q.open) + 1 /\ q.open[m].entity = self.cur
          <6>1. i # n + 1
            BY <1>2, <2>3, <4>2
          <6>2. list # <<>>
            BY <4>2
          <6> QED  BY <1>1, <2>2, <2>3, <6>1, <6>2
        <5>2. IF t = Len(Text(self)) THEN self.cur \notin q.more ELSE self.cur \in q.more /\ q.processed[self.cur] = t
          BY <5>1 DEF OpensAfter
        <5>3. TextAt(doc, q, m) = Text(self)
          BY <1>1, <2>1, <2>3
        <5>4. TakenAt(doc, q, m) = t
          BY <1>7, <2>2, <5>1, <5>2, <5>3 DEF TakenAt
        <5>5. Kind("content") /\ EndedAt(q, m) => self.level = BeganAt(self, 1)
          BY <1>1, <5>1, <5>2 DEF EndedAt
        <5> QED  BY <5>4, <5>5
      <4> QED  BY <4>1, <4>2
    <3>3. Frame(doc, Text(self), Around(self, Bef, 1), t, {e}, self.level, BeganAt(self, 1), EndedAt(q, m))
      BY <1>5, <3>2 DEF Ready, Frame, Kind
    <3> QED  BY <1>1, <2>1, <2>3, <3>1, <3>2, <3>3 DEF FrameOK
  <2>4. CASE i # 1
    <3>1. self.cur # Null /\ q.pos = self.pos
      <4>1. n # 0
        BY <1>10, <2>4
      <4>2. list # <<>>
        BY <1>2, <4>1
      <4> QED  BY <1>1, <1>6, <4>2
    <3>2. i # n + 1 => (list[i].entity \in q.more <=> list[i].entity \in self.more)
                       /\ q.processed[list[i].entity] = self.processed[list[i].entity]
      <4> SUFFICES ASSUME i # n + 1 PROVE (list[i].entity \in q.more <=> list[i].entity \in self.more)
                                          /\ q.processed[list[i].entity] = self.processed[list[i].entity]
        OBVIOUS
      <4>1. i \in 1..n /\ 1 \in 1..n
        BY <1>2, <2>2
      <4>2. list[i].entity # self.cur
        BY <1>1, <1>2, <2>4, <3>1, <4>1 DEF OpenOnce
      <4>3. list[i].entity \in Entities /\ list[i].entity \notin {e, self.cur}
        BY <1>2, <1>4, <4>1, <4>2
      <4> QED  BY <4>3 DEF OpensAfter
    <3>3. TakenAt(doc, q, m) = TakenAt(doc, self, i)
      BY <1>7, <2>1, <2>2, <2>4, <3>1, <3>2 DEF TakenAt
    <3>4. EndedAt(q, m) = EndedAt(self, i)
      <4>1. i <= n <=> i # n + 1
        BY <1>2, <1>10
      <4>2. EndedAt(q, m) <=> EndedAt(self, i)
        BY <2>2, <3>2, <4>1 DEF EndedAt
      <4> QED  BY <4>2 DEF EndedAt
    <3>5. FrameOK(doc, self, Bef, i)
      BY <1>1, <1>3, <1>10 DEF ReadOK
    <3> QED  BY <2>1, <2>4, <3>3, <3>4, <3>5 DEF FrameOK
  <2> QED  BY <2>3, <2>4
<1>11. \A m \in 1 .. Len(q.open) + 1 : m = 1 \/ (m - 1 \in 1 .. n + 1 /\ m = (m - 1) + 1)
  BY <1>2, <1>8
<1> QED  BY <1>9, <1>10, <1>11

(* An entity is opened where its text has been referred to.                *)
LEMMA OpenEntityRef ==
  ASSUME EntityInv, RefInv, NothingLost, NEW e \in Entities, OpenEntity(e)
  PROVE  RefInv'
<1> DEFINE p == [Opened(self, e) EXCEPT !.at = "turn"]
           t == self.s + 1
<1>1. /\ Takes(e) /\ Error(e) = "NONE" /\ doc.decl[e].is \in {"internal", "declared"} /\ UNCHANGED doc
      /\ Kind("content") => doc.expand
  BY DEF OpenEntity, Refers
<1>2. Reading /\ e = Item /\ self.at = "text" /\ cause = "NONE"
  BY <1>1, Taken
<1>3. /\ IsDocument(doc) /\ self \in Parser /\ Marks(self) /\ OpenOnce(self)
      /\ LevelsNest(self, Lowest(Len(parsers)))
  BY Now
<1>4. ReadOK(doc, self, Bef) /\ self.isOpen = Around(self, Bef, 1) /\ doc \in Documents
  BY <1>2, RefNow
<1>5. Kind("value") => IsRoot
  BY <1>4, OpensAtRoot
<1>6. Leave(p, t)
  BY <1>5 DEF OpenEntity
<1>7. e \notin self.isOpen
  BY <1>1 DEF Error, ParameterError, GeneralError
<1>8. doc.decl[e].is # "declared"
  <2> SUFFICES ASSUME doc.decl[e].is = "declared" PROVE FALSE
    OBVIOUS
  <2>1. Kind("value") /\ IsRoot
    BY <1>3, <1>5 DEF IsDocument, Kind
  <2> QED  BY <1>1, <2>1 DEF Error, ParameterError
<1>9. Follows(doc, e)
  BY <1>1, <1>8 DEF Follows, Kind
<1>10. /\ e \in NamedIn(doc, Text(self)) /\ LedTo(doc, Text(self), Around(self, Bef, 1))
       /\ t \in Nat /\ t <= Len(Text(self)) /\ Ready(t, self.level, {e})
  BY <1>2, <1>9, NamedNext
<1>11. /\ Text(self) \in Seq(Items) /\ self.level \in Nat /\ BeganAt(self, 1) \in Nat
       /\ self.cur # Null => /\ self.cur \in self.more /\ BeganAt(self, 1) = self.open[1].level
                             /\ Text(self) = doc.decl[self.cur].text /\ self.cur \in Around(self, Bef, 1)
  BY <1>2, HeadIs
<1>12. e \notin Listed(self) /\ e # self.cur
  <2>1. DOMAIN self.open = 1..Len(self.open)
    BY <1>3, Fields
  <2>2. Listed(self) \subseteq Around(self, Bef, 1)
    BY <2>1 DEF Listed, Around
  <2>3. self.cur = Null => e # self.cur
    BY EntityAssumption DEF EntityAssumption
  <2> QED  BY <1>4, <1>7, <1>11, <2>2, <2>3
<1> DEFINE q == Left(p, t)
<1>13. p = [Opened(self, e) EXCEPT !.at = "turn"] /\ q = Left(p, t) /\ t = self.s + 1
  OBVIOUS
<1> HIDE DEF p, q, t
<1>14. /\ OpensAfter(e, t, q) /\ q.cur = Null /\ p.cur = self.cur /\ p.level = self.level /\ Text(p) = Text(self)
       /\ p.open = <<[entity |-> e, level |-> self.level]>> \o self.open /\ OpenOnce(p) /\ p \in Parser
  <2>1. /\ IsDocument(doc) /\ self \in Parser /\ Marks(self) /\ OpenOnce(self)
        /\ LevelsNest(self, Lowest(Len(parsers))) /\ e \in Entities /\ e \notin Listed(self) /\ e # self.cur
        /\ self.cur # Null => self.cur \in self.more
        /\ t \in Nat /\ t <= Len(Text(self)) /\ p = [Opened(self, e) EXCEPT !.at = "turn"] /\ q = Left(p, t)
    BY <1>3, <1>10, <1>11, <1>12, <1>13
  <2> QED  BY ONLY <2>1, OpensAfterIs
<1>15. self.cur # Null => StartLevel(p) = self.open[1].level
  BY <1>2, <1>14, StartOpened
<1>16. CASE EndsAsync(p, t)
  <2>1. Fail("ASYNC_ENTITY")
    BY <1>6, <1>16 DEF Leave
  <2>2. Kind("content") /\ self.cur # Null /\ t = Len(Text(self)) /\ self.level # BeganAt(self, 1)
    BY <1>11, <1>14, <1>15, <1>16 DEF EndsAsync
  <2>3. Balanced(Text(self), Len(Text(self)), self.level, BeganAt(self, 1))
    BY <1>10, <2>2 DEF Ready, Frame, Kind
  <2>4. ~WellNested(Text(self))
    BY <1>11, <2>2, <2>3, NestEnds
  <2>5. RefusedOK(doc, "ASYNC_ENTITY")
    BY <1>4, <1>11, <2>2, <2>4 DEF RefusedOK, ReadOK, OpenOK
  <2> QED  BY <1>1, <1>2, <2>1, <2>5, RefFail
<1>17. CASE ~EndsAsync(p, t)
  <2>1. Becomes(q) /\ UNCHANGED cause
    BY <1>6, <1>13, <1>17 DEF Leave
  <2>2. Kind("content") /\ self.cur # Null /\ t = Len(Text(self)) => self.level = self.open[1].level
    BY <1>14, <1>15, <1>17 DEF EndsAsync
  <2>3. \A i \in 1 .. Len(q.open) + 1 : FrameOK(doc, q, Bef, i)
    BY <1>2, <1>7, <1>9, <1>13, <1>14, <2>2, OpensFrames
  <2>4. q.text = self.text /\ q.at = "turn" /\ q.open = <<[entity |-> e, level |-> self.level]>> \o self.open
    BY <1>14 DEF OpensAfter, PutBefore
  <2>5. Around(q, Bef, 1) \subseteq Around(self, Bef, 1) \cup {e}
    <3> DEFINE h == [entity |-> e, level |-> self.level]
               list == self.open
    <3>1. list \in Seq(OpenedEntity) /\ q.open = <<h>> \o list /\ h.entity = e
      BY <1>3, <2>4, Fields
    <3>2. Around(self, Bef, 1) = Bef \cup {list[j].entity : j \in 1..Len(list)}
      BY DEF Around
    <3> HIDE DEF h, list
    <3>3. Len(<<h>> \o list) = Len(list) + 1 /\ (<<h>> \o list)[1] = h
      BY <3>1
    <3>4. ASSUME NEW j \in 1 .. Len(q.open) PROVE q.open[j].entity \in {list[k].entity : k \in 1..Len(list)} \cup {e}
      <4>1. CASE j = 1
        BY <3>1, <3>3, <4>1
      <4>2. CASE j # 1
        <5> DEFINE k == j - 1
        <5>1. k \in 1..Len(list) /\ j \in 1 .. Len(list) + 1 /\ j > 1
          BY <3>1, <3>3, <4>2
        <5>2. (<<h>> \o list)[j] = list[k]
          BY <3>1, <5>1
        <5> HIDE DEF k
        <5> QED  BY <3>1, <5>1, <5>2
      <4> QED  BY <4>1, <4>2
    <3>5. Around(q, Bef, 1) = Bef \cup {q.open[j].entity : j \in 1 .. Len(q.open)}
      BY DEF Around
    <3> QED  BY <3>2, <3>4, <3>5
  <2>6. e \in ReachedIn(doc, doc.text)
    BY <1>10, LedOn
  <2>7. OpenOK(doc, Around(q, Bef, 1))
    BY <1>4, <1>8, <2>5, <2>6 DEF ReadOK, OpenOK
  <2>8. ReadOK(doc, q, Bef)
    BY <1>14, <2>3, <2>4, <2>7 DEF ReadOK
  <2> QED  BY <1>1, <1>2, <1>5, <2>1, <2>4, <2>8, RefTop
<1> QED  BY <1>16, <1>17

-----------------------------------------------------------------------------
(* What is marked in the parser made for an external entity.               *)
LEMMA ChildMarks ==
  ASSUME NEW e \in Entities, NEW c, c = Child(e)
  PROVE  /\ c.level = 1 /\ c.pos = 0
         /\ Kind("value") => c.more = self.more /\ c.processed = self.processed
<1> DEFINE text == doc.decl[e].text
           isOpen == self.isOpen \cup {e}
           none == [f \in Entities |-> 0]
           more == self.more
           processed == self.processed
<1>1. Kind("content") => ~Kind("value")
  BY DEF Kind
<1>2. CASE Kind("content")
  <2> DEFINE r == Fresh(text, "expansion", 1)
  <2>1. c = [r EXCEPT !.isOpen = isOpen]
    BY <1>2 DEF Child
  <2>2. r = [text |-> text, account |-> "expansion", pos |-> 0, level |-> 1, open |-> <<>>, isOpen |-> {},
             more |-> {}, processed |-> none, at |-> "turn", cur |-> Null, s |-> 0, error |-> "NONE"]
    BY DEF Fresh
  <2> HIDE DEF r, text, isOpen, none, more, processed
  <2> QED  BY <1>1, <1>2, <2>1, <2>2
<1>3. CASE ~Kind("content")
  <2> DEFINE r == Fresh(text, "direct", 1)
  <2>1. c = [r EXCEPT !.isOpen = isOpen, !.more = more, !.processed = processed]
    BY <1>3 DEF Child
  <2>2. r = [text |-> text, account |-> "direct", pos |-> 0, level |-> 1, open |-> <<>>, isOpen |-> {},
             more |-> {}, processed |-> none, at |-> "turn", cur |-> Null, s |-> 0, error |-> "NONE"]
    BY DEF Fresh
  <2> HIDE DEF r, text, isOpen, none, more, processed
  <2>3. c.level = 1 /\ c.pos = 0 /\ c.more = more /\ c.processed = processed
    BY <2>1, <2>2
  <2> QED  BY <2>3 DEF more, processed
<1> QED  BY <1>2, <1>3

(* A parser c is added, and the last one, now w, waits for it.             *)
WaitsFor(n, w, c) ==
  /\ w.text = self.text /\ w.more = self.more /\ w.processed = self.processed
  /\ DOMAIN parsers' = 1 .. n + 1 /\ parsers'[n] = w /\ parsers'[n + 1] = c
  /\ \A m \in 1..n : m # n => parsers'[m] = parsers[m]
  /\ doc.kind = "value" => c.more = w.more /\ c.processed = w.processed
BeforeNext(d, w) == w.isOpen \cup {TextOf(d, w)[w.s + 1]}

(* Those above the last stay as they are.                                  *)
LEMMA RefMore ==
  ASSUME EntityInv, RefInv, cause = "NONE", UNCHANGED <<doc, cause>>, NEW n, n = Len(parsers), NEW w, NEW c,
         WaitsFor(n, w, c), ReadOK(doc, w, Bef), NEW B, B = BeforeNext(doc, w), ReadOK(doc, c, B)
  PROVE  RefInv'
<1>0. /\ w.text = self.text /\ w.more = self.more /\ w.processed = self.processed
      /\ DOMAIN parsers' = 1 .. n + 1 /\ parsers'[n] = w /\ parsers'[n + 1] = c
      /\ \A m \in 1..n : m # n => parsers'[m] = parsers[m]
      /\ doc.kind = "value" => c.more = w.more /\ c.processed = w.processed
      /\ B = w.isOpen \cup {TextOf(doc, w)[w.s + 1]}
  BY DEF WaitsFor, BeforeNext
<1> USE <1>0
<1>1. n \in Nat /\ n > 0 /\ DOMAIN parsers = 1..n /\ self = parsers[n]
  BY Now, Top
<1>2. ASSUME NEW k \in 1..n PROVE BeforeIn(doc, parsers', k) = BeforeIn(doc, parsers, k)
  <2>1. k # 1 => k - 1 \in 1..n /\ k - 1 # n
    BY <1>1
  <2>2. k # 1 => parsers'[k - 1] = parsers[k - 1]
    BY <2>1
  <2> QED  BY <2>2 DEF BeforeIn
<1>3. ASSUME NEW k \in 1..n
      PROVE  ReadOK(doc, parsers'[k], BeforeIn(doc, parsers', k)) /\ Shared(doc, parsers', k)
  <2>1. ReadOK(doc, parsers[k], BeforeIn(doc, parsers, k)) /\ Shared(doc, parsers, k)
    BY <1>1, <1>3 DEF RefInv
  <2>2. ReadOK(doc, parsers'[k], BeforeIn(doc, parsers', k))
    <3>1. CASE k = n
      BY <1>2, <1>3, <3>1 DEF Bef
    <3>2. CASE k # n
      BY <1>2, <1>3, <2>1, <3>2
    <3> QED  BY <3>1, <3>2
  <2>3. Shared(doc, parsers', k)
    <3> SUFFICES ASSUME k > 1, doc.kind = "value"
                 PROVE  parsers'[k].more = parsers'[k - 1].more /\ parsers'[k].processed = parsers'[k - 1].processed
      BY DEF Shared
    <3>1. k - 1 \in 1..n /\ k - 1 # n
      BY <1>1
    <3>2. parsers'[k - 1] = parsers[k - 1]
      BY <3>1
    <3>3. parsers[k].more = parsers[k - 1].more /\ parsers[k].processed = parsers[k - 1].processed
      BY <2>1 DEF Shared
    <3>4. parsers'[k].more = parsers[k].more /\ parsers'[k].processed = parsers[k].processed
      <4>1. CASE k = n
        BY <1>1, <4>1
      <4>2. CASE k # n
        BY <1>3, <4>2
      <4> QED  BY <4>1, <4>2
    <3> QED  BY <3>2, <3>3, <3>4
  <2> QED  BY <2>2, <2>3
<1>4. ReadOK(doc, parsers'[n + 1], BeforeIn(doc, parsers', n + 1)) /\ Shared(doc, parsers', n + 1)
  <2> DEFINE m == n + 1
  <2>1. m # 1 /\ m - 1 = n /\ parsers'[m] = c /\ parsers'[m - 1] = w
    BY <1>1
  <2> HIDE DEF m
  <2>2. BeforeIn(doc, parsers', m) = B
    BY <2>1 DEF BeforeIn
  <2>3. Shared(doc, parsers', m)
    BY <2>1 DEF Shared
  <2>4. ReadOK(doc, parsers'[m], BeforeIn(doc, parsers', m))
    BY <2>1, <2>2
  <2> QED  BY <2>3, <2>4 DEF m
<1>5. parsers'[1].text = doc.text
  <2>1. parsers[1].text = doc.text /\ 1 \in 1..n
    BY <1>1 DEF RefInv
  <2>2. CASE n = 1
    BY <1>1, <2>1, <2>2
  <2>3. CASE n # 1
    BY <2>1, <2>3
  <2> QED  BY <2>2, <2>3
<1>6. doc \in Documents /\ RefusedOK(doc, cause)
  BY DEF RefInv
<1>7. \A m \in DOMAIN parsers' : m \in 1..n \/ m = n + 1
  BY <1>1
<1>8. \A m \in DOMAIN parsers' : ReadOK(doc, parsers'[m], BeforeIn(doc, parsers', m)) /\ Shared(doc, parsers', m)
  BY <1>3, <1>4, <1>7
<1> QED  BY <1>5, <1>6, <1>8 DEF RefInv

(* An external entity is read where it has been referred to.               *)
LEMMA ReadExternalRef ==
  ASSUME EntityInv, RefInv, NEW e \in Entities, ReadExternal(e)
  PROVE  RefInv'
<1> DEFINE n == Len(parsers)
           w == [self EXCEPT !.at = "external"]
           c == Child(e)
           B == Around(self, Bef, 1) \cup {e}
<1>1. /\ Takes(e) /\ Error(e) = "NONE" /\ doc.decl[e].is = "external" /\ doc.handler /\ UNCHANGED <<doc, cause>>
  BY DEF ReadExternal, Refers
<1>2. Reading /\ e = Item /\ self.at = "text" /\ cause = "NONE"
  BY <1>1, Taken
<1>3. /\ IsDocument(doc) /\ self \in Parser /\ Marks(self) /\ OpenOnce(self) /\ Chain(parsers)
  BY Now
<1>4. n \in Nat /\ n > 0 /\ n \in DOMAIN parsers /\ DOMAIN parsers = 1..n /\ self = parsers[n]
      /\ parsers \in Seq(Parser)
  BY <1>3, Top DEF Chain
<1>5. ReadOK(doc, self, Bef) /\ self.isOpen = Around(self, Bef, 1)
  BY <1>2, RefNow
<1>6. Follows(doc, e)
  BY <1>1 DEF Follows
<1>7. /\ e \in NamedIn(doc, Text(self)) /\ LedTo(doc, Text(self), Around(self, Bef, 1))
      /\ Ready(self.s + 1, self.level, {e})
  BY <1>2, <1>6, NamedNext
<1>8. /\ TextAt(doc, self, 1) = Text(self)
      /\ self.cur = Null => self.open = <<>>
      /\ self.cur # Null => self.open # <<>> /\ self.open[1].entity = self.cur /\ self.cur \in self.more
  BY <1>2, HeadIs
<1>9. DOMAIN parsers' = 1 .. n + 1 /\ parsers'[n] = w /\ parsers'[n + 1] = c
      /\ \A m \in 1..n : m # n => parsers'[m] = parsers[m]
  <2> DEFINE ps == [parsers EXCEPT ![n] = w]
  <2>1. parsers' = Append([parsers EXCEPT ![n].at = "external"], c)
    BY DEF ReadExternal
  <2>2. [parsers EXCEPT ![n].at = "external"] = ps
    BY <1>4
  <2>3. w \in Parser /\ Len(parsers) = n
    BY <1>3 DEF Parser
  <2> HIDE DEF c, w, n
  <2>4. ps \in Seq(Parser) /\ Len(ps) = n /\ ps[n] = w /\ \A m \in 1..n : m # n => ps[m] = parsers[m]
    BY <1>4, <2>3
  <2>5. parsers' = Append(ps, c)
    BY <2>1, <2>2
  <2>6. c \in Parser
    BY <1>3, ChildIs DEF c
  <2> HIDE DEF ps
  <2>7. DOMAIN parsers' = 1 .. n + 1 /\ parsers'[n + 1] = c /\ \A m \in 1..n : parsers'[m] = ps[m]
    BY <1>4, <2>4, <2>5, <2>6
  <2> QED  BY <1>4, <2>4, <2>7
<1>10. /\ w \in Parser /\ w.text = self.text /\ w.pos = self.pos /\ w.open = self.open /\ w.isOpen = self.isOpen
       /\ w.more = self.more /\ w.processed = self.processed /\ w.level = self.level /\ w.at = "external"
       /\ w.cur = self.cur /\ w.s = self.s
  BY <1>3 DEF Parser
<1> HIDE DEF w
<1>11. FrameOK(doc, w, Bef, 1)
  <2>1. /\ TextAt(doc, w, 1) = TextAt(doc, self, 1) /\ Around(w, Bef, 1) = Around(self, Bef, 1)
        /\ BeganAt(w, 1) = BeganAt(self, 1)
    <3>1. w.open = self.open /\ w.text = self.text
      BY <1>10
    <3> QED  BY <3>1, ListIs
  <2>2. LevelAt(w, 1) = self.level /\ TakenAt(doc, w, 1) = self.s + 1
    BY <1>10 DEF LevelAt, TakenAt
  <2>3. AboveAt(doc, w, 1) = {e}
    BY <1>2, <1>8, <1>10, <2>1 DEF AboveAt, Item
  <2>4. ~EndedAt(w, 1)
    <3>1. self.open = <<>> => Len(self.open) = 0
      OBVIOUS
    <3> QED  BY <1>8, <1>10, <3>1 DEF EndedAt
  <2>5. Frame(doc, Text(self), Around(self, Bef, 1), self.s + 1, {e}, self.level, BeganAt(self, 1), EndedAt(w, 1))
    BY <1>7, <2>4 DEF Ready, Frame
  <2> QED  BY <1>8, <2>1, <2>2, <2>3, <2>5 DEF FrameOK
<1>12. ReadOK(doc, w, Bef)
  <2>1. Keeps(w)
    BY <1>10 DEF Keeps
  <2>2. \A i \in 1 .. Len(self.open) + 1 : FrameOK(doc, self, Bef, i)
    BY <1>2, <1>5 DEF ReadOK
  <2>3. \A i \in 1 .. Len(w.open) + 1 : FrameOK(doc, w, Bef, i)
    BY <1>3, <1>11, <2>1, <2>2, FramesKept
  <2>4. Around(w, Bef, 1) = Around(self, Bef, 1)
    BY <1>10 DEF Around
  <2> QED  BY <1>5, <1>8, <1>10, <2>3, <2>4 DEF ReadOK
<1>13. /\ c.text = doc.decl[e].text /\ c.open = <<>> /\ c.cur = Null /\ c.at = "turn" /\ c.level = 1 /\ c.pos = 0
       /\ Kind("value") => c.more = self.more /\ c.processed = self.processed
  <2>1. c = Child(e)
    OBVIOUS
  <2> HIDE DEF c
  <2>2. c.text = doc.decl[e].text /\ c.open = <<>> /\ c.cur = Null /\ c.at = "turn"
    BY <1>3, <2>1, ChildIs
  <2>3. c.level = 1 /\ c.pos = 0 /\ (Kind("value") => c.more = self.more /\ c.processed = self.processed)
    BY <2>1, ChildMarks
  <2> QED  BY <2>2, <2>3
<1> HIDE DEF c
<1>14. B = BeforeNext(doc, w)
  <2>1. TextOf(doc, w) = Text(self)
    BY <1>10 DEF TextOf, Text
  <2> QED  BY <1>2, <1>5, <1>10, <2>1 DEF Item, BeforeNext
<1> HIDE DEF B
<1>15. FrameOK(doc, c, B, 1)
  <2>1. Len(c.open) = 0
    BY <1>13
  <2>2. /\ TextAt(doc, c, 1) = doc.decl[e].text /\ Around(c, B, 1) = B /\ TakenAt(doc, c, 1) = 0
        /\ AboveAt(doc, c, 1) = {} /\ LevelAt(c, 1) = 1 /\ BeganAt(c, 1) = 1 /\ EndedAt(c, 1) = FALSE
    <3>1. TextAt(doc, c, 1) = doc.decl[e].text /\ TakenAt(doc, c, 1) = 0
      BY <1>13, <2>1 DEF TextAt, TakenAt
    <3>2. AboveAt(doc, c, 1) = {} /\ LevelAt(c, 1) = 1 /\ BeganAt(c, 1) = 1
      BY <1>13, <2>1 DEF AboveAt, LevelAt, BeganAt
    <3>3. EndedAt(c, 1) = FALSE
      BY <2>1 DEF EndedAt
    <3>4. Around(c, B, 1) = B
      BY <2>1 DEF Around
    <3> QED  BY <3>1, <3>2, <3>3, <3>4
  <2> DEFINE text == doc.decl[e].text
             level == 1
             ended == FALSE
  <2>3. text \in Seq(Items) /\ level \in Nat
    BY <1>3 DEF IsDocument
  <2>4. LedTo(doc, text, B)
    BY <1>7, LedOn DEF B
  <2> HIDE DEF text, level
  <2>5. Frame(doc, text, B, 0, {}, level, level, FALSE)
    BY <2>3, <2>4, FrameBegins
  <2> QED  BY <2>2, <2>5 DEF FrameOK, text, level
<1>16. ReadOK(doc, c, B)
  <2>1. Len(c.open) = 0
    BY <1>13
  <2>2. \A i \in 1 .. Len(c.open) + 1 : i = 1
    BY <2>1
  <2>3. Around(c, B, 1) = B
    BY <2>1 DEF Around
  <2>4. e \in ReachedIn(doc, doc.text)
    BY <1>7, LedOn
  <2>5. OpenOK(doc, B)
    BY <1>1, <1>5, <2>4 DEF B, ReadOK, OpenOK
  <2>6. \A i \in 1 .. Len(c.open) + 1 : FrameOK(doc, c, B, i)
    BY <1>15, <2>2
  <2> QED  BY <1>13, <2>3, <2>5, <2>6 DEF ReadOK
<1>17. doc.kind = "value" => c.more = w.more /\ c.processed = w.processed
  BY <1>10, <1>13 DEF Kind
<1>18. n = Len(parsers)
  OBVIOUS
<1> HIDE DEF n
<1>19. WaitsFor(n, w, c)
  BY <1>9, <1>10, <1>17 DEF WaitsFor
<1>20. EntityInv /\ RefInv /\ cause = "NONE" /\ doc' = doc /\ cause' = cause
  BY <1>1, <1>2
<1> QED  BY ONLY <1>12, <1>14, <1>16, <1>18, <1>19, <1>20, RefMore

(* The parser of an external entity ends, and the one above it goes on:    *)
(* of the n parsers the last ends, and p before it, which waited for e,    *)
(* goes on as q.                                                           *)
EndsTo(n, k, p, e, q) ==
  /\ n \in Nat /\ k \in 1..n /\ k # n /\ k > 0 /\ n > 1 /\ DOMAIN parsers = 1..n /\ self = parsers[n] /\ k + 1 = n
  /\ UNCHANGED <<doc, cause>> /\ self.at = "done" /\ self \in Parser /\ ~IsRoot
  /\ DOMAIN parsers' = 1..k /\ parsers'[k] = q /\ \A m \in 1..k : m # k => parsers'[m] = parsers[m]
  /\ p \in Parser /\ OpenOnce(p) /\ ReadsHead(p) /\ p.at = "external" /\ ~Kind("attribute")
  /\ e \in Entities /\ doc.decl[e].is = "external" /\ self.text = doc.decl[e].text /\ IsBack(p, e, q)
EndsFrom(n, k, p, e, q) ==
  n = Len(parsers) /\ k = n - 1 /\ p = parsers[k] /\ e = Waits(parsers, k) /\ q = BackWith(p, e)
(* The shape of that step.                                                 *)
LEMMA EndsShape ==
  ASSUME EntityInv, ExternalEnds, NEW n, NEW k, NEW p, NEW e, NEW q, EndsFrom(n, k, p, e, q)
  PROVE  EndsTo(n, k, p, e, q)
<1>0. n = Len(parsers) /\ k = n - 1 /\ p = parsers[k] /\ e = Waits(parsers, k) /\ q = BackWith(p, e)
  BY DEF EndsFrom
<1> DEFINE qs == [Front(parsers) EXCEPT ![k] = q]
<1>1. /\ self.at = "done" /\ ~IsRoot /\ parsers' = qs /\ UNCHANGED <<doc, cause>>
  BY <1>0 DEF ExternalEnds, Waits, BackWith, BackAt
<1>2. Chain(parsers) /\ self \in Parser
  BY Now
<1>3. n \in Nat /\ n > 1 /\ self = parsers[n] /\ DOMAIN parsers = 1..n /\ Place(parsers, n)
  BY <1>0, <1>1, <1>2, Top
<1>4. k \in Nat /\ k > 0 /\ k \in 1..n /\ k # n /\ k < n /\ k + 1 = n
  BY <1>0, <1>3
<1>5. parsers \in Seq(Parser) /\ Len(parsers) = n /\ Place(parsers, k)
  BY <1>0, <1>2, <1>3, <1>4 DEF Chain
<1>6. Link(parsers, n)
  BY <1>3 DEF Place
<1>7. ~Kind("attribute") /\ p.at = "external" /\ e \in Entities /\ doc.decl[e].is = "external"
      /\ self.text = doc.decl[e].text
  <2>1. n - 1 = k /\ n > 1
    BY <1>0, <1>3
  <2> QED  BY <1>0, <1>3, <1>6, <2>1 DEF Link
<1>8. p \in Parser /\ OpenOnce(p) /\ ReadsHead(p)
  BY <1>0, <1>5 DEF Place, ParserOK
<1>9. IsBack(p, e, q)
  BY <1>0, <1>2, <1>8, BackIs
<1>10. q \in Parser
  BY <1>9 DEF IsBack
<1>11. DOMAIN qs = 1..k /\ qs[k] = q /\ \A m \in 1..k : m # k => qs[m] = parsers[m]
  <2> DEFINE front == Front(parsers)
  <2>1. front \in Seq(Parser) /\ Len(front) = k /\ \A m \in 1..k : front[m] = parsers[m]
    <3>1. front = SubSeq(parsers, 1, k)
      BY <1>4, <1>5 DEF Front
    <3> HIDE DEF front
    <3> QED  BY <1>3, <1>4, <1>5, <3>1
  <2>2. qs = [front EXCEPT ![k] = q]
    OBVIOUS
  <2> HIDE DEF front, qs
  <2> QED  BY <1>4, <1>10, <2>1, <2>2
<1> HIDE DEF qs
<1> QED  BY <1>1, <1>2, <1>3, <1>4, <1>7, <1>8, <1>9, <1>11 DEF EndsTo

(* What waited for an entity that is good goes on.                         *)
LEMMA BackFrames ==
  ASSUME NEW d, NEW B, NEW p \in Parser, p.at = "external", NEW q, q.open = p.open, q.text = p.text, q.pos = p.pos,
         q.level = p.level, q.s = p.s, q.more = p.more, q.processed = p.processed, q.at = "back",
         NEW e, e = TextAt(d, p, 1)[p.s + 1], Good(d, e),
         NEW i \in 1 .. Len(p.open) + 1, FrameOK(d, p, B, i)
  PROVE  FrameOK(d, q, B, i)
<1>1. /\ TextAt(d, q, i) = TextAt(d, p, i) /\ Around(q, B, i) = Around(p, B, i) /\ BeganAt(q, i) = BeganAt(p, i)
      /\ i > 1 => AboveAt(d, q, i) = AboveAt(d, p, i)
  BY ListIs
<1>2. LevelAt(q, i) = LevelAt(p, i) /\ EndedAt(q, i) = EndedAt(p, i)
  BY DEF LevelAt, EndedAt
<1>3. TakenAt(d, q, i) = TakenAt(d, p, i)
  BY <1>1 DEF TakenAt
<1>4. CASE i > 1
  BY <1>1, <1>2, <1>3, <1>4 DEF FrameOK
<1>5. CASE i = 1
  <2> DEFINE text == TextAt(d, p, i)
             taken == TakenAt(d, p, i)
  <2>1. AboveAt(d, p, i) = {e} /\ AboveAt(d, q, i) = {}
    BY <1>5 DEF AboveAt
  <2>2. Frame(d, text, Around(p, B, i), taken, {e}, LevelAt(p, i), BeganAt(p, i), EndedAt(p, i))
    BY <2>1 DEF FrameOK
  <2> HIDE DEF text, taken
  <2>3. Through(d, text, taken, {})
    <3>1. Through(d, text, taken, {e})
      BY <2>2 DEF Frame
    <3> QED  BY <3>1, ThroughGood
  <2>4. Frame(d, text, Around(p, B, i), taken, {}, LevelAt(p, i), BeganAt(p, i), EndedAt(p, i))
    BY <2>2, <2>3 DEF Frame
  <2> QED  BY <1>1, <1>2, <1>3, <2>1, <2>4 DEF FrameOK, text, taken
<1>6. Len(p.open) \in Nat
  BY Fields
<1>7. i > 1 \/ i = 1
  BY <1>6
<1> QED  BY <1>4, <1>5, <1>7

(* An external entity that has been read out is good.                      *)
LEMMA ExternalEndsRef ==
  ASSUME EntityInv, RefInv, ExternalEnds
  PROVE  RefInv'
<1>1. PICK n : n = Len(parsers)
  OBVIOUS
<1>2. PICK k : k = n - 1
  OBVIOUS
<1>3. PICK p : p = parsers[k]
  OBVIOUS
<1>4. PICK e : e = Waits(parsers, k)
  OBVIOUS
<1>5. PICK q : q = BackWith(p, e)
  OBVIOUS
<1>6. EndsFrom(n, k, p, e, q)
  BY ONLY <1>1, <1>2, <1>3, <1>4, <1>5 DEF EndsFrom
<1>7. EndsTo(n, k, p, e, q)
  BY <1>6, EndsShape
<1>8. /\ n \in Nat /\ k \in 1..n /\ k # n /\ k > 0 /\ n > 1 /\ DOMAIN parsers = 1..n /\ self = parsers[n] /\ k + 1 = n
      /\ UNCHANGED <<doc, cause>> /\ self.at = "done" /\ self \in Parser /\ ~IsRoot
      /\ DOMAIN parsers' = 1..k /\ parsers'[k] = q /\ \A m \in 1..k : m # k => parsers'[m] = parsers[m]
      /\ p \in Parser /\ OpenOnce(p) /\ ReadsHead(p) /\ p.at = "external" /\ ~Kind("attribute")
      /\ e \in Entities /\ doc.decl[e].is = "external" /\ self.text = doc.decl[e].text /\ IsBack(p, e, q)
  BY <1>7 DEF EndsTo
<1>9. e = TextOf(doc, p)[p.s + 1]
  BY <1>3, <1>4 DEF Waits, TextOf, Text
<1>10. q.text = p.text
  BY <1>8 DEF IsBack
<1>11. parsers'[1].text = doc.text
  <2>1. parsers[1].text = doc.text /\ 1 \in 1..k
    BY <1>8 DEF RefInv
  <2>2. CASE k = 1
    BY <1>8, <1>3, <1>10, <2>1, <2>2
  <2>3. CASE k # 1
    BY <1>8, <2>1, <2>3
  <2> QED  BY <2>2, <2>3
<1>12. doc \in Documents /\ RefusedOK(doc, cause)
  BY DEF RefInv
<1>13. CASE cause # "NONE"
  BY <1>8, <1>11, <1>12, <1>13 DEF RefInv
<1>14. CASE cause = "NONE"
  <2>1. self.error = "NONE" /\ IsDocument(doc)
    <3>1. n \in DOMAIN parsers
      BY <1>8
    <3> QED  BY <1>8, <1>14, <3>1, Now DEF ErrorsEnd
  <2>2. \A m \in 1..n : ReadOK(doc, parsers[m], BeforeIn(doc, parsers, m)) /\ Shared(doc, parsers, m)
    BY <1>8, <1>14 DEF RefInv
  <2>3. ReadOK(doc, self, BeforeIn(doc, parsers, n)) /\ Shared(doc, parsers, n)
    BY <1>8, <2>2
  <2>4. ReadOut(doc, doc.decl[e].text)
    BY <1>8, <2>3 DEF ReadOK
  <2>5. Good(doc, e)
    <3>1. doc.decl[e].is # "declared"
      BY <1>8
    <3> QED  BY <2>4, <3>1, GoodFrom DEF ReadOut
  <2>6. /\ q.open = p.open /\ q.text = p.text /\ q.pos = p.pos /\ q.level = p.level /\ q.s = p.s /\ q.at = "back"
        /\ q.cur = p.cur /\ q.more = p.more /\ q.processed = p.processed
    <3>1. /\ q.open = p.open /\ q.text = p.text /\ q.pos = p.pos /\ q.level = p.level /\ q.s = p.s /\ q.at = "back"
          /\ q.cur = p.cur
      BY <1>8, <2>1 DEF IsBack
    <3>2. q.more = p.more /\ q.processed = p.processed
      <4>1. CASE Kind("content")
        BY <1>8, <4>1 DEF IsBack
      <4>2. CASE ~Kind("content")
        <5>1. doc.kind = "value"
          BY <1>8, <2>1, <4>2 DEF IsDocument, Kind
        <5>2. parsers[n].more = parsers[n - 1].more /\ parsers[n].processed = parsers[n - 1].processed
          BY <1>8, <2>3, <5>1 DEF Shared
        <5> QED  BY <1>2, <1>3, <1>8, <4>2, <5>2 DEF IsBack
      <4> QED  BY <4>1, <4>2
    <3> QED  BY <3>1, <3>2
  <2> DEFINE B == BeforeIn(doc, parsers, k)
  <2>7. ReadOK(doc, p, B) /\ Shared(doc, parsers, k)
    BY <1>8, <1>3, <2>2
  <2>8. e = TextAt(doc, p, 1)[p.s + 1]
    <3>1. TextAt(doc, p, 1) = TextOf(doc, p)
      <4>1. CASE p.cur = Null
        <5>1. p.open = <<>>
          BY <1>8, <4>1 DEF ReadsHead
        <5>2. Len(p.open) = 0
          BY <5>1
        <5> QED  BY <4>1, <5>2 DEF TextAt, TextOf
      <4>2. CASE p.cur # Null
        <5>1. p.open # <<>> /\ p.open[1].entity = p.cur /\ p.open \in Seq(OpenedEntity)
          BY <1>8, <4>2, Fields DEF ReadsHead
        <5>2. 1 # Len(p.open) + 1
          BY <5>1
        <5> QED  BY <4>2, <5>1, <5>2 DEF TextAt, TextOf
      <4> QED  BY <4>1, <4>2
    <3> QED  BY <1>9, <3>1
  <2> HIDE DEF B
  <2>9. ASSUME NEW i \in 1 .. Len(q.open) + 1 PROVE FrameOK(doc, q, B, i)
    <3>1. i \in 1 .. Len(p.open) + 1 /\ FrameOK(doc, p, B, i)
      BY <1>8, <2>6, <2>7, <2>9 DEF ReadOK
    <3> QED  BY <1>8, <2>5, <2>6, <2>8, <3>1, BackFrames
  <2>10. ReadOK(doc, q, B)
    <3>1. Around(q, B, 1) = Around(p, B, 1)
      BY <2>6 DEF Around
    <3>2. \A i \in 1 .. Len(q.open) + 1 : FrameOK(doc, q, B, i)
      BY <2>9
    <3> QED  BY <2>6, <2>7, <3>1, <3>2 DEF ReadOK
  <2>11. ASSUME NEW m \in 1..k PROVE BeforeIn(doc, parsers', m) = BeforeIn(doc, parsers, m)
    <3>1. m # 1 => m - 1 \in 1..k /\ m - 1 # k
      BY <1>8
    <3>2. m # 1 => parsers'[m - 1] = parsers[m - 1]
      BY <1>8, <3>1
    <3> QED  BY <3>2 DEF BeforeIn
  <2>12. ASSUME NEW m \in 1..k
         PROVE  ReadOK(doc, parsers'[m], BeforeIn(doc, parsers', m)) /\ Shared(doc, parsers', m)
    <3>1. m \in 1..n /\ ReadOK(doc, parsers[m], BeforeIn(doc, parsers, m)) /\ Shared(doc, parsers, m)
      BY <1>8, <2>2, <2>12
    <3>2. ReadOK(doc, parsers'[m], BeforeIn(doc, parsers', m))
      <4>1. CASE m = k
        BY <1>8, <2>10, <2>11, <2>12, <4>1 DEF B
      <4>2. CASE m # k
        BY <1>8, <2>11, <2>12, <3>1, <4>2
      <4> QED  BY <4>1, <4>2
    <3>3. Shared(doc, parsers', m)
      <4> SUFFICES ASSUME m > 1, doc.kind = "value"
                   PROVE  parsers'[m].more = parsers'[m - 1].more /\ parsers'[m].processed = parsers'[m - 1].processed
        BY DEF Shared
      <4>1. m - 1 \in 1..k /\ m - 1 # k
        BY <1>8
      <4>2. parsers'[m - 1] = parsers[m - 1]
        BY <1>8, <4>1
      <4>3. parsers[m].more = parsers[m - 1].more /\ parsers[m].processed = parsers[m - 1].processed
        BY <3>1 DEF Shared
      <4>4. parsers'[m].more = parsers[m].more /\ parsers'[m].processed = parsers[m].processed
        <5>1. CASE m = k
          BY <1>8, <1>3, <2>6, <5>1
        <5>2. CASE m # k
          BY <1>8, <2>12, <5>2
        <5> QED  BY <5>1, <5>2
      <4> QED  BY <4>2, <4>3, <4>4
    <3> QED  BY <3>2, <3>3
  <2> QED  BY <1>8, <1>11, <1>12, <2>12 DEF RefInv
<1> QED  BY <1>13, <1>14

-----------------------------------------------------------------------------
(* Nothing changes.                                                        *)
LEMMA RefStutters ==
  ASSUME RefInv, UNCHANGED vars
  PROVE  RefInv'
BY DEF RefInv, vars

(* At first nothing has been read.                                         *)
LEMMA RefStarts == Init => RefInv
<1> SUFFICES ASSUME Init PROVE RefInv
  OBVIOUS
<1> DEFINE p == Fresh(doc.text, doc.account, 1)
<1>1. doc \in Documents /\ IsDocument(doc) /\ parsers = <<p>> /\ cause = "NONE"
  BY EntityAssumption DEF Init, EntityAssumption
<1>2. /\ p.text = doc.text /\ p.at = "turn" /\ p.open = <<>> /\ p.cur = Null /\ p.pos = 0 /\ p.level = 1
  BY DEF Fresh
<1> HIDE DEF p
<1>3. DOMAIN parsers = 1..1 /\ parsers[1] = p
  BY <1>1
<1>4. Len(p.open) = 0
  BY <1>2
<1> DEFINE none == {}
<1>5. BeforeIn(doc, parsers, 1) = none /\ Around(p, none, 1) = none
  BY <1>4 DEF BeforeIn, Around
<1>6. FrameOK(doc, p, none, 1)
  <2>1. TextAt(doc, p, 1) = doc.text /\ TakenAt(doc, p, 1) = 0
    BY <1>2, <1>4 DEF TextAt, TakenAt
  <2>2. AboveAt(doc, p, 1) = none /\ LevelAt(p, 1) = 1 /\ BeganAt(p, 1) = 1
    BY <1>2, <1>4 DEF AboveAt, LevelAt, BeganAt
  <2>3. EndedAt(p, 1) = FALSE
    BY <1>4 DEF EndedAt
  <2> DEFINE text == doc.text
             level == 1
  <2>4. text \in Seq(Items) /\ level \in Nat
    BY <1>1 DEF IsDocument
  <2>5. LedTo(doc, text, none)
    BY ReachedClosed DEF LedTo
  <2> HIDE DEF text, level
  <2>6. Frame(doc, text, none, 0, {}, level, level, FALSE)
    BY <2>4, <2>5, FrameBegins
  <2> QED  BY <1>5, <2>1, <2>2, <2>3, <2>6 DEF FrameOK, text, level
<1>7. ReadOK(doc, p, none)
  <2>1. \A i \in 1 .. Len(p.open) + 1 : i = 1
    BY <1>4
  <2>2. \A i \in 1 .. Len(p.open) + 1 : FrameOK(doc, p, none, i)
    BY <1>6, <2>1
  <2>3. OpenOK(doc, none)
    BY DEF OpenOK
  <2> QED  BY <1>2, <1>5, <2>2, <2>3 DEF ReadOK
<1>8. \A n \in DOMAIN parsers : n = 1
  BY <1>3
<1>9. Shared(doc, parsers, 1)
  BY DEF Shared
<1>10. RefusedOK(doc, cause)
  BY <1>1 DEF RefusedOK
<1> HIDE DEF none
<1> QED  BY <1>1, <1>2, <1>3, <1>5, <1>7, <1>8, <1>9, <1>10 DEF RefInv

(* What is known of the texts that have been gone through says exactly     *)
(* what has been refused.                                                  *)
LEMMA RefusedExactly ==
  ASSUME EntityInv, RefInv
  PROVE  RefusalsExact
<1>1. /\ \A text : Reached(text) = ReachedIn(doc, text)
      /\ \A e : IsRecursive(e) <=> Recurs(doc, e)
  BY InDocument
<1>2. RefusedOK(doc, cause)
  BY DEF RefInv
<1>3. ASSUME Finished, NEW x \in ReachedIn(doc, doc.text) PROVE Sound(doc, x)
  <2>1. 1 \in DOMAIN parsers
    BY DEF EntityInv, TypeOK
  <2>2. ReadOK(doc, parsers[1], BeforeIn(doc, parsers, 1)) /\ parsers[1].text = doc.text /\ parsers[1].at = "done"
    BY <1>3, <2>1 DEF RefInv, Finished
  <2>3. ReadOut(doc, doc.text)
    BY <2>2 DEF ReadOK
  <2> QED  BY <1>3, <2>3, GoodText DEF ReadOut
<1>4. RecursionExact
  BY <1>1, <1>2, <1>3 DEF RecursionExact, RefusedOK, Sound
<1>5. NestingExact
  BY <1>1, <1>2, <1>3 DEF NestingExact, RefusedOK, Sound, Kind
<1> QED  BY <1>4, <1>5 DEF RefusalsExact

(* Whatever the document, a text that has been read out led to no entity   *)
(* that leads to itself, and in content to none whose tags do not nest;    *)
(* what is refused for either has such an entity.  An entity that is       *)
(* referred to twice, by texts or parsers one after the other, is no       *)
(* recursion (internalEntityProcessor, externalEntityContentProcessor,     *)
(* storeEntityValue).                                                      *)
THEOREM RefusalsExactHolds ==
  ASSUME NothingLost, NothingUnknown
  PROVE  Spec => []RefusalsExact
<1>1. Init => RefInv
  BY RefStarts
<1>2. EntityInv /\ RefInv /\ [Next]_vars => RefInv'
  <2> SUFFICES ASSUME EntityInv, RefInv, [Next]_vars PROVE RefInv'
    OBVIOUS
  <2>1. CASE ReadOwn \/ ReadEntity \/ CloseEntity \/ TextEnds
    BY <2>1, ReadOwnRef, ReadEntityRef, CloseEntityRef, TextEndsRef
  <2>2. CASE NoToken \/ TooMuch \/ ContentToken \/ ValueToken \/ BadReference
    BY <2>2, RefusedRef, ContentTokenRef, ValueTokenRef
  <2>3. CASE \E e \in Entities : Reference(e)
    BY <2>3, SkipInContentRef, SkipInValueRef, OpenEntityRef, ReadExternalRef DEF Reference
  <2>4. CASE ExternalEnds \/ AfterExternal \/ Resume
    BY <2>4, ExternalEndsRef, AfterExternalRef, ResumeRef
  <2>5. CASE UNCHANGED vars
    BY <2>5, RefStutters
  <2> QED  BY <2>1, <2>2, <2>3, <2>4, <2>5 DEF Next, Parsing
<1>3. EntityInv /\ RefInv => RefusalsExact
  BY RefusedExactly
<1>4. Spec => []EntityInv
  BY EntityInvHolds
<1> QED  BY <1>1, <1>2, <1>3, <1>4, PTL DEF Spec
=============================================================================
