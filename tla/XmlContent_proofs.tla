------------------------- MODULE XmlContent_proofs -------------------------
(***************************************************************************)
(* Proofs about XmlContent: the memory of bindings and names, the marks of *)
(* attributes, and that the handler calls are those of XmlEvents.          *)
(***************************************************************************)
EXTENDS XmlContent, WellFoundedInduction, SequenceTheorems, TLAPS

-----------------------------------------------------------------------------
(* The inductive invariant.                                                *)
Places == {"token", "attributes", "defaults", "expand", "element", "start", "end", "withdraw",
           "check", "return", "cdata"}
WorkFields == {"at", "tag", "empty", "i", "atts", "count", "prefixed", "bindings", "str"}
TagFields == {"name", "atts", "size", "gen", "raw", "str", "local", "prefix", "bindings", "told"}
CellFields == {"prefix", "uri", "att", "prev", "alloc", "gen", "tail"}
Place == [cell : Nat, gen : Nat]

IsSeq(s) == s \in Seq(ToSet(s))
IsTag(t) ==
  /\ DOMAIN t = TagFields
  /\ t.name \in Names /\ t.prefix \in NsPrefixes
  /\ t.gen \in Nat /\ t.local \in Nat \cup {Null}
  /\ t.str \in Place
IsCell(c) ==
  /\ DOMAIN c = CellFields
  /\ c.prefix \in NsPrefixes /\ c.gen \in Nat

(* A start tag is being handled, and it is on the stack.                   *)
Handling == (StoringAtts \/ work.at = "start") /\ ~work.empty

TypedFlow ==
  /\ ns \in BOOLEAN /\ triplets \in BOOLEAN /\ final \in BOOLEAN /\ over \in BOOLEAN
  /\ startLevel \in {0, 1}
  /\ processor \in {"content", "cdata", "epilog", "error"}
  /\ call \in {"idle", "running"}
  /\ status \in {"PARSING", "SUSPENDED", "FINISHED"}
  /\ via \in {"content", "cdata", "epilog"}
  /\ processor = "error" <=> error # "NONE"
TypedTags ==
  /\ IsSeq(tags) /\ \A i \in 1 .. Len(tags) : IsTag(tags[i])
  /\ Len(tags) <= MaxDepth
TypedCells ==
  /\ IsSeq(cells) /\ \A c \in 1 .. Len(cells) : IsCell(cells[c])
  /\ bound \in [NsPrefixes -> 0 .. Len(cells)]
TypedAtts ==
  /\ flags \in [AttNames -> 0..2]
  /\ DOMAIN nsAtts = {"version", "power", "table"}
  /\ nsAtts.version \in 0 .. InitAttsVersion - 1
  /\ idIndex \in {-1} \cup (Nat \ {0})
TypedWork ==
  /\ DOMAIN work = WorkFields
  /\ work.at \in Places /\ work.empty \in BOOLEAN
  /\ IsSeq(work.atts) /\ work.i \in Nat \ {0}
  /\ StoringAtts \/ work.at \in {"start", "end"} => work.tag \in StartTags
  /\ work.at \in {"start", "end"} => work.str \in Place
Typed == TypedFlow /\ TypedTags /\ TypedCells /\ TypedAtts /\ TypedWork

(* What the place in a token allows.                                       *)
Control ==
  /\ work.at \in {"token", "check", "return", "cdata"} => work.bindings = <<>>
  /\ Handling => tags # <<>>
  /\ work.at = "end" => work.empty
  /\ call = "idle" => work.at = "token"
  /\ over => Len(tags) = 0 /\ startLevel = 0
  /\ error = "NONE" /\ over =>
       \/ work.at = "withdraw"
       \/ work.at = "check" /\ status = "FINISHED"
       \/ processor = "epilog" /\ work.at \in {"token", "check", "return"}
  /\ error = "NONE" /\ processor = "epilog" => Len(tags) = 0
  /\ error = "NONE" /\ work.at = "cdata" => processor \in {"content", "cdata"}

(* The lists of bindings from the outermost to the innermost.              *)
Depth == Len(tags) + 1
Held == [i \in 0 .. Depth |-> IF i = 0 THEN inherited ELSE IF i = Depth THEN work.bindings ELSE tags[i].bindings]
Prefix(all) == [c \in 1 .. Len(all) |-> all[c].prefix]
Prev(all) == [c \in 1 .. Len(all) |-> all[c].prev]

Once(s) == \A i, j \in 1 .. Len(s) : s[i] = s[j] => i = j
Parted(h, n, f, m) ==
  /\ n \in Nat /\ m \in Nat
  /\ DOMAIN h = 0..n
  /\ f \in Seq(1..m) /\ Once(f)
  /\ \A i \in 0..n : h[i] \in Seq(1..m) /\ Once(h[i]) /\ ToSet(h[i]) \cap ToSet(f) = {}
  /\ \A i, j \in 0..n : i # j => ToSet(h[i]) \cap ToSet(h[j]) = {}
  /\ \A c \in 1..m : c \in ToSet(f) \/ \E i \in 0..n : c \in ToSet(h[i])
(* The bindings a binding may hide: those below it.                        *)
Below(h, i) == UNION {ToSet(h[j]) : j \in 0 .. i - 1}
Rest(s, k) == {s[m] : m \in {l \in 1 .. Len(s) : k < l}}
Chained(h, n, prefix, prev, b) ==
  /\ \A i \in 0..n : \A k \in 1 .. Len(h[i]) :
       LET c == h[i][k] IN
       prev[c] # 0 => prev[c] \in Below(h, i) \cup Rest(h[i], k) /\ prefix[prev[c]] = prefix[c]
  /\ \A p \in NsPrefixes : b[p] # 0 => b[p] \in Below(h, n + 1) /\ prefix[b[p]] = p

Bindings ==
  /\ Parted(Held, Depth, freeBindings, Len(cells))
  /\ error = "NONE" => Chained(Held, Depth, Prefix(cells), Prev(cells), bound)
  /\ error = "NONE" => \A c \in Below(Held, Depth + 1) : cells[c].uri \in Uris

(* Names.                                                                  *)
NameEnd(name, prefix, three) == IF three /\ prefix # "" THEN <<name[2], prefix>> ELSE <<name[2]>>
Reaches(i) == IF i = Len(tags) /\ Handling THEN Depth + 1 ELSE i + 1
NameKept(i) ==
  /\ tags[i].local \in {Null, tags[i].gen}
  /\ tags[i].local = Null <=> tags[i].str.cell = 0
  /\ tags[i].str.cell = 0 => tags[i].str.gen = tags[i].gen
  /\ tags[i].str.cell # 0 =>
       /\ tags[i].str.cell \in Below(Held, Reaches(i))
       /\ tags[i].str.gen = cells[tags[i].str.cell].gen
ToldAs(tag, all, three) ==
  IF tag.str.cell = 0 THEN <<tag.name>> ELSE <<all[tag.str.cell].uri>> \o NameEnd(tag.name, tag.prefix, three)
ToldRight(i) == tags[i].told = ToldAs(tags[i], cells, triplets)
WorkName ==
  work.at \in {"start", "end"} /\ work.str.cell # 0 =>
    /\ work.str.cell \in Below(Held, Depth + 1)
    /\ work.str.gen = cells[work.str.cell].gen
    /\ cells[work.str.cell].prefix = work.tag.name[1]
    /\ cells[work.str.cell].tail = NameEnd(work.tag.name, cells[work.str.cell].prefix, triplets)
(* The tag on top of the stack while its start tag is being handled.       *)
Pending ==
  LET t == tags[Len(tags)] IN
  /\ t.name = work.tag.name /\ t.bindings = <<>>
  /\ work.at # "start" => t.str.cell = 0
  /\ work.at = "start" => t.str.cell = work.str.cell /\ (t.str.cell # 0 => t.prefix = work.tag.name[1])
AllKept == \A i \in 1 .. Len(tags) : NameKept(i)
AllTold == \A i \in 1 .. Len(tags) : i < Len(tags) \/ ~Handling => ToldRight(i)
NamesKept == error = "NONE" => AllKept /\ AllTold /\ WorkName /\ (Handling => Pending)

(* Raw names: those stored are the first ones.                             *)
RawKept ==
  error = "NONE" =>
    /\ \A i \in 1 .. Len(tags) : tags[i].raw \in {"input", "own"}
    /\ \A i, j \in 1 .. Len(tags) : i < j /\ tags[j].raw = "own" => tags[i].raw = "own"
    /\ call = "idle" \/ via # "content" => \A i \in 1 .. Len(tags) : tags[i].raw = "own"
    /\ via = "epilog" => Len(tags) = 0 /\ processor = "epilog"
    /\ via = "cdata" /\ call = "running" => work.at \in {"cdata", "return"}

(* A mark is on only for an attribute that is going to take it off.        *)
From == IF work.at \in {"expand", "element"} THEN work.i ELSE 1
MarksKept ==
  error = "NONE" => \A name \in AttNames : flags[name] # 0 =>
    /\ StoringAtts
    /\ \/ \E j \in From .. Len(work.atts) : work.atts[j].name = name
       \/ \E c \in ToSet(work.bindings) : cells[c].att = name

ContentInv == Typed /\ Control /\ Bindings /\ NamesKept /\ RawKept /\ MarksKept

-----------------------------------------------------------------------------
(* Sequences.                                                              *)
(* A sequence over any set is a sequence of its own elements.              *)
LEMMA SeqFacts ==
  ASSUME NEW S, NEW s \in Seq(S)
  PROVE  /\ Len(s) \in Nat /\ DOMAIN s = 1 .. Len(s) /\ ToSet(s) = {s[i] : i \in 1 .. Len(s)}
         /\ \A i \in 1 .. Len(s) : s[i] \in S /\ s[i] \in ToSet(s)
         /\ \A x \in ToSet(s) : x \in S /\ \E i \in 1 .. Len(s) : s[i] = x
         /\ IsSeq(s)
<1>1. /\ Len(s) \in Nat /\ DOMAIN s = 1 .. Len(s) /\ s \in [1 .. Len(s) -> S]
  BY LenProperties
<1>2. ToSet(s) = {s[i] : i \in 1 .. Len(s)}
  BY <1>1 DEF ToSet
<1>3. s \in [1 .. Len(s) -> ToSet(s)]
  BY <1>1, <1>2
<1>4. IsSeq(s)
  BY <1>1, <1>3, SeqDef DEF IsSeq
<1> QED  BY <1>1, <1>2, <1>4

(* The same for a sequence of which nothing else is known.                 *)
LEMMA AnySeq ==
  ASSUME NEW s, IsSeq(s)
  PROVE  /\ Len(s) \in Nat /\ DOMAIN s = 1 .. Len(s)
         /\ \A i \in 1 .. Len(s) : s[i] \in ToSet(s)
  BY SeqFacts DEF IsSeq

(* One more element at the end.                                            *)
LEMMA AnyAppend ==
  ASSUME NEW s, IsSeq(s), NEW e
  PROVE  /\ IsSeq(Append(s, e)) /\ Len(Append(s, e)) = Len(s) + 1
         /\ Append(s, e)[Len(s) + 1] = e
         /\ \A i \in 1 .. Len(s) : Append(s, e)[i] = s[i]
<1> DEFINE S == ToSet(s) \cup {e}
<1>1. s \in Seq(S) /\ e \in S
  BY SeqMonotonic DEF IsSeq
<1> HIDE DEF S
<1>2. /\ Append(s, e) \in Seq(S) /\ Len(Append(s, e)) = Len(s) + 1
      /\ \A i \in 1 .. Len(s) : Append(s, e)[i] = s[i]
      /\ Append(s, e)[Len(s) + 1] = e
  BY <1>1, AppendProperties
<1>3. IsSeq(Append(s, e))
  BY <1>2, SeqFacts
<1> QED  BY <1>2, <1>3

(* One element less.                                                       *)
LEMMA AnyFront ==
  ASSUME NEW s, IsSeq(s), s # <<>>
  PROVE  /\ Len(s) \in Nat \ {0} /\ Last(s) = s[Len(s)]
         /\ IsSeq(Front(s)) /\ Len(Front(s)) = Len(s) - 1
         /\ \A i \in 1 .. Len(s) - 1 : Front(s)[i] = s[i]
<1> DEFINE S == ToSet(s)
           n == Len(s) - 1
<1>1. s \in Seq(S)
  BY DEF IsSeq
<1>2. Len(s) \in Nat /\ Len(s) # 0 /\ \A i \in 1 .. Len(s) : s[i] \in S
  BY <1>1, SeqFacts, EmptySeq
<1>3. n \in Nat /\ Front(s) = SubSeq(s, 1, n) /\ \A i \in 1 .. n : s[i] \in S
  BY <1>2 DEF Front
<1> HIDE DEF n, S
<1>4. /\ SubSeq(s, 1, n) \in Seq(S) /\ Len(SubSeq(s, 1, n)) = IF 1 <= n THEN (n - 1) + 1 ELSE 0
      /\ \A i \in 1 .. (n - 1) + 1 : SubSeq(s, 1, n)[i] = s[(1 + i) - 1]
  BY <1>3, SubSeqProperties
<1>5. Len(Front(s)) = n /\ \A i \in 1 .. n : Front(s)[i] = s[i]
  BY <1>3, <1>4
<1>6. IsSeq(Front(s))
  BY <1>3, <1>4, SeqFacts
<1> QED  BY <1>2, <1>5, <1>6 DEF n, Last

(* Another element in its place.                                           *)
LEMMA AnyExcept ==
  ASSUME NEW s, IsSeq(s), NEW t, DOMAIN t = DOMAIN s, t = [i \in DOMAIN s |-> t[i]]
  PROVE  IsSeq(t) /\ Len(t) = Len(s)
<1> DEFINE n == Len(s)
           S == {t[i] : i \in 1 .. n}
<1>1. n \in Nat /\ DOMAIN s = 1 .. n
  BY AnySeq
<1>2. t \in [1 .. n -> S]
  BY <1>1
<1> HIDE DEF S
<1>3. t \in Seq(S)
  BY <1>1, <1>2, SeqDef
<1>4. IsSeq(t) /\ DOMAIN t = 1 .. Len(t) /\ Len(t) \in Nat
  BY <1>3, SeqFacts
<1>5. Len(t) = n
  BY <1>1, <1>4
<1> QED  BY <1>4, <1>5

-----------------------------------------------------------------------------
(* Lists of bindings.                                                      *)
(* A binding is put before a list.                                         *)
LEMMA ConsSeq ==
  ASSUME NEW S, NEW s \in Seq(S), NEW c \in S
  PROVE  /\ (<<c>> \o s) \in Seq(S) /\ Len(<<c>> \o s) = Len(s) + 1
         /\ (<<c>> \o s)[1] = c
         /\ \A i \in 1 .. Len(s) : (<<c>> \o s)[i + 1] = s[i]
<1> DEFINE t == <<c>> \o s
           n == Len(s)
<1>1. n \in Nat /\ \A i \in 1..n : s[i] \in S
  BY SeqFacts
<1>2. t \in Seq(S) /\ Len(t) = n + 1 /\ t[1] = c
  BY <1>1
<1>3. \A i \in 1..n : t[i + 1] = s[i]
  BY <1>1
<1> QED  BY <1>2, <1>3

(* The bindings on it then.                                                *)
LEMMA ConsSet ==
  ASSUME NEW S, NEW s \in Seq(S), NEW c \in S
  PROVE  /\ ToSet(<<c>> \o s) = {c} \cup ToSet(s)
         /\ (c \notin ToSet(s) /\ Once(s) => Once(<<c>> \o s))
<1> DEFINE t == <<c>> \o s
           n == Len(s)
<1>1. n \in Nat /\ (\A i \in 1..n : s[i] \in S) /\ ToSet(s) = {s[i] : i \in 1..n}
  BY SeqFacts
<1>2. t \in Seq(S) /\ Len(t) = n + 1 /\ t[1] = c
  BY <1>1
<1>3. \A i \in 1..n : t[i + 1] = s[i]
  BY <1>1
<1>4. ToSet(t) = {t[i] : i \in 1 .. n + 1}
  BY <1>2, SeqFacts
<1> HIDE DEF t, n
<1>5. \A i \in 1 .. n + 1 : i = 1 \/ (i - 1 \in 1..n /\ t[i] = s[i - 1])
  <2> TAKE i \in 1 .. n + 1
  <2>1. CASE i # 1
    <3>1. i - 1 \in 1..n /\ (i - 1) + 1 = i
      BY <1>1, <2>1
    <3> QED  BY <1>3, <3>1
  <2> QED  BY <2>1
<1>6. \A i \in 1..n : i + 1 \in 1 .. n + 1
  BY <1>1
<1>7. ToSet(t) = {c} \cup ToSet(s)
  <2>1. \A i \in 1 .. n + 1 : t[i] \in {c} \cup ToSet(s)
    BY <1>1, <1>2, <1>4, <1>5
  <2>2. c \in ToSet(t) /\ \A i \in 1..n : s[i] \in ToSet(t)
    <3>1. 1 \in 1 .. n + 1
      BY <1>1
    <3>2. ASSUME NEW i \in 1..n PROVE s[i] \in ToSet(t)
      <4>1. i + 1 \in 1 .. n + 1 /\ t[i + 1] = s[i]
        BY <1>3, <1>6
      <4> QED  BY <1>2, <1>4, <4>1
    <3> QED  BY <1>2, <1>4, <3>1, <3>2
  <2> QED  BY <1>1, <1>2, <1>4, <2>1, <2>2
<1>8. ASSUME c \notin ToSet(s), Once(s) PROVE Once(t)
  <2>1. ASSUME NEW i \in 1 .. n + 1, NEW j \in 1 .. n + 1, t[i] = t[j] PROVE i = j
    <3>1. CASE i = 1 /\ j = 1
      BY <3>1
    <3>2. CASE i = 1 /\ j # 1
      BY <1>1, <1>2, <1>4, <1>5, <1>8, <2>1, <3>2
    <3>3. CASE i # 1 /\ j = 1
      BY <1>1, <1>2, <1>4, <1>5, <1>8, <2>1, <3>3
    <3>4. CASE i # 1 /\ j # 1
      <4>1. i - 1 \in 1..n /\ j - 1 \in 1..n /\ s[i - 1] = s[j - 1]
        BY <1>5, <2>1, <3>4
      <4>2. i - 1 = j - 1
        BY <1>8, <4>1 DEF Once, n
      <4> QED  BY <4>2
    <3> QED  BY <3>1, <3>2, <3>3, <3>4
  <2> QED  BY <1>2, <2>1 DEF Once
<1> QED  BY <1>7, <1>8 DEF t

(* The head of a list is taken off.                                        *)
LEMMA Uncons ==
  ASSUME NEW S, NEW s \in Seq(S), s # <<>>
  PROVE  /\ Len(s) \in Nat \ {0} /\ Head(s) = s[1] /\ Head(s) \in S /\ Head(s) \in ToSet(s)
         /\ Tail(s) \in Seq(S) /\ Len(Tail(s)) = Len(s) - 1
         /\ \A i \in 1 .. Len(s) - 1 : Tail(s)[i] = s[i + 1]
         /\ ToSet(s) = {Head(s)} \cup ToSet(Tail(s))
         /\ Once(s) => Once(Tail(s)) /\ Head(s) \notin ToSet(Tail(s))
<1> DEFINE t == Tail(s)
           n == Len(s)
<1>1. n \in Nat /\ n # 0 /\ (\A i \in 1..n : s[i] \in S) /\ ToSet(s) = {s[i] : i \in 1..n}
  BY SeqFacts, EmptySeq
<1>2. t \in Seq(S) /\ Len(t) = n - 1 /\ \A i \in 1 .. n - 1 : t[i] = s[i + 1]
  BY <1>1, HeadTailProperties
<1>3. Head(s) = s[1]
  OBVIOUS
<1>4. ToSet(t) = {t[i] : i \in 1 .. n - 1}
  BY <1>2, SeqFacts
<1> HIDE DEF t, n
<1>5. 1 \in 1..n /\ \A i \in 1 .. n - 1 : i + 1 \in 1..n /\ i + 1 # 1
  BY <1>1
<1>6. ToSet(s) = {s[1]} \cup ToSet(t)
  <2>1. ASSUME NEW i \in 1..n PROVE s[i] \in {s[1]} \cup ToSet(t)
    <3>1. CASE i # 1
      <4>1. i - 1 \in 1 .. n - 1 /\ (i - 1) + 1 = i
        BY <1>1, <3>1
      <4> QED  BY <1>2, <1>4, <4>1
    <3> QED  BY <3>1
  <2>2. \A i \in 1 .. n - 1 : t[i] \in ToSet(s)
    BY <1>1, <1>2, <1>5
  <2>3. s[1] \in ToSet(s)
    BY <1>1, <1>5
  <2> QED  BY <1>1, <1>4, <2>1, <2>2, <2>3
<1>7. ASSUME Once(s) PROVE Once(t) /\ s[1] \notin ToSet(t)
  <2>1. \A i, j \in 1..n : s[i] = s[j] => i = j
    BY <1>7 DEF Once, n
  <2>2. s[1] \notin ToSet(t)
    <3>1. ASSUME NEW i \in 1 .. n - 1, t[i] = s[1] PROVE FALSE
      BY <1>2, <1>5, <2>1, <3>1
    <3> QED  BY <1>4, <3>1
  <2>3. ASSUME NEW i \in 1 .. n - 1, NEW j \in 1 .. n - 1, t[i] = t[j] PROVE i = j
    <3>1. i + 1 = j + 1
      BY <1>2, <1>5, <2>1, <2>3
    <3> QED  BY <3>1
  <2> QED  BY <1>2, <2>2, <2>3 DEF Once
<1> QED  BY <1>1, <1>2, <1>3, <1>5, <1>6, <1>7 DEF t, n

(* A list is put, in reverse order, before another one.                    *)
LEMMA Spill ==
  ASSUME NEW S, NEW s \in Seq(S), NEW f \in Seq(S), Once(s), Once(f), ToSet(s) \cap ToSet(f) = {}
  PROVE  /\ (Reverse(s) \o f) \in Seq(S) /\ Once(Reverse(s) \o f)
         /\ ToSet(Reverse(s) \o f) = ToSet(s) \cup ToSet(f)
<1> DEFINE r == Reverse(s)
           t == r \o f
           n == Len(s)
           m == Len(f)
<1>1. /\ n \in Nat /\ m \in Nat /\ (\A i \in 1..n : s[i] \in S) /\ (\A i \in 1..m : f[i] \in S)
      /\ ToSet(s) = {s[i] : i \in 1..n} /\ ToSet(f) = {f[i] : i \in 1..m}
  BY SeqFacts
<1>2. r = [i \in 1..n |-> s[(n - i) + 1]]
  BY DEF Reverse
<1>3. r \in Seq(S) /\ Len(r) = n /\ \A i \in 1..n : r[i] = s[(n - i) + 1]
  <2>1. \A i \in 1..n : (n - i) + 1 \in 1..n
    BY <1>1
  <2>2. r \in [1..n -> S]
    BY <1>1, <1>2, <2>1
  <2>3. r \in Seq(S)
    BY <1>1, <2>2, SeqDef
  <2>4. Len(r) \in Nat /\ 1 .. Len(r) = 1..n
    BY <1>1, <1>2, <2>3, SeqFacts
  <2> HIDE DEF r, n
  <2>5. Len(r) = n
    BY <1>1, <2>4
  <2> QED  BY <1>2, <2>3, <2>5
<1> HIDE DEF r, n, m
<1>4. /\ t \in Seq(S) /\ Len(t) = n + m
      /\ \A i \in 1 .. n + m : t[i] = IF i <= n THEN r[i] ELSE f[i - n]
  <2>1. /\ t \in Seq(S) /\ Len(t) = Len(r) + Len(f)
        /\ \A i \in 1 .. Len(r) + Len(f) : t[i] = IF i <= Len(r) THEN r[i] ELSE f[i - Len(r)]
    BY <1>3, ConcatProperties
  <2>2. Len(r) = n /\ Len(f) = m
    BY <1>3 DEF m
  <2> HIDE DEF t
  <2> QED  BY <2>1, <2>2
<1>5. ToSet(t) = {t[i] : i \in 1 .. n + m}
  BY <1>4, SeqFacts
<1> HIDE DEF t
<1>6. \A i \in 1 .. n + m : \/ i <= n /\ (n - i) + 1 \in 1..n /\ t[i] = s[(n - i) + 1]
                            \/ i > n /\ i - n \in 1..m /\ t[i] = f[i - n]
  BY <1>1, <1>3, <1>4
<1>7. ToSet(t) = ToSet(s) \cup ToSet(f)
  <2>1. \A i \in 1 .. n + m : t[i] \in ToSet(s) \cup ToSet(f)
    BY <1>1, <1>6
  <2>2. ASSUME NEW i \in 1..n PROVE s[i] \in ToSet(t)
    <3> DEFINE j == (n - i) + 1
    <3>1. j \in 1 .. n + m /\ j <= n /\ (n - j) + 1 = i
      BY <1>1
    <3> HIDE DEF j
    <3>2. t[j] = s[i]
      <4>1. t[j] = s[(n - j) + 1]
        BY <1>1, <1>6, <3>1
      <4> QED  BY <3>1, <4>1
    <3> QED  BY <1>5, <3>1, <3>2
  <2>3. ASSUME NEW i \in 1..m PROVE f[i] \in ToSet(t)
    <3> DEFINE j == n + i
    <3>1. j \in 1 .. n + m /\ j > n /\ ~(j <= n) /\ j - n = i
      BY <1>1
    <3> HIDE DEF j
    <3>2. t[j] = f[i]
      BY <1>6, <3>1
    <3> QED  BY <1>5, <3>1, <3>2
  <2> QED  BY <1>1, <1>5, <2>1, <2>2, <2>3
<1>8. Once(t)
  <2>1. \A i, j \in 1..n : s[i] = s[j] => i = j
    BY DEF Once, n
  <2>2. \A i, j \in 1..m : f[i] = f[j] => i = j
    BY DEF Once, m
  <2>3. \A i \in 1..n, j \in 1..m : s[i] # f[j]
    BY <1>1
  <2>4. ASSUME NEW i \in 1 .. n + m, NEW j \in 1 .. n + m, t[i] = t[j] PROVE i = j
    <3>1. CASE i <= n /\ j <= n
      <4>1. (n - i) + 1 = (n - j) + 1
        BY <1>6, <1>1, <2>1, <2>4, <3>1
      <4> QED  BY <1>1, <4>1
    <3>2. CASE i > n /\ j > n
      <4>1. i - n = j - n
        BY <1>6, <1>1, <2>2, <2>4, <3>2
      <4> QED  BY <1>1, <4>1
    <3>3. CASE i <= n /\ j > n
      BY <1>6, <1>1, <2>3, <2>4, <3>3
    <3>4. CASE i > n /\ j <= n
      BY <1>6, <1>1, <2>3, <2>4, <3>4
    <3> QED  BY <1>1, <3>1, <3>2, <3>3, <3>4
  <2> QED  BY <1>4, <2>4 DEF Once
<1> QED  BY <1>4, <1>7, <1>8 DEF t, r

-----------------------------------------------------------------------------
(* Numbers.                                                                *)
(* A set of numbers has a least element.                                   *)
LEMMA Least ==
  ASSUME NEW T, T \in SUBSET Nat, T # {}
  PROVE  \E n \in T : \A m \in T : n <= m
<1> DEFINE R == OpToRel(<, Nat)
<1>1. IsWellFoundedOn(R, Nat)
  BY NatLessThanWellFounded
<1>2. \A x, y \in Nat : y < x => <<y, x>> \in R
  BY Zenon DEF OpToRel
<1> HIDE DEF R
<1>3. \E x \in T : \A y \in T : ~ (<<y, x>> \in R)
  BY <1>1, WFMin
<1>4. PICK x \in T : \A y \in T : ~ (<<y, x>> \in R)
  BY <1>3
<1>5. ASSUME NEW y \in T PROVE x <= y
  <2>1. x \in Nat /\ y \in Nat
    OBVIOUS
  <2>2. ~(y < x)
    BY <1>2, <1>4, <2>1
  <2> QED  BY <2>1, <2>2
<1> QED  BY <1>5

(* Induction, for a set.                                                   *)
LEMMA Induct ==
  ASSUME NEW S, 0 \in S, \A n \in Nat : n \in S => n + 1 \in S
  PROVE  Nat \subseteq S
<1> SUFFICES ASSUME ~ (Nat \subseteq S) PROVE FALSE
  OBVIOUS
<1> DEFINE T == Nat \ S
<1>1. T \in SUBSET Nat /\ T # {}
  OBVIOUS
<1>2. PICK n \in T : \A m \in T : n <= m
  BY <1>1, Least
<1>3. n # 0 /\ n - 1 \in Nat
  BY <1>2
<1>4. n - 1 \in S
  BY <1>2, <1>3
<1> QED  BY <1>2, <1>3, <1>4

-----------------------------------------------------------------------------
(* What the steps do to the lists of bindings.                             *)
Pushed(h, n, f, m, h2, f2, m2, c) ==
  /\ \/ f # <<>> /\ c = Head(f) /\ f2 = Tail(f) /\ m2 = m
     \/ f = <<>> /\ c = m + 1 /\ f2 = <<>> /\ m2 = m + 1
  /\ DOMAIN h2 = 0..n
  /\ \A i \in 0 .. n - 1 : h2[i] = h[i]
  /\ h2[n] = <<c>> \o h[n]
Popped(h, n, f, h2, f2) ==
  /\ h[n] # <<>> /\ f2 = <<Head(h[n])>> \o f
  /\ DOMAIN h2 = 0..n
  /\ \A i \in 0 .. n - 1 : h2[i] = h[i]
  /\ h2[n] = Tail(h[n])
Spilled(h, n, f, h2, f2) ==
  /\ f2 = Reverse(h[n]) \o f
  /\ DOMAIN h2 = 0..n
  /\ \A i \in 0 .. n - 1 : h2[i] = h[i]
  /\ h2[n] = <<>>
MovedUp(h, n, h2) ==
  /\ n # 0 /\ h[n - 1] = <<>>
  /\ DOMAIN h2 = 0..n
  /\ \A i \in 0 .. n - 2 : h2[i] = h[i]
  /\ h2[n - 1] = h[n] /\ h2[n] = <<>>
Raised(h, n, h2) ==
  /\ DOMAIN h2 = 0 .. n + 1
  /\ \A i \in 0..n : h2[i] = h[i]
  /\ h2[n + 1] = <<>>
Dropped(h, n, h2) ==
  /\ n # 0 /\ h[n] = <<>>
  /\ DOMAIN h2 = 0 .. n - 1
  /\ \A i \in 0 .. n - 1 : h2[i] = h[i]

(* What is below stays, and so do the chains.                              *)
SameBelow(h, h2, n) == \A i \in 0..n : Below(h2, i) = Below(h, i)
KeepsChains(h, n, h2, n2) ==
  \A prefix, prev, b : Chained(h, n, prefix, prev, b) => Chained(h2, n2, prefix, prev, b)

(* The empty list.                                                         *)
LEMMA NoneSet == ASSUME NEW S PROVE <<>> \in Seq(S) /\ ToSet(<<>>) = {} /\ Once(<<>>) /\ Len(<<>>) = 0
  BY DEF ToSet, Once

(* A binding taken from the free list, or made, is on no list of the tags. *)
LEMMA PushTakes ==
  ASSUME NEW h, NEW n, NEW f, NEW m, NEW h2, NEW f2, NEW m2, NEW c,
         Parted(h, n, f, m), Pushed(h, n, f, m, h2, f2, m2, c)
  PROVE  /\ n \in Nat /\ m2 \in Nat /\ c \in 1..m2 /\ 1..m \subseteq 1..m2 /\ n \in 0..n
         /\ f2 \in Seq(1..m2) /\ Once(f2) /\ c \notin ToSet(f2) /\ ToSet(f2) \subseteq ToSet(f)
         /\ \A x \in 1..m2 : x = c \/ x \in ToSet(f2) \/ (x \in 1..m /\ x \notin ToSet(f))
         /\ \A i \in 0..n : c \notin ToSet(h[i]) /\ h[i] \in Seq(1..m)
<1>1. n \in Nat /\ m \in Nat /\ f \in Seq(1..m) /\ Once(f) /\ n \in 0..n
  BY DEF Parted
<1>2. \A i \in 0..n : h[i] \in Seq(1..m) /\ ToSet(h[i]) \cap ToSet(f) = {}
  BY DEF Parted
<1>3. CASE f # <<>> /\ c = Head(f) /\ f2 = Tail(f) /\ m2 = m
  <2>1. /\ c \in 1..m /\ f2 \in Seq(1..m) /\ Once(f2) /\ c \notin ToSet(f2)
        /\ ToSet(f) = {c} \cup ToSet(f2)
    BY <1>1, <1>3, Uncons
  <2> QED  BY <1>1, <1>2, <1>3, <2>1
<1>4. CASE f = <<>> /\ c = m + 1 /\ f2 = <<>> /\ m2 = m + 1
  <2>1. f2 \in Seq(1..m2) /\ Once(f2) /\ ToSet(f2) = {} /\ ToSet(f) = {}
    BY <1>4, NoneSet
  <2>2. m2 \in Nat /\ c \in 1..m2 /\ 1..m \subseteq 1..m2 /\ c \notin 1..m
    BY <1>1, <1>4
  <2>3. \A x \in 1..m2 : x = c \/ x \in 1..m
    BY <1>1, <1>4
  <2>4. \A i \in 0..n : \A x \in ToSet(h[i]) : x \in 1..m
    BY <1>2, SeqFacts
  <2> QED  BY <1>1, <1>2, <2>1, <2>2, <2>3, <2>4
<1> QED  BY <1>3, <1>4 DEF Pushed

(* The innermost list has it then.                                         *)
LEMMA PushParted ==
  ASSUME NEW h, NEW n, NEW f, NEW m, NEW h2, NEW f2, NEW m2, NEW c,
         Parted(h, n, f, m), Pushed(h, n, f, m, h2, f2, m2, c)
  PROVE  Parted(h2, n, f2, m2)
<1>1. /\ n \in Nat /\ m2 \in Nat /\ c \in 1..m2 /\ 1..m \subseteq 1..m2 /\ n \in 0..n
      /\ f2 \in Seq(1..m2) /\ Once(f2) /\ c \notin ToSet(f2) /\ ToSet(f2) \subseteq ToSet(f)
      /\ \A x \in 1..m2 : x = c \/ x \in ToSet(f2) \/ (x \in 1..m /\ x \notin ToSet(f))
      /\ \A i \in 0..n : c \notin ToSet(h[i]) /\ h[i] \in Seq(1..m)
  BY PushTakes
<1>2. /\ \A i \in 0..n : h[i] \in Seq(1..m) /\ Once(h[i]) /\ ToSet(h[i]) \cap ToSet(f) = {}
      /\ \A i, j \in 0..n : i # j => ToSet(h[i]) \cap ToSet(h[j]) = {}
      /\ \A x \in 1..m : x \in ToSet(f) \/ \E i \in 0..n : x \in ToSet(h[i])
  BY DEF Parted
<1>3. DOMAIN h2 = 0..n /\ (\A i \in 0 .. n - 1 : h2[i] = h[i]) /\ h2[n] = <<c>> \o h[n]
  BY DEF Pushed
<1>4. \A i \in 0..n : i # n => i \in 0 .. n - 1
  BY <1>1
<1>5. \A i \in 0..n : h[i] \in Seq(1..m2)
  BY <1>1, SeqMonotonic
<1>6. h2[n] \in Seq(1..m2) /\ Once(h2[n]) /\ ToSet(h2[n]) = {c} \cup ToSet(h[n])
  <2> DEFINE s == h[n]
  <2>1. s \in Seq(1..m2) /\ Once(s) /\ c \notin ToSet(s) /\ c \in 1..m2
    BY <1>1, <1>2, <1>5
  <2> HIDE DEF s
  <2>2. (<<c>> \o s) \in Seq(1..m2)
    BY <2>1
  <2>3. Once(<<c>> \o s) /\ ToSet(<<c>> \o s) = {c} \cup ToSet(s)
    BY <2>1, ConsSet
  <2>4. h2[n] = <<c>> \o s
    BY <1>3 DEF s
  <2>5. h2[n] \in Seq(1..m2) /\ Once(h2[n]) /\ ToSet(h2[n]) = {c} \cup ToSet(s)
    BY <2>2, <2>3, <2>4
  <2> QED  BY <2>5 DEF s
<1>7. \A i \in 0..n : \/ i = n /\ ToSet(h2[i]) = {c} \cup ToSet(h[i])
                      \/ i # n /\ h2[i] = h[i]
  BY <1>3, <1>4, <1>6
<1>8. ASSUME NEW i \in 0..n
      PROVE  h2[i] \in Seq(1..m2) /\ Once(h2[i]) /\ ToSet(h2[i]) \cap ToSet(f2) = {}
  <2>1. CASE i = n
    <3>1. ToSet(h[n]) \cap ToSet(f2) = {}
      BY <1>1, <1>2
    <3> QED  BY <1>1, <1>6, <2>1, <3>1
  <2>2. CASE i # n
    <3>1. h2[i] = h[i] /\ h[i] \in Seq(1..m2)
      BY <1>5, <1>7, <2>2
    <3>2. Once(h[i]) /\ ToSet(h[i]) \cap ToSet(f2) = {}
      BY <1>1, <1>2
    <3> QED  BY <3>1, <3>2
  <2> QED  BY <2>1, <2>2
<1>9. ASSUME NEW i \in 0..n, NEW j \in 0..n, i # j PROVE ToSet(h2[i]) \cap ToSet(h2[j]) = {}
  <2>1. ToSet(h[i]) \cap ToSet(h[j]) = {} /\ c \notin ToSet(h[i]) /\ c \notin ToSet(h[j])
    BY <1>1, <1>2, <1>9
  <2>2. ToSet(h2[i]) = ToSet(h[i]) \/ (i = n /\ ToSet(h2[i]) = {c} \cup ToSet(h[i]))
    BY <1>7
  <2>3. ToSet(h2[j]) = ToSet(h[j]) \/ (j = n /\ ToSet(h2[j]) = {c} \cup ToSet(h[j]))
    BY <1>7
  <2> QED  BY <1>9, <2>1, <2>2, <2>3
<1>10. \A x \in 1..m2 : x \in ToSet(f2) \/ \E i \in 0..n : x \in ToSet(h2[i])
  BY <1>1, <1>2, <1>6, <1>7
<1> QED  BY <1>1, <1>3, <1>8, <1>9, <1>10 DEF Parted

(* What a binding may hide.                                                *)
LEMMA BelowFacts ==
  ASSUME NEW h, NEW n \in Nat
  PROVE  /\ Below(h, 0) = {} /\ Below(h, n + 1) = Below(h, n) \cup ToSet(h[n])
         /\ \A i \in 0 .. n + 1 : Below(h, i) \subseteq Below(h, n + 1)
         /\ \A i \in 0..n : ToSet(h[i]) \subseteq Below(h, n + 1)
         /\ \A x \in Below(h, n + 1) : \E i \in 0..n : x \in ToSet(h[i])
<1>1. 0 .. 0 - 1 = {} /\ (n + 1) - 1 = n /\ 0..n = (0 .. n - 1) \cup {n}
  OBVIOUS
<1>2. Below(h, 0) = {}
  BY <1>1 DEF Below
<1>3. Below(h, n + 1) = UNION {ToSet(h[j]) : j \in 0..n}
  BY <1>1 DEF Below
<1>4. Below(h, n + 1) = Below(h, n) \cup ToSet(h[n])
  BY <1>1, <1>3 DEF Below
<1>5. \A i \in 0 .. n + 1 : 0 .. i - 1 \subseteq 0..n
  OBVIOUS
<1>6. \A i \in 0 .. n + 1 : Below(h, i) \subseteq Below(h, n + 1)
  BY <1>3, <1>5 DEF Below
<1> QED  BY <1>2, <1>3, <1>4, <1>6

(* It depends on the lists below only.                                     *)
LEMMA BelowSame ==
  ASSUME NEW h, NEW h2, NEW i, \A j \in 0 .. i - 1 : h2[j] = h[j]
  PROVE  Below(h2, i) = Below(h, i)
<1>1. {ToSet(h2[j]) : j \in 0 .. i - 1} = {ToSet(h[j]) : j \in 0 .. i - 1}
  OBVIOUS
<1> QED  BY <1>1 DEF Below

(* What is behind an element of a list.                                    *)
LEMMA RestFacts ==
  ASSUME NEW S, NEW s \in Seq(S)
  PROVE  \A k : Rest(s, k) \subseteq ToSet(s)
<1>1. ToSet(s) = {s[i] : i \in 1 .. Len(s)}
  BY SeqFacts
<1> QED  BY <1>1 DEF Rest

(* What comes after a place in a list, when an element is put before it.   *)
LEMMA RestShift ==
  ASSUME NEW S, NEW s \in Seq(S), NEW t, Len(t) = Len(s) + 1, \A i \in 1 .. Len(s) : t[i + 1] = s[i]
  PROVE  /\ Rest(t, 1) = ToSet(s)
         /\ \A k \in 1 .. Len(s) : Rest(t, k + 1) = Rest(s, k)
<1> DEFINE n == Len(s)
<1>1. n \in Nat /\ ToSet(s) = {s[i] : i \in 1..n} /\ Len(t) = n + 1 /\ \A i \in 1..n : t[i + 1] = s[i]
  BY SeqFacts
<1> HIDE DEF n
<1>2. \A i \in 1..n : i + 1 \in 1 .. n + 1 /\ 1 < i + 1 /\ t[i + 1] = s[i]
  BY <1>1
<1>3. \A i \in 1 .. n + 1 : 1 < i => (i - 1 \in 1..n /\ t[i] = s[i - 1])
  <2> SUFFICES ASSUME NEW i \in 1 .. n + 1, 1 < i PROVE i - 1 \in 1..n /\ t[i] = s[i - 1]
    OBVIOUS
  <2>1. i - 1 \in 1..n /\ (i - 1) + 1 = i
    BY <1>1
  <2> QED  BY <1>1, <2>1
<1>4. Rest(t, 1) = ToSet(s)
  <2>1. Rest(t, 1) = {t[i] : i \in {l \in 1 .. n + 1 : 1 < l}}
    BY <1>1 DEF Rest
  <2>2. \A x \in Rest(t, 1) : x \in ToSet(s)
    BY <1>1, <1>3, <2>1
  <2>3. \A i \in 1..n : s[i] \in Rest(t, 1)
    <3> TAKE i \in 1..n
    <3>1. i + 1 \in {l \in 1 .. n + 1 : 1 < l} /\ t[i + 1] = s[i]
      BY <1>2
    <3> QED  BY <2>1, <3>1
  <2> QED  BY <1>1, <2>2, <2>3
<1>5. ASSUME NEW k \in 1..n PROVE Rest(t, k + 1) = Rest(s, k)
  <2>1. Rest(t, k + 1) = {t[i] : i \in {l \in 1 .. n + 1 : k + 1 < l}}
    BY <1>1 DEF Rest
  <2>2. Rest(s, k) = {s[i] : i \in {l \in 1..n : k < l}}
    BY DEF Rest, n
  <2>3. ASSUME NEW i \in 1 .. n + 1, k + 1 < i PROVE t[i] \in Rest(s, k)
    <3>1. i - 1 \in {l \in 1..n : k < l} /\ t[i] = s[i - 1]
      BY <1>1, <1>3, <2>3
    <3> QED  BY <2>2, <3>1
  <2>4. ASSUME NEW i \in 1..n, k < i PROVE s[i] \in Rest(t, k + 1)
    <3>1. i + 1 \in {l \in 1 .. n + 1 : k + 1 < l} /\ t[i + 1] = s[i]
      BY <1>1, <1>2, <2>4
    <3> QED  BY <2>1, <3>1
  <2> QED  BY <2>1, <2>2, <2>3, <2>4
<1> QED  BY <1>4, <1>5 DEF n

(* A new binding hides the one its prefix had.                             *)
Rebound(prefix, prev, b, prefix2, prev2, b2, m, c, p) ==
  /\ p \in NsPrefixes /\ prefix2[c] = p /\ prev2[c] = b[p]
  /\ \A x \in 1..m : x # c => prefix2[x] = prefix[x] /\ prev2[x] = prev[x]
  /\ \A q \in NsPrefixes : b2[q] = 0 \/ (q = p /\ b2[q] = c) \/ (q # p /\ b2[q] = b[q])

(* All bindings of the lists are cells.                                    *)
LEMMA HeldCells ==
  ASSUME NEW h, NEW n, NEW f, NEW m, Parted(h, n, f, m)
  PROVE  /\ n \in Nat /\ n \in 0..n
         /\ \A i \in 0..n : /\ h[i] \in Seq(1..m) /\ Len(h[i]) \in Nat
                            /\ ToSet(h[i]) \subseteq 1..m
                            /\ \A k \in 1 .. Len(h[i]) : h[i][k] \in ToSet(h[i])
         /\ Below(h, n + 1) \subseteq 1..m
<1>1. n \in Nat /\ n \in 0..n /\ \A i \in 0..n : h[i] \in Seq(1..m)
  BY DEF Parted
<1>2. ASSUME NEW i \in 0..n
      PROVE  /\ Len(h[i]) \in Nat /\ ToSet(h[i]) \subseteq 1..m
             /\ \A k \in 1 .. Len(h[i]) : h[i][k] \in ToSet(h[i])
  BY <1>1, SeqFacts
<1>3. Below(h, n + 1) \subseteq 1..m
  BY <1>1, <1>2, BelowFacts
<1> QED  BY <1>1, <1>2, <1>3

(* The chains then.                                                        *)
LEMMA PushChained ==
  ASSUME NEW h, NEW n, NEW f, NEW m, NEW h2, NEW f2, NEW m2, NEW c, NEW p,
         NEW prefix, NEW prev, NEW b, NEW prefix2, NEW prev2, NEW b2,
         Parted(h, n, f, m), Pushed(h, n, f, m, h2, f2, m2, c), Chained(h, n, prefix, prev, b),
         Rebound(prefix, prev, b, prefix2, prev2, b2, m, c, p)
  PROVE  /\ Chained(h2, n, prefix2, prev2, b2)
         /\ Below(h2, n + 1) = Below(h, n + 1) \cup {c}
         /\ SameBelow(h, h2, n)
         /\ c \notin Below(h, n + 1)
<1>1. /\ n \in Nat /\ n \in 0..n
      /\ \A i \in 0..n : /\ h[i] \in Seq(1..m) /\ Len(h[i]) \in Nat /\ ToSet(h[i]) \subseteq 1..m
                         /\ \A k \in 1 .. Len(h[i]) : h[i][k] \in ToSet(h[i])
      /\ Below(h, n + 1) \subseteq 1..m
  BY HeldCells
<1>2. \A i \in 0..n : c \notin ToSet(h[i])
  BY PushTakes
<1>3. (\A i \in 0 .. n - 1 : h2[i] = h[i]) /\ h2[n] = <<c>> \o h[n]
  BY DEF Pushed
<1>4. /\ Below(h, n + 1) = Below(h, n) \cup ToSet(h[n])
      /\ Below(h2, n + 1) = Below(h2, n) \cup ToSet(h2[n])
      /\ \A i \in 0 .. n + 1 : Below(h, i) \subseteq Below(h, n + 1)
      /\ \A i \in 0..n : ToSet(h[i]) \subseteq Below(h, n + 1)
      /\ \A x \in Below(h, n + 1) : \E i \in 0..n : x \in ToSet(h[i])
  BY <1>1, BelowFacts
<1>5. c \notin Below(h, n + 1)
  BY <1>2, <1>4
<1>6. \A i \in 0..n : Below(h2, i) = Below(h, i)
  <2> TAKE i \in 0..n
  <2>1. \A j \in 0 .. i - 1 : h2[j] = h[j]
    BY <1>1, <1>3
  <2> QED  BY <2>1, BelowSame
<1> DEFINE s == h[n]
           t == h2[n]
           M == 1..m \cup {c}
<1>7. s \in Seq(M) /\ c \in M /\ t = <<c>> \o s
  BY <1>1, <1>3, SeqMonotonic
<1> HIDE DEF s, t, M
<1>8. Len(s) \in Nat /\ ToSet(t) = {c} \cup ToSet(s) /\ Len(t) = Len(s) + 1 /\ t[1] = c
  BY <1>7, ConsSet
<1>9. \A i \in 1 .. Len(s) : t[i + 1] = s[i]
  BY <1>7
<1>10. Rest(t, 1) = ToSet(s) /\ \A k \in 1 .. Len(s) : Rest(t, k + 1) = Rest(s, k)
  BY <1>7, <1>8, <1>9, RestShift
<1>11. Below(h2, n + 1) = Below(h, n + 1) \cup {c}
  BY <1>1, <1>4, <1>6, <1>8 DEF s, t
<1>12. /\ \A x \in Below(h, n + 1) : prefix2[x] = prefix[x] /\ prev2[x] = prev[x]
       /\ p \in NsPrefixes /\ prefix2[c] = p /\ prev2[c] = b[p]
       /\ \A q \in NsPrefixes : b2[q] = 0 \/ (q = p /\ b2[q] = c) \/ (q # p /\ b2[q] = b[q])
  BY <1>1, <1>5 DEF Rebound
<1>13. /\ \A i \in 0..n : \A k \in 1 .. Len(h[i]) : prev[h[i][k]] # 0 =>
            /\ prev[h[i][k]] \in Below(h, i) \cup Rest(h[i], k)
            /\ prefix[prev[h[i][k]]] = prefix[h[i][k]]
       /\ \A q \in NsPrefixes : b[q] # 0 => b[q] \in Below(h, n + 1) /\ prefix[b[q]] = q
  BY DEF Chained
<1>14. \A i \in 0..n : \A k : Rest(h[i], k) \subseteq Below(h, n + 1)
  BY <1>1, <1>4, RestFacts
<1>15. \A i \in 0..n : Below(h, i) \subseteq Below(h, n + 1)
  BY <1>1, <1>4
<1>16. ASSUME NEW i \in 0..n, NEW k \in 1 .. Len(h[i]), prev2[h[i][k]] # 0
       PROVE  /\ prev2[h[i][k]] \in Below(h, i) \cup Rest(h[i], k)
              /\ prefix2[prev2[h[i][k]]] = prefix2[h[i][k]]
  <2> DEFINE x == h[i][k]
  <2>1. x \in Below(h, n + 1)
    BY <1>1, <1>4
  <2>2. prev[x] # 0 => prev[x] \in Below(h, i) \cup Rest(h[i], k) /\ prefix[prev[x]] = prefix[x]
    BY <1>13
  <2> HIDE DEF x
  <2>3. prev2[x] = prev[x] /\ prefix2[x] = prefix[x]
    BY <1>12, <2>1
  <2>4. prev2[x] # 0
    BY <1>16 DEF x
  <2>5. prev[x] \in Below(h, n + 1)
    BY <1>14, <1>15, <2>2, <2>3, <2>4
  <2>6. prev2[x] \in Below(h, i) \cup Rest(h[i], k) /\ prefix2[prev2[x]] = prefix2[x]
    BY <1>12, <2>2, <2>3, <2>4, <2>5
  <2> QED  BY <2>6 DEF x
<1>17. ASSUME NEW i \in 0..n, NEW k \in 1 .. Len(h2[i]), prev2[h2[i][k]] # 0
       PROVE  /\ prev2[h2[i][k]] \in Below(h2, i) \cup Rest(h2[i], k)
              /\ prefix2[prev2[h2[i][k]]] = prefix2[h2[i][k]]
  <2>1. CASE i # n
    <3>1. i \in 0 .. n - 1
      BY <1>1, <2>1
    <3>2. h2[i] = h[i]
      BY <1>3, <3>1
    <3> QED  BY <1>6, <1>16, <1>17, <3>2
  <2>2. CASE i = n /\ k = 1
    <3>1. h2[i][k] = c /\ prev2[c] # 0
      BY <1>8, <1>17, <2>2 DEF t
    <3>2. b[p] \in Below(h, n + 1) /\ prefix[b[p]] = p
      BY <1>12, <1>13, <3>1
    <3>3. prefix2[b[p]] = p /\ b[p] \in Below(h, n) \cup ToSet(h[n])
      BY <1>4, <1>12, <3>2
    <3>4. Rest(h2[i], k) = ToSet(h[n]) /\ Below(h2, i) = Below(h, n)
      BY <1>1, <1>6, <1>10, <2>2 DEF s, t
    <3> QED  BY <1>12, <3>1, <3>3, <3>4
  <2>3. CASE i = n /\ k # 1
    <3> DEFINE j == k - 1
    <3>1. j \in 1 .. Len(s) /\ k = j + 1
      BY <1>8, <2>3 DEF t
    <3> HIDE DEF j
    <3>2. h2[i][k] = h[i][j] /\ Rest(h2[i], k) = Rest(h[i], j)
      BY <1>9, <1>10, <2>3, <3>1 DEF s, t
    <3>3. j \in 1 .. Len(h[i]) /\ prev2[h[i][j]] # 0
      BY <1>17, <2>3, <3>1, <3>2 DEF s
    <3>4. Below(h2, i) = Below(h, i)
      BY <1>6
    <3> QED  BY <1>16, <3>2, <3>3, <3>4
  <2> QED  BY <2>1, <2>2, <2>3
<1>18. ASSUME NEW q \in NsPrefixes, b2[q] # 0 PROVE b2[q] \in Below(h2, n + 1) /\ prefix2[b2[q]] = q
  BY <1>11, <1>12, <1>13, <1>18
<1>19. SameBelow(h, h2, n)
  BY <1>6 DEF SameBelow
<1> QED  BY <1>5, <1>11, <1>17, <1>18, <1>19 DEF Chained

(* The innermost binding is freed.                                         *)
LEMMA PopParted ==
  ASSUME NEW h, NEW n, NEW f, NEW m, NEW h2, NEW f2,
         Parted(h, n, f, m), Popped(h, n, f, h2, f2)
  PROVE  /\ Parted(h2, n, f2, m)
         /\ Below(h, n + 1) = Below(h2, n + 1) \cup {Head(h[n])}
         /\ Head(h[n]) \notin Below(h2, n + 1)
         /\ SameBelow(h, h2, n)
<1>1. /\ n \in Nat /\ n \in 0..n /\ m \in Nat /\ f \in Seq(1..m) /\ Once(f)
      /\ \A i \in 0..n : h[i] \in Seq(1..m) /\ Once(h[i]) /\ ToSet(h[i]) \cap ToSet(f) = {}
      /\ \A i, j \in 0..n : i # j => ToSet(h[i]) \cap ToSet(h[j]) = {}
      /\ \A x \in 1..m : x \in ToSet(f) \/ \E i \in 0..n : x \in ToSet(h[i])
  BY DEF Parted
<1>2. /\ h[n] # <<>> /\ f2 = <<Head(h[n])>> \o f /\ DOMAIN h2 = 0..n
      /\ (\A i \in 0 .. n - 1 : h2[i] = h[i]) /\ h2[n] = Tail(h[n])
  BY DEF Popped
<1> DEFINE s == h[n]
           t == h2[n]
           c == Head(s)
<1>3. s \in Seq(1..m) /\ s # <<>> /\ t = Tail(s) /\ Once(s) /\ f2 = <<c>> \o f /\ ToSet(s) \cap ToSet(f) = {}
  BY <1>1, <1>2
<1> HIDE DEF s, t
<1>4. /\ c \in 1..m /\ t \in Seq(1..m) /\ Once(t) /\ ToSet(s) = {c} \cup ToSet(t) /\ c \notin ToSet(t)
  BY <1>3, Uncons
<1>5. c \notin ToSet(f)
  BY <1>3, <1>4
<1> HIDE DEF c
<1>6. Once(f2) /\ ToSet(f2) = {c} \cup ToSet(f)
  <2>1. Once(<<c>> \o f) /\ ToSet(<<c>> \o f) = {c} \cup ToSet(f)
    BY <1>1, <1>4, <1>5, ConsSet
  <2> QED  BY <1>3, <2>1
<1>7. f2 \in Seq(1..m)
  BY <1>1, <1>3, <1>4
<1>8. \A i \in 0..n : i # n => h2[i] = h[i]
  BY <1>1, <1>2
<1>9. \A i \in 0..n : i # n => c \notin ToSet(h[i])
  BY <1>1, <1>4 DEF s
<1>10. \A i \in 0..n : \/ i = n /\ h2[i] = t /\ h[i] = s
                       \/ i # n /\ h2[i] = h[i] /\ c \notin ToSet(h[i])
  BY <1>8, <1>9 DEF s, t
<1>11. ASSUME NEW i \in 0..n
       PROVE  h2[i] \in Seq(1..m) /\ Once(h2[i]) /\ ToSet(h2[i]) \cap ToSet(f2) = {}
  <2>1. CASE i = n
    BY <1>3, <1>4, <1>6, <1>10, <2>1
  <2>2. CASE i # n
    BY <1>1, <1>6, <1>10, <2>2
  <2> QED  BY <2>1, <2>2
<1>12. \A i \in 0..n : ToSet(h2[i]) \subseteq ToSet(h[i])
  BY <1>4, <1>10
<1>13. \A i, j \in 0..n : i # j => ToSet(h2[i]) \cap ToSet(h2[j]) = {}
  BY <1>1, <1>12
<1>14. ASSUME NEW x \in 1..m PROVE x \in ToSet(f2) \/ \E i \in 0..n : x \in ToSet(h2[i])
  <2>1. CASE x \in ToSet(f)
    BY <1>6, <2>1
  <2>2. ASSUME NEW i \in 0..n, x \in ToSet(h[i]) PROVE x \in ToSet(f2) \/ x \in ToSet(h2[i])
    BY <1>4, <1>6, <1>10, <2>2
  <2> QED  BY <1>1, <2>1, <2>2
<1>15. Parted(h2, n, f2, m)
  <2>1. n \in Nat /\ m \in Nat /\ DOMAIN h2 = 0..n /\ f2 \in Seq(1..m) /\ Once(f2)
    BY <1>1, <1>2, <1>6, <1>7
  <2> QED  BY <1>11, <1>13, <1>14, <2>1 DEF Parted
<1>16. ASSUME NEW i \in 0..n PROVE Below(h2, i) = Below(h, i)
  <2>1. \A j \in 0 .. i - 1 : h2[j] = h[j]
    BY <1>1, <1>2
  <2> QED  BY <2>1, BelowSame
<1>17. /\ Below(h, n + 1) = Below(h, n) \cup ToSet(h[n])
       /\ Below(h2, n + 1) = Below(h2, n) \cup ToSet(h2[n])
       /\ \A x \in Below(h2, n + 1) : \E i \in 0..n : x \in ToSet(h2[i])
  BY <1>1, BelowFacts
<1>18. \A i \in 0..n : c \notin ToSet(h2[i])
  BY <1>4, <1>10
<1>19. Below(h, n + 1) = Below(h2, n + 1) \cup {c}
  BY <1>1, <1>4, <1>16, <1>17 DEF s, t
<1>20. c \notin Below(h2, n + 1)
  BY <1>17, <1>18
<1>21. SameBelow(h, h2, n)
  BY <1>16 DEF SameBelow
<1> QED  BY <1>15, <1>19, <1>20, <1>21 DEF c, s

(* What it hid is bound again.                                             *)
Unbound(prefix, prev, b, prefix2, prev2, b2, m, c) ==
  /\ \A x \in 1..m : x # c => prefix2[x] = prefix[x] /\ prev2[x] = prev[x]
  /\ \A q \in NsPrefixes : b2[q] = IF q = prefix[c] THEN prev[c] ELSE b[q]

(* The chains without the binding that is withdrawn.                       *)
LEMMA PopChained ==
  ASSUME NEW h, NEW n, NEW f, NEW m, NEW h2, NEW f2,
         NEW prefix, NEW prev, NEW b, NEW prefix2, NEW prev2, NEW b2,
         Parted(h, n, f, m), Popped(h, n, f, h2, f2), Chained(h, n, prefix, prev, b),
         Unbound(prefix, prev, b, prefix2, prev2, b2, m, Head(h[n]))
  PROVE  Chained(h2, n, prefix2, prev2, b2)
<1> DEFINE s == h[n]
           t == h2[n]
           c == Head(s)
<1>1. /\ n \in Nat /\ n \in 0..n
      /\ \A i \in 0..n : /\ h[i] \in Seq(1..m) /\ Len(h[i]) \in Nat /\ ToSet(h[i]) \subseteq 1..m
                         /\ \A k \in 1 .. Len(h[i]) : h[i][k] \in ToSet(h[i])
      /\ Below(h, n + 1) \subseteq 1..m
  BY HeldCells
<1> HIDE DEF c
<1>2. /\ Below(h, n + 1) = Below(h2, n + 1) \cup {c}
      /\ c \notin Below(h2, n + 1)
      /\ \A i \in 0..n : Below(h2, i) = Below(h, i)
  <2>1. Below(h, n + 1) = Below(h2, n + 1) \cup {Head(h[n])}
    BY PopParted
  <2>2. Head(h[n]) \notin Below(h2, n + 1)
    BY PopParted
  <2>3. \A i \in 0..n : Below(h2, i) = Below(h, i)
    BY PopParted DEF SameBelow
  <2>4. c = Head(h[n])
    BY DEF c, s
  <2> QED  BY <2>1, <2>2, <2>3, <2>4
<1>3. h[n] # <<>> /\ (\A i \in 0 .. n - 1 : h2[i] = h[i]) /\ h2[n] = Tail(h[n])
  BY DEF Popped
<1>4. Parted(h2, n, f2, m)
  BY PopParted
<1>5. s \in Seq(1..m) /\ s # <<>> /\ t = Tail(s)
  BY <1>1, <1>3
<1> HIDE DEF s, t
<1>6. /\ Len(s) \in Nat \ {0} /\ c = s[1] /\ t \in Seq(1..m) /\ Len(t) = Len(s) - 1
      /\ \A i \in 1 .. Len(s) - 1 : t[i] = s[i + 1]
  BY <1>5, Uncons DEF c
<1>8. Len(t) \in Nat /\ Len(s) = Len(t) + 1 /\ \A i \in 1 .. Len(t) : s[i + 1] = t[i]
  BY <1>6
<1>9. Rest(s, 1) = ToSet(t) /\ \A k \in 1 .. Len(t) : Rest(s, k + 1) = Rest(t, k)
  BY <1>6, <1>8, RestShift
<1>10. /\ \A x \in 1..m : x # c => prefix2[x] = prefix[x] /\ prev2[x] = prev[x]
       /\ \A q \in NsPrefixes : b2[q] = IF q = prefix[c] THEN prev[c] ELSE b[q]
  BY DEF Unbound, s, c
<1>11. \A x \in Below(h2, n + 1) : prefix2[x] = prefix[x] /\ prev2[x] = prev[x]
  BY <1>1, <1>2, <1>10
<1>12. /\ \A i \in 0..n : \A k \in 1 .. Len(h[i]) : prev[h[i][k]] # 0 =>
            /\ prev[h[i][k]] \in Below(h, i) \cup Rest(h[i], k)
            /\ prefix[prev[h[i][k]]] = prefix[h[i][k]]
       /\ \A q \in NsPrefixes : b[q] # 0 => b[q] \in Below(h, n + 1) /\ prefix[b[q]] = q
  BY DEF Chained
<1>13. /\ \A i \in 0 .. n + 1 : Below(h2, i) \subseteq Below(h2, n + 1)
       /\ \A i \in 0..n : ToSet(h2[i]) \subseteq Below(h2, n + 1)
       /\ Below(h2, n + 1) = Below(h2, n) \cup ToSet(h2[n])
  BY <1>1, BelowFacts
<1>14. \A i \in 0..n : h2[i] \in Seq(1..m) /\ \A k \in 1 .. Len(h2[i]) : h2[i][k] \in ToSet(h2[i])
  BY <1>4, HeldCells
<1>15. \A i \in 0..n : \A k : Rest(h2[i], k) \subseteq Below(h2, n + 1)
  <2>1. \A i \in 0..n : \A k : Rest(h2[i], k) \subseteq ToSet(h2[i])
    BY <1>14, RestFacts
  <2> QED  BY <1>13, <2>1
<1>16. ASSUME NEW i \in 0..n, NEW k \in 1 .. Len(h2[i])
       PROVE  \E j \in 1 .. Len(h[i]) : h[i][j] = h2[i][k] /\ Rest(h[i], j) = Rest(h2[i], k)
  <2>1. CASE i # n
    <3>1. i \in 0 .. n - 1
      BY <1>1, <2>1
    <3>2. h2[i] = h[i]
      BY <1>3, <3>1
    <3> QED  BY <3>2
  <2>2. CASE i = n
    <3>1. k \in 1 .. Len(t) /\ k + 1 \in 1 .. Len(s)
      BY <1>8, <2>2 DEF t
    <3>2. s[k + 1] = t[k] /\ Rest(s, k + 1) = Rest(t, k)
      BY <1>8, <1>9, <3>1
    <3> QED  BY <2>2, <3>1, <3>2 DEF s, t
  <2> QED  BY <2>1, <2>2
<1>17. ASSUME NEW i \in 0..n, NEW k \in 1 .. Len(h2[i]), prev2[h2[i][k]] # 0
       PROVE  /\ prev2[h2[i][k]] \in Below(h2, i) \cup Rest(h2[i], k)
              /\ prefix2[prev2[h2[i][k]]] = prefix2[h2[i][k]]
  <2> DEFINE x == h2[i][k]
             y == prev[x]
  <2>1. x \in Below(h2, n + 1)
    BY <1>13, <1>14
  <2>2. PICK j \in 1 .. Len(h[i]) : h[i][j] = x /\ Rest(h[i], j) = Rest(h2[i], k)
    BY <1>16
  <2>3. prev[h[i][j]] # 0 =>
            /\ prev[h[i][j]] \in Below(h, i) \cup Rest(h[i], j)
            /\ prefix[prev[h[i][j]]] = prefix[h[i][j]]
    BY <1>12
  <2>4. prev[x] # 0 => prev[x] \in Below(h2, i) \cup Rest(h2[i], k) /\ prefix[prev[x]] = prefix[x]
    BY <1>2, <2>2, <2>3
  <2>5. prev2[x] # 0
    BY <1>17
  <2> HIDE DEF x
  <2>6. prev2[x] = y /\ prefix2[x] = prefix[x] /\ y # 0
    BY <1>11, <2>1, <2>5
  <2>7. y \in Below(h2, i) \cup Rest(h2[i], k) /\ prefix[y] = prefix[x]
    BY <2>4, <2>6
  <2> HIDE DEF y
  <2>8. y \in Below(h2, n + 1)
    <3>1. Rest(h2[i], k) \subseteq Below(h2, n + 1)
      BY <1>15
    <3>2. Below(h2, i) \subseteq Below(h2, n + 1)
      BY <1>1, <1>13
    <3> QED  BY <2>7, <3>1, <3>2
  <2>9. prefix2[y] = prefix[y]
    BY <1>11, <2>8
  <2>10. prev2[x] \in Below(h2, i) \cup Rest(h2[i], k) /\ prefix2[prev2[x]] = prefix2[x]
    BY <2>6, <2>7, <2>9
  <2> QED  BY <2>10 DEF x
<1>18. ASSUME NEW q \in NsPrefixes, b2[q] # 0 PROVE b2[q] \in Below(h2, n + 1) /\ prefix2[b2[q]] = q
  <2>1. CASE q = prefix[c]
    <3>1. 1 \in 1 .. Len(h[n]) /\ h[n][1] = c
      BY <1>6 DEF s
    <3>2. prev[h[n][1]] # 0 => /\ prev[h[n][1]] \in Below(h, n) \cup Rest(h[n], 1)
                               /\ prefix[prev[h[n][1]]] = prefix[h[n][1]]
      BY <1>1, <1>12, <3>1
    <3>3. b2[q] = prev[c] /\ prev[c] # 0
      BY <1>10, <1>18, <2>1
    <3>4. prev[c] \in Below(h, n) \cup Rest(h[n], 1) /\ prefix[prev[c]] = q
      BY <2>1, <3>1, <3>2, <3>3
    <3>5. Below(h, n) = Below(h2, n) /\ Rest(h[n], 1) = ToSet(h2[n])
      BY <1>1, <1>2, <1>9 DEF s, t
    <3>6. prev[c] \in Below(h2, n + 1)
      BY <1>13, <3>4, <3>5
    <3> QED  BY <1>11, <3>3, <3>4, <3>6
  <2>2. CASE q # prefix[c]
    <3>1. b2[q] = b[q] /\ b[q] \in Below(h, n + 1) /\ prefix[b[q]] = q
      BY <1>10, <1>12, <1>18, <2>2
    <3>2. b[q] # c
      BY <2>2, <3>1
    <3>3. b[q] \in Below(h2, n + 1)
      BY <1>2, <3>1, <3>2
    <3> QED  BY <1>11, <3>1, <3>3
  <2> QED  BY <2>1, <2>2
<1> QED  BY <1>17, <1>18 DEF Chained

(* The innermost list is freed as a whole.                                 *)
LEMMA SpillParted ==
  ASSUME NEW h, NEW n, NEW f, NEW m, NEW h2, NEW f2,
         Parted(h, n, f, m), Spilled(h, n, f, h2, f2)
  PROVE  Parted(h2, n, f2, m)
<1>1. /\ n \in Nat /\ n \in 0..n /\ m \in Nat /\ f \in Seq(1..m) /\ Once(f)
      /\ \A i \in 0..n : h[i] \in Seq(1..m) /\ Once(h[i]) /\ ToSet(h[i]) \cap ToSet(f) = {}
      /\ \A i, j \in 0..n : i # j => ToSet(h[i]) \cap ToSet(h[j]) = {}
      /\ \A x \in 1..m : x \in ToSet(f) \/ \E i \in 0..n : x \in ToSet(h[i])
  BY DEF Parted
<1>2. /\ f2 = Reverse(h[n]) \o f /\ DOMAIN h2 = 0..n
      /\ (\A i \in 0 .. n - 1 : h2[i] = h[i]) /\ h2[n] = <<>>
  BY DEF Spilled
<1> DEFINE s == h[n]
<1>3. s \in Seq(1..m) /\ Once(s) /\ f2 = Reverse(s) \o f /\ ToSet(s) \cap ToSet(f) = {}
  BY <1>1, <1>2
<1> HIDE DEF s
<1>4. f2 \in Seq(1..m) /\ Once(f2) /\ ToSet(f2) = ToSet(s) \cup ToSet(f)
  <2>1. /\ (Reverse(s) \o f) \in Seq(1..m) /\ Once(Reverse(s) \o f)
        /\ ToSet(Reverse(s) \o f) = ToSet(s) \cup ToSet(f)
    BY <1>1, <1>3, Spill
  <2> QED  BY <1>3, <2>1
<1>5. \A i \in 0..n : i # n => h2[i] = h[i]
  BY <1>1, <1>2
<1>6. h2[n] \in Seq(1..m) /\ Once(h2[n]) /\ ToSet(h2[n]) = {}
  BY <1>2, NoneSet
<1>7. \A i \in 0..n : i # n => ToSet(h[i]) \cap ToSet(s) = {}
  BY <1>1 DEF s
<1>8. ASSUME NEW i \in 0..n
      PROVE  h2[i] \in Seq(1..m) /\ Once(h2[i]) /\ ToSet(h2[i]) \cap ToSet(f2) = {}
  <2>1. CASE i = n
    BY <1>6, <2>1
  <2>2. CASE i # n
    <3>1. h2[i] = h[i]
      BY <1>5, <2>2
    <3>2. h[i] \in Seq(1..m) /\ Once(h[i])
      BY <1>1
    <3>3. ToSet(h[i]) \cap ToSet(f2) = {}
      BY <1>1, <1>4, <1>7, <2>2
    <3> QED  BY <3>1, <3>2, <3>3
  <2> QED  BY <2>1, <2>2
<1>9. \A i \in 0..n : ToSet(h2[i]) \subseteq ToSet(h[i])
  BY <1>5, <1>6
<1>10. \A i, j \in 0..n : i # j => ToSet(h2[i]) \cap ToSet(h2[j]) = {}
  BY <1>1, <1>9
<1>11. ASSUME NEW x \in 1..m PROVE x \in ToSet(f2) \/ \E i \in 0..n : x \in ToSet(h2[i])
  <2>1. CASE x \in ToSet(f)
    BY <1>4, <2>1
  <2>2. ASSUME NEW i \in 0..n, x \in ToSet(h[i]) PROVE x \in ToSet(f2) \/ x \in ToSet(h2[i])
    BY <1>4, <1>5, <2>2 DEF s
  <2> QED  BY <1>1, <2>1, <2>2
<1>12. n \in Nat /\ m \in Nat /\ DOMAIN h2 = 0..n
  BY <1>1, <1>2
<1> QED  BY <1>4, <1>8, <1>10, <1>11, <1>12 DEF Parted

(* The bindings of a start tag go to its tag.                              *)
LEMMA MoveParted ==
  ASSUME NEW h, NEW n, NEW f, NEW m, NEW h2, Parted(h, n, f, m), MovedUp(h, n, h2)
  PROVE  Parted(h2, n, f, m)
<1>1. /\ n \in Nat /\ n \in 0..n /\ m \in Nat /\ f \in Seq(1..m) /\ Once(f)
      /\ \A i \in 0..n : h[i] \in Seq(1..m) /\ Once(h[i]) /\ ToSet(h[i]) \cap ToSet(f) = {}
      /\ \A i, j \in 0..n : i # j => ToSet(h[i]) \cap ToSet(h[j]) = {}
      /\ \A x \in 1..m : x \in ToSet(f) \/ \E i \in 0..n : x \in ToSet(h[i])
  BY DEF Parted
<1> DEFINE k == n - 1
<1>2. /\ n # 0 /\ h[k] = <<>> /\ DOMAIN h2 = 0..n
      /\ (\A i \in 0 .. n - 2 : h2[i] = h[i]) /\ h2[k] = h[n] /\ h2[n] = <<>>
  BY DEF MovedUp
<1>3. k \in 0..n /\ k # n /\ \A i \in 0..n : i # n /\ i # k => i \in 0 .. n - 2
  BY <1>1, <1>2
<1> HIDE DEF k
<1>4. \A i \in 0..n : i # n /\ i # k => h2[i] = h[i]
  BY <1>2, <1>3
<1>5. ToSet(h[k]) = {} /\ ToSet(h2[n]) = {} /\ h2[n] \in Seq(1..m) /\ Once(h2[n])
  BY <1>2, NoneSet
<1>6. ASSUME NEW i \in 0..n
      PROVE  h2[i] \in Seq(1..m) /\ Once(h2[i]) /\ ToSet(h2[i]) \cap ToSet(f) = {}
  <2>1. CASE i = n
    BY <1>5, <2>1
  <2>2. CASE i = k
    BY <1>1, <1>2, <2>2
  <2>3. CASE i # n /\ i # k
    BY <1>1, <1>4, <2>3
  <2> QED  BY <2>1, <2>2, <2>3
<1>7. ASSUME NEW i \in 0..n, NEW j \in 0..n, i # j PROVE ToSet(h2[i]) \cap ToSet(h2[j]) = {}
  <2>1. CASE i = n \/ j = n
    BY <1>5, <2>1
  <2>2. CASE i # n /\ j # n
    <3>1. CASE i = k
      BY <1>1, <1>2, <1>4, <1>7, <2>2, <3>1
    <3>2. CASE j = k
      BY <1>1, <1>2, <1>4, <1>7, <2>2, <3>2
    <3>3. CASE i # k /\ j # k
      BY <1>1, <1>4, <1>7, <2>2, <3>3
    <3> QED  BY <3>1, <3>2, <3>3
  <2> QED  BY <2>1, <2>2
<1>8. ASSUME NEW x \in 1..m PROVE x \in ToSet(f) \/ \E i \in 0..n : x \in ToSet(h2[i])
  <2>1. ASSUME NEW i \in 0..n, x \in ToSet(h[i]) PROVE \E j \in 0..n : x \in ToSet(h2[j])
    <3>1. CASE i = n
      BY <1>2, <1>3, <2>1, <3>1
    <3>2. CASE i # n
      BY <1>4, <1>5, <2>1, <3>2
    <3> QED  BY <3>1, <3>2
  <2> QED  BY <1>1, <2>1
<1>9. n \in Nat /\ m \in Nat /\ DOMAIN h2 = 0..n /\ f \in Seq(1..m) /\ Once(f)
  BY <1>1, <1>2
<1> QED  BY <1>6, <1>7, <1>8, <1>9 DEF Parted

(* The chains do not depend on which of the two lists a binding is in.     *)
LEMMA MoveChained ==
  ASSUME NEW h, NEW n, NEW f, NEW m, NEW h2, NEW prefix, NEW prev, NEW b,
         Parted(h, n, f, m), MovedUp(h, n, h2), Chained(h, n, prefix, prev, b)
  PROVE  /\ Chained(h2, n, prefix, prev, b)
         /\ Below(h2, n + 1) = Below(h, n + 1)
         /\ SameBelow(h, h2, n - 1)
         /\ Below(h2, n) = Below(h, n + 1)
<1> DEFINE k == n - 1
<1>1. /\ n \in Nat /\ n # 0 /\ h[k] = <<>>
      /\ (\A i \in 0 .. n - 2 : h2[i] = h[i]) /\ h2[k] = h[n] /\ h2[n] = <<>>
  BY DEF MovedUp, Parted
<1>2. /\ k \in Nat /\ k + 1 = n /\ k \in 0..n /\ k # n /\ n \in 0..n
      /\ (\A i \in 0..n : i # n /\ i # k => i \in 0 .. n - 2)
      /\ (\A i \in 0..k : \A j \in 0 .. i - 1 : j \in 0 .. n - 2)
  BY <1>1
<1>3. ASSUME NEW i \in 0..k PROVE Below(h2, i) = Below(h, i)
  <2>1. \A j \in 0 .. i - 1 : h2[j] = h[j]
    BY <1>1, <1>2
  <2> QED  BY <2>1, BelowSame
<1> HIDE DEF k
<1>4. ToSet(h[k]) = {} /\ ToSet(h2[n]) = {} /\ Len(h2[n]) = 0
  BY <1>1, NoneSet
<1>5. /\ Below(h, k + 1) = Below(h, k) \cup ToSet(h[k])
      /\ Below(h2, k + 1) = Below(h2, k) \cup ToSet(h2[k])
      /\ Below(h, n + 1) = Below(h, n) \cup ToSet(h[n])
      /\ Below(h2, n + 1) = Below(h2, n) \cup ToSet(h2[n])
  BY <1>1, <1>2, BelowFacts
<1>6. Below(h2, n) = Below(h, k) \cup ToSet(h[n]) /\ Below(h, n) = Below(h, k) /\ k \in 0..k
  <2>1. k \in 0..k /\ k + 1 = n
    BY <1>2
  <2>2. Below(h2, k) = Below(h, k)
    BY <1>3, <2>1
  <2>3. Below(h, n) = Below(h, k)
    BY <1>4, <1>5, <2>1
  <2>4. Below(h2, n) = Below(h2, k) \cup ToSet(h[n])
    BY <1>1, <1>5, <2>1 DEF k
  <2> QED  BY <2>1, <2>2, <2>3, <2>4
<1>7. Below(h2, n) = Below(h, n + 1) /\ Below(h2, n + 1) = Below(h, n + 1)
  BY <1>4, <1>5, <1>6
<1>8. /\ \A i \in 0..n : \A l \in 1 .. Len(h[i]) : prev[h[i][l]] # 0 =>
            /\ prev[h[i][l]] \in Below(h, i) \cup Rest(h[i], l)
            /\ prefix[prev[h[i][l]]] = prefix[h[i][l]]
      /\ \A q \in NsPrefixes : b[q] # 0 => b[q] \in Below(h, n + 1) /\ prefix[b[q]] = q
  BY DEF Chained
<1>9. ASSUME NEW i \in 0..n, NEW l \in 1 .. Len(h2[i]), prev[h2[i][l]] # 0
      PROVE  /\ prev[h2[i][l]] \in Below(h2, i) \cup Rest(h2[i], l)
             /\ prefix[prev[h2[i][l]]] = prefix[h2[i][l]]
  <2>1. CASE i = n
    BY <1>4, <1>9, <2>1
  <2>2. CASE i = k
    BY <1>1, <1>2, <1>3, <1>6, <1>8, <1>9, <2>2
  <2>3. CASE i # n /\ i # k
    <3>1. h2[i] = h[i] /\ i \in 0..k
      BY <1>1, <1>2, <2>3 DEF k
    <3> QED  BY <1>3, <1>8, <1>9, <3>1
  <2> QED  BY <2>1, <2>2, <2>3
<1>10. \A q \in NsPrefixes : b[q] # 0 => b[q] \in Below(h2, n + 1) /\ prefix[b[q]] = q
  BY <1>7, <1>8
<1>11. Chained(h2, n, prefix, prev, b)
  BY <1>9, <1>10 DEF Chained
<1>12. SameBelow(h, h2, n - 1)
  BY <1>3 DEF SameBelow, k
<1> QED  BY <1>7, <1>11, <1>12

(* There is one more tag.                                                  *)
LEMMA RaiseKeeps ==
  ASSUME NEW h, NEW n, NEW f, NEW m, NEW h2, NEW k, Parted(h, n, f, m), Raised(h, n, h2), k = n + 1
  PROVE  /\ Parted(h2, k, f, m)
         /\ SameBelow(h, h2, k)
         /\ Below(h2, k + 1) = Below(h, k)
         /\ KeepsChains(h, n, h2, k)
<1>1. /\ n \in Nat /\ n \in 0..n /\ m \in Nat /\ f \in Seq(1..m) /\ Once(f)
      /\ \A i \in 0..n : h[i] \in Seq(1..m) /\ Once(h[i]) /\ ToSet(h[i]) \cap ToSet(f) = {}
      /\ \A i, j \in 0..n : i # j => ToSet(h[i]) \cap ToSet(h[j]) = {}
      /\ \A x \in 1..m : x \in ToSet(f) \/ \E i \in 0..n : x \in ToSet(h[i])
  BY DEF Parted
<1>2. /\ k \in Nat /\ DOMAIN h2 = 0..k /\ (\A i \in 0..n : h2[i] = h[i]) /\ h2[k] = <<>>
      /\ \A i \in 0..k : i = k \/ i \in 0..n
  BY <1>1 DEF Raised
<1>3. ASSUME NEW i \in 0..k PROVE Below(h2, i) = Below(h, i)
  <2>1. \A j \in 0 .. i - 1 : h2[j] = h[j]
    BY <1>1, <1>2
  <2> QED  BY <2>1, BelowSame
<1>4. k \in 0..k /\ 0..n \subseteq 0..k
  BY <1>1
<1>5. ToSet(h2[k]) = {} /\ h2[k] \in Seq(1..m) /\ Once(h2[k])
  BY <1>2, NoneSet
<1>6. Below(h2, k + 1) = Below(h, k)
  <2>1. Below(h2, k + 1) = Below(h2, k) \cup ToSet(h2[k])
    BY <1>2, BelowFacts
  <2>2. Below(h2, k) = Below(h, k)
    BY <1>3, <1>4
  <2> QED  BY <1>5, <2>1, <2>2
<1>7. \A i \in 0..k : h2[i] \in Seq(1..m) /\ Once(h2[i]) /\ ToSet(h2[i]) \cap ToSet(f) = {}
  BY <1>1, <1>2, <1>5
<1>8. \A i, j \in 0..k : i # j => ToSet(h2[i]) \cap ToSet(h2[j]) = {}
  BY <1>1, <1>2, <1>5
<1>9. \A x \in 1..m : x \in ToSet(f) \/ \E i \in 0..k : x \in ToSet(h2[i])
  BY <1>1, <1>2, <1>4
<1>10. Parted(h2, k, f, m)
  BY <1>1, <1>2, <1>7, <1>8, <1>9 DEF Parted
<1>11. SameBelow(h, h2, k)
  BY <1>3 DEF SameBelow
<1>12. ASSUME NEW prefix, NEW prev, NEW b, Chained(h, n, prefix, prev, b)
       PROVE  Chained(h2, k, prefix, prev, b)
  <2>1. /\ \A i \in 0..n : \A l \in 1 .. Len(h[i]) : prev[h[i][l]] # 0 =>
            /\ prev[h[i][l]] \in Below(h, i) \cup Rest(h[i], l)
            /\ prefix[prev[h[i][l]]] = prefix[h[i][l]]
        /\ \A q \in NsPrefixes : b[q] # 0 => b[q] \in Below(h, k) /\ prefix[b[q]] = q
    BY <1>12 DEF Chained
  <2>2. Len(h2[k]) = 0
    BY <1>2, NoneSet
  <2>3. ASSUME NEW i \in 0..k, NEW l \in 1 .. Len(h2[i]), prev[h2[i][l]] # 0
        PROVE  /\ prev[h2[i][l]] \in Below(h2, i) \cup Rest(h2[i], l)
               /\ prefix[prev[h2[i][l]]] = prefix[h2[i][l]]
    <3>1. CASE i = k
      BY <2>2, <2>3, <3>1
    <3>2. CASE i \in 0..n
      <4>1. h2[i] = h[i] /\ Below(h2, i) = Below(h, i)
        BY <1>2, <1>3, <3>2
      <4> QED  BY <2>1, <2>3, <3>2, <4>1
    <3> QED  BY <1>2, <3>1, <3>2
  <2>4. \A q \in NsPrefixes : b[q] # 0 => b[q] \in Below(h2, k + 1) /\ prefix[b[q]] = q
    BY <1>6, <2>1
  <2> QED  BY <2>3, <2>4 DEF Chained
<1>13. KeepsChains(h, n, h2, k)
  BY <1>12 DEF KeepsChains
<1> QED  BY <1>6, <1>10, <1>11, <1>13

(* There is one tag less.                                                  *)
LEMMA DropKeeps ==
  ASSUME NEW h, NEW n, NEW f, NEW m, NEW h2, NEW k, Parted(h, n, f, m), Dropped(h, n, h2), k = n - 1
  PROVE  /\ Parted(h2, k, f, m)
         /\ SameBelow(h, h2, n)
         /\ Below(h2, k + 1) = Below(h, n + 1)
         /\ KeepsChains(h, n, h2, k)
<1>1. /\ n \in Nat /\ n \in 0..n /\ m \in Nat /\ f \in Seq(1..m) /\ Once(f)
      /\ \A i \in 0..n : h[i] \in Seq(1..m) /\ Once(h[i]) /\ ToSet(h[i]) \cap ToSet(f) = {}
      /\ \A i, j \in 0..n : i # j => ToSet(h[i]) \cap ToSet(h[j]) = {}
      /\ \A x \in 1..m : x \in ToSet(f) \/ \E i \in 0..n : x \in ToSet(h[i])
  BY DEF Parted
<1>2. n # 0 /\ h[n] = <<>> /\ DOMAIN h2 = 0 .. n - 1 /\ \A i \in 0 .. n - 1 : h2[i] = h[i]
  BY DEF Dropped
<1>3. /\ k \in Nat /\ k + 1 = n /\ DOMAIN h2 = 0..k /\ (\A i \in 0..k : h2[i] = h[i] /\ i \in 0..n)
      /\ \A i \in 0..n : i = n \/ i \in 0..k
  BY <1>1, <1>2
<1>4. ASSUME NEW i \in 0..n PROVE Below(h2, i) = Below(h, i)
  <2>1. \A j \in 0 .. i - 1 : h2[j] = h[j]
    BY <1>1, <1>2
  <2> QED  BY <2>1, BelowSame
<1>5. ToSet(h[n]) = {}
  BY <1>2, NoneSet
<1>6. Below(h2, k + 1) = Below(h, n + 1)
  <2>1. Below(h, n + 1) = Below(h, n) \cup ToSet(h[n])
    BY <1>1, BelowFacts
  <2>2. Below(h2, n) = Below(h, n)
    BY <1>1, <1>4
  <2> QED  BY <1>3, <1>5, <2>1, <2>2
<1>7. \A x \in 1..m : x \in ToSet(f) \/ \E i \in 0..k : x \in ToSet(h2[i])
  BY <1>1, <1>3, <1>5
<1>8. \A i \in 0..k : h2[i] \in Seq(1..m) /\ Once(h2[i]) /\ ToSet(h2[i]) \cap ToSet(f) = {}
  BY <1>1, <1>3
<1>9. \A i, j \in 0..k : i # j => ToSet(h2[i]) \cap ToSet(h2[j]) = {}
  BY <1>1, <1>3
<1>10. Parted(h2, k, f, m)
  BY <1>1, <1>3, <1>7, <1>8, <1>9 DEF Parted
<1>11. ASSUME NEW prefix, NEW prev, NEW b, Chained(h, n, prefix, prev, b)
       PROVE  Chained(h2, k, prefix, prev, b)
  <2>1. /\ \A i \in 0..n : \A l \in 1 .. Len(h[i]) : prev[h[i][l]] # 0 =>
            /\ prev[h[i][l]] \in Below(h, i) \cup Rest(h[i], l)
            /\ prefix[prev[h[i][l]]] = prefix[h[i][l]]
        /\ \A q \in NsPrefixes : b[q] # 0 => b[q] \in Below(h, n + 1) /\ prefix[b[q]] = q
    BY <1>11 DEF Chained
  <2>2. \A i \in 0..k : i \in 0..n /\ h2[i] = h[i] /\ Below(h2, i) = Below(h, i)
    BY <1>3, <1>4
  <2>3. \A i \in 0..k : \A l \in 1 .. Len(h2[i]) : prev[h2[i][l]] # 0 =>
            /\ prev[h2[i][l]] \in Below(h2, i) \cup Rest(h2[i], l)
            /\ prefix[prev[h2[i][l]]] = prefix[h2[i][l]]
    BY <2>1, <2>2
  <2>4. \A q \in NsPrefixes : b[q] # 0 => b[q] \in Below(h2, k + 1) /\ prefix[b[q]] = q
    BY <1>6, <2>1
  <2> QED  BY <2>3, <2>4 DEF Chained
<1>12. SameBelow(h, h2, n) /\ KeepsChains(h, n, h2, k)
  BY <1>4, <1>11 DEF SameBelow, KeepsChains
<1> QED  BY <1>6, <1>10, <1>12

-----------------------------------------------------------------------------
(* A binding is made.                                                      *)
Linked(b, h, n) ==
  /\ IsSeq(b.cells) /\ \A c \in 1 .. Len(b.cells) : IsCell(b.cells[c])
  /\ b.bound \in [NsPrefixes -> 0 .. Len(b.cells)]
  /\ Parted(h, n, b.free, Len(b.cells)) /\ h[n] = b.list
  /\ Chained(h, n, Prefix(b.cells), Prev(b.cells), b.bound)
  /\ \A c \in Below(h, n + 1) : b.cells[c].uri \in Uris
Leads(h, n, h2, list) == DOMAIN h2 = 0..n /\ (\A i \in 0 .. n - 1 : h2[i] = h[i]) /\ h2[n] = list
Adds(b, b2, c, prefix, name) ==
  /\ c \in 1 .. Len(b2.cells) /\ b2.cells[c].prefix = prefix /\ b2.cells[c].att = name
  /\ Len(b2.cells) \in Nat /\ Len(b.cells) \in Nat /\ Len(b2.cells) >= Len(b.cells)
  /\ \A x \in 1 .. Len(b.cells) : x # c => b2.cells[x] = b.cells[x]
  /\ b2.list = <<c>> \o b.list

Taken(b) == IF b.free # <<>> THEN Head(b.free) ELSE Len(b.cells) + 1
Made(b, b2, c, prefix, uri) ==
  /\ b2.cells[c].prev = b.bound[prefix] /\ b2.cells[c].uri = uri
  /\ Len(b2.cells) = IF b.free # <<>> THEN Len(b.cells) ELSE Len(b.cells) + 1
  /\ b2.bound = [b.bound EXCEPT ![prefix] = IF uri = "" /\ prefix = "" THEN 0 ELSE c]
  /\ b2.free = IF b.free # <<>> THEN Tail(b.free) ELSE <<>>

(* The cell of the new binding, and the other cells.                       *)
LEMMA AddCells ==
  ASSUME NEW b, NEW h, NEW n, NEW p \in NsPrefixes, NEW name, NEW uri, Linked(b, h, n)
  PROVE  LET b2 == AddBinding(b, p, name, uri)
         IN /\ IsSeq(b2.cells) /\ \A x \in 1 .. Len(b2.cells) : IsCell(b2.cells[x])
            /\ Adds(b, b2, Taken(b), p, name)
            /\ Made(b, b2, Taken(b), p, uri)
<1> DEFINE b2 == AddBinding(b, p, name, uri)
           c == IF b.free # <<>> THEN Head(b.free) ELSE Len(b.cells) + 1
           old  == IF b.free # <<>> THEN b.cells[c] ELSE [alloc |-> 0, gen |-> 0]
           fits == b.free # <<>> /\ Width(uri) <= old.alloc
           new  == [prefix |-> p, uri |-> uri, att |-> name, prev |-> b.bound[p],
                    alloc |-> IF fits THEN old.alloc ELSE Width(uri) + Spare,
                    gen |-> IF fits THEN old.gen ELSE old.gen + 1,
                    tail |-> <<>>]
           cs == b.cells
           cs2 == b2.cells
           m == Len(b.cells)
<1>1. /\ cs2 = IF b.free # <<>> THEN [b.cells EXCEPT ![c] = new] ELSE Append(b.cells, new)
      /\ b2.bound = [b.bound EXCEPT ![p] = IF uri = "" /\ p = "" THEN 0 ELSE c]
      /\ b2.free = IF b.free # <<>> THEN Tail(b.free) ELSE <<>>
      /\ b2.list = <<c>> \o b.list
  BY DEF AddBinding
<1> HIDE DEF b2
<1>2. IsSeq(cs) /\ (\A x \in 1..m : IsCell(cs[x])) /\ m \in Nat
  BY AnySeq DEF Linked
<1>3. b.free # <<>> => c \in 1..m /\ cs[c].gen \in Nat
  <2>1. b.free \in Seq(1..m)
    BY DEF Linked, Parted
  <2>2. b.free # <<>> => Head(b.free) \in 1..m
    BY <2>1, Uncons
  <2> QED  BY <1>2, <2>2 DEF IsCell
<1>4. old.gen \in Nat
  BY <1>3
<1>5. /\ new.prefix = p /\ new.uri = uri /\ new.att = name /\ new.prev = b.bound[p]
      /\ DOMAIN new = CellFields
      /\ new.gen \in Nat
  <2> HIDE DEF fits, old
  <2> QED  BY <1>4 DEF CellFields
<1>6. IsCell(new)
  BY <1>5 DEF IsCell
<1> HIDE DEF old, fits, new
<1>7. CASE b.free # <<>>
  <2>1. c \in 1..m /\ cs2 = [cs EXCEPT ![c] = new]
    BY <1>1, <1>3, <1>7
  <2> HIDE DEF c, m, cs, cs2
  <2>2. IsSeq(cs2) /\ Len(cs2) = Len(cs)
    <3>1. DOMAIN cs2 = DOMAIN cs /\ cs2 = [x \in DOMAIN cs |-> cs2[x]]
      BY <2>1
    <3> QED  BY <1>2, <3>1, AnyExcept
  <2>3. DOMAIN cs = 1..m
    BY <1>2, AnySeq DEF m, cs
  <2>4. cs2[c] = new /\ \A x \in 1..m : x # c => cs2[x] = cs[x]
    BY <2>1, <2>3
  <2>5. \A x \in 1..m : IsCell(cs2[x])
    <3> TAKE x \in 1..m
    <3>1. CASE x = c
      BY <1>6, <2>4, <3>1
    <3>2. CASE x # c
      BY <1>2, <2>4, <3>2
    <3> QED  BY <3>1, <3>2
  <2>6. Len(cs2) = m
    BY <2>2 DEF cs, m
  <2>7. Adds(b, b2, c, p, name)
    <3>1. b2.list = <<c>> \o b.list
      BY <1>1
    <3>2. Len(cs2) \in Nat /\ Len(cs) \in Nat /\ Len(cs2) >= Len(cs) /\ Len(cs) = m
      BY <1>2, <2>6 DEF m, cs
    <3> QED  BY <1>5, <2>1, <2>4, <2>6, <3>1, <3>2 DEF Adds, cs, cs2
  <2> QED  BY <1>1, <1>5, <1>7, <2>1, <2>2, <2>4, <2>5, <2>6, <2>7 DEF cs, cs2, m, c, b2, Taken, Made
<1>8. CASE b.free = <<>>
  <2>1. c = m + 1 /\ cs2 = Append(cs, new)
    BY <1>1, <1>8
  <2> HIDE DEF c, cs, cs2
  <2>2. /\ IsSeq(cs2) /\ Len(cs2) = m + 1 /\ cs2[m + 1] = new
        /\ \A x \in 1..m : cs2[x] = cs[x]
    BY <1>2, <2>1, AnyAppend DEF cs
  <2>3. \A x \in 1 .. m + 1 : x = m + 1 \/ x \in 1..m
    BY <1>2
  <2>4. \A x \in 1 .. m + 1 : IsCell(cs2[x])
    BY <1>2, <1>6, <2>2, <2>3
  <2>5. c \in 1 .. m + 1 /\ cs2[c] = new /\ m + 1 \in Nat /\ m + 1 >= m
    BY <1>2, <2>1, <2>2
  <2> HIDE DEF m
  <2>6. Adds(b, b2, c, p, name)
    BY <1>1, <1>2, <1>5, <2>2, <2>5 DEF Adds, cs, cs2, m
  <2> QED  BY <1>1, <1>5, <1>8, <2>2, <2>4, <2>5, <2>6 DEF cs, cs2, m, c, b2, Taken, Made
<1> QED  BY <1>7, <1>8

AddedTo(h, n, h2, c) ==
  Below(h2, n + 1) = Below(h, n + 1) \cup {c} /\ c \notin Below(h, n + 1) /\ SameBelow(h, h2, n)

(* In terms of the lists and the chains.                                   *)
LEMMA AddPushes ==
  ASSUME NEW b, NEW h, NEW n, NEW h2, NEW p \in NsPrefixes, NEW name, NEW uri, Linked(b, h, n),
         Leads(h, n, h2, AddBinding(b, p, name, uri).list)
  PROVE  LET b2 == AddBinding(b, p, name, uri)
         IN /\ Pushed(h, n, b.free, Len(b.cells), h2, b2.free, Len(b2.cells), Taken(b))
            /\ Rebound(Prefix(b.cells), Prev(b.cells), b.bound, Prefix(b2.cells), Prev(b2.cells), b2.bound,
                       Len(b.cells), Taken(b), p)
<1> DEFINE b2 == AddBinding(b, p, name, uri)
           c == Taken(b)
           cs == b.cells
           cs2 == b2.cells
           m == Len(b.cells)
           m2 == Len(b2.cells)
           f == b.free
           f2 == b2.free
           v == b.bound
           v2 == b2.bound
<1>2. Adds(b, b2, c, p, name)
  BY AddCells
<1>3. Made(b, b2, c, p, uri)
  BY AddCells
<1>4. /\ c = IF f # <<>> THEN Head(f) ELSE m + 1
      /\ Leads(h, n, h2, b2.list)
      /\ cs2[c].prev = v[p] /\ cs2[c].uri = uri
      /\ m2 = IF f # <<>> THEN m ELSE m + 1
      /\ v2 = [v EXCEPT ![p] = IF uri = "" /\ p = "" THEN 0 ELSE c]
      /\ f2 = IF f # <<>> THEN Tail(f) ELSE <<>>
  BY <1>3 DEF Taken, Made
<1> HIDE DEF b2, c
<1>5. /\ c \in 1..m2 /\ cs2[c].prefix = p /\ m \in Nat /\ m2 \in Nat /\ m2 >= m
      /\ (\A x \in 1..m : x # c => cs2[x] = cs[x])
      /\ b2.list = <<c>> \o b.list
  BY <1>2 DEF Adds
<1>6. /\ Parted(h, n, f, m) /\ h[n] = b.list /\ v \in [NsPrefixes -> 0..m]
      /\ Chained(h, n, Prefix(cs), Prev(cs), v)
      /\ \A x \in Below(h, n + 1) : cs[x].uri \in Uris
  BY DEF Linked
<1> HIDE DEF cs, cs2, m, m2, f, f2, v, v2
<1>7. Pushed(h, n, f, m, h2, f2, m2, c)
  <2>1. h2[n] = <<c>> \o h[n] /\ DOMAIN h2 = 0..n /\ \A i \in 0 .. n - 1 : h2[i] = h[i]
    BY <1>4, <1>5, <1>6 DEF Leads
  <2>2. \/ f # <<>> /\ c = Head(f) /\ f2 = Tail(f) /\ m2 = m
        \/ f = <<>> /\ c = m + 1 /\ f2 = <<>> /\ m2 = m + 1
    BY <1>4
  <2> QED  BY <2>1, <2>2 DEF Pushed
<1>9. v2 \in [NsPrefixes -> 0..m2] /\ \A q \in NsPrefixes : v2[q] = 0 \/ (q = p /\ v2[q] = c) \/ (q # p /\ v2[q] = v[q])
  <2>1. 0..m \subseteq 0..m2 /\ c \in 0..m2 /\ 0 \in 0..m2
    BY <1>5
  <2> QED  BY <1>4, <1>6, <2>1
<1>10. m = Len(cs) /\ m2 = Len(cs2)
  BY DEF m, m2, cs, cs2
<1>11. Rebound(Prefix(cs), Prev(cs), v, Prefix(cs2), Prev(cs2), v2, m, c, p)
  <2>1. \A x \in 1..m : x \in 1..m2
    BY <1>5
  <2>2. Prefix(cs2)[c] = p /\ Prev(cs2)[c] = v[p]
    BY <1>4, <1>5, <1>10 DEF Prefix, Prev
  <2>3. \A x \in 1..m : x # c => Prefix(cs2)[x] = Prefix(cs)[x] /\ Prev(cs2)[x] = Prev(cs)[x]
    BY <1>5, <1>10, <2>1 DEF Prefix, Prev
  <2> QED  BY <1>9, <2>2, <2>3 DEF Rebound
<1> QED  BY <1>7, <1>11 DEF b2, c, cs, cs2, m, m2, f, f2, v, v2

(* It hides the one before it, and all else stays.                         *)
LEMMA AddKeeps ==
  ASSUME NEW b, NEW h, NEW n, NEW h2, NEW p \in NsPrefixes, NEW name, NEW uri \in Uris, Linked(b, h, n),
         Leads(h, n, h2, AddBinding(b, p, name, uri).list)
  PROVE  LET b2 == AddBinding(b, p, name, uri)
         IN Linked(b2, h2, n) /\ \E c : Adds(b, b2, c, p, name) /\ AddedTo(h, n, h2, c)
<1> DEFINE b2 == AddBinding(b, p, name, uri)
           c == Taken(b)
           cs == b.cells
           cs2 == b2.cells
           m == Len(b.cells)
           m2 == Len(b2.cells)
           f == b.free
           f2 == b2.free
           v == b.bound
           v2 == b2.bound
<1>1. IsSeq(cs2) /\ \A x \in 1..m2 : IsCell(cs2[x])
  BY AddCells
<1>2. Adds(b, b2, c, p, name)
  BY AddCells
<1>3. Made(b, b2, c, p, uri)
  BY AddCells
<1>4. /\ c = IF f # <<>> THEN Head(f) ELSE m + 1
      /\ Leads(h, n, h2, b2.list)
      /\ cs2[c].prev = v[p] /\ cs2[c].uri = uri
      /\ m2 = IF f # <<>> THEN m ELSE m + 1
      /\ v2 = [v EXCEPT ![p] = IF uri = "" /\ p = "" THEN 0 ELSE c]
      /\ f2 = IF f # <<>> THEN Tail(f) ELSE <<>>
  BY <1>3 DEF Taken, Made
<1>7. Pushed(h, n, f, m, h2, f2, m2, c)
  BY AddPushes
<1>11. Rebound(Prefix(cs), Prev(cs), v, Prefix(cs2), Prev(cs2), v2, m, c, p)
  BY AddPushes
<1> HIDE DEF b2, c
<1>5. /\ c \in 1..m2 /\ cs2[c].prefix = p /\ m \in Nat /\ m2 \in Nat /\ m2 >= m
      /\ (\A x \in 1..m : x # c => cs2[x] = cs[x])
      /\ b2.list = <<c>> \o b.list
  BY <1>2 DEF Adds
<1>6. /\ Parted(h, n, f, m) /\ h[n] = b.list /\ v \in [NsPrefixes -> 0..m]
      /\ Chained(h, n, Prefix(cs), Prev(cs), v)
      /\ \A x \in Below(h, n + 1) : cs[x].uri \in Uris
  BY DEF Linked
<1> HIDE DEF cs, cs2, m, m2, f, f2, v, v2
<1>8. Parted(h2, n, f2, m2)
  BY <1>6, <1>7, PushParted
<1>9. v2 \in [NsPrefixes -> 0..m2] /\ \A q \in NsPrefixes : v2[q] = 0 \/ (q = p /\ v2[q] = c) \/ (q # p /\ v2[q] = v[q])
  <2>1. 0..m \subseteq 0..m2 /\ c \in 0..m2 /\ 0 \in 0..m2
    BY <1>5
  <2> QED  BY <1>4, <1>6, <2>1
<1>10. m = Len(cs) /\ m2 = Len(cs2)
  BY DEF m, m2, cs, cs2
<1>12. Chained(h2, n, Prefix(cs2), Prev(cs2), v2)
  BY <1>6, <1>7, <1>11, PushChained
<1>13. AddedTo(h, n, h2, c)
  BY <1>6, <1>7, <1>11, PushChained DEF AddedTo
<1>14. \A x \in Below(h2, n + 1) : cs2[x].uri \in Uris
  <2>1. Below(h, n + 1) \subseteq 1..m
    BY <1>6, HeldCells
  <2>2. \A x \in Below(h, n + 1) : cs2[x] = cs[x]
    BY <1>5, <1>13, <2>1 DEF AddedTo
  <2> QED  BY <1>4, <1>6, <1>13, <2>2 DEF AddedTo
<1>15. h2[n] = b2.list
  BY <1>4 DEF Leads
<1>16. Linked(b2, h2, n)
  BY <1>1, <1>8, <1>9, <1>10, <1>12, <1>14, <1>15 DEF Linked, cs2, m2, f2, v2
<1> QED  BY <1>2, <1>13, <1>16 DEF b2

(* setContext: every pair is a binding.                                    *)
After(g, context, i) ==
  IF i = 0 THEN NoBindings ELSE AddBinding(g[i - 1], context[i][1], Null, context[i][2])
IsAfter(g, context, k) == g = [i \in 0..k |-> After(g, context, i)]
Alone(b) == [i \in 0..0 |-> b.list]
IsContext(context) ==
  Len(context) \in Nat /\ \A i \in 1 .. Len(context) : context[i][1] \in NsPrefixes /\ context[i][2] \in Uris

(* There is such a function.                                               *)
LEMMA AfterExists ==
  ASSUME NEW context, NEW n \in Nat
  PROVE  \E g : IsAfter(g, context, n)
<1> DEFINE T == {k \in Nat : \E g : IsAfter(g, context, k)}
<1>1. 0 \in T
  <2> DEFINE g == [i \in 0..0 |-> NoBindings]
  <2>1. \A i \in 0..0 : i = 0
    OBVIOUS
  <2>2. g = [i \in 0..0 |-> After(g, context, i)]
    <3> HIDE DEF NoBindings
    <3>1. \A i \in 0..0 : After(g, context, i) = NoBindings
      BY <2>1 DEF After
    <3> QED  BY <3>1
  <2>3. IsAfter(g, context, 0)
    BY <2>2 DEF IsAfter
  <2> QED  BY <2>3
<1>2. ASSUME NEW k \in Nat, k \in T PROVE k + 1 \in T
  <2>1. PICK g : IsAfter(g, context, k)
    BY <1>2
  <2> DEFINE last == AddBinding(g[k], context[k + 1][1], Null, context[k + 1][2])
             G == [i \in 0 .. k + 1 |-> IF i = k + 1 THEN last ELSE g[i]]
  <2>2. /\ DOMAIN G = 0 .. k + 1 /\ G[k + 1] = last
        /\ \A i \in 0..k : G[i] = g[i]
    OBVIOUS
  <2>3. (k + 1) - 1 = k /\ k + 1 # 0 /\ k \in 0..k
    OBVIOUS
  <2>4. \A i \in 0 .. k + 1 : i # k + 1 => i \in 0..k /\ (i # 0 => i - 1 \in 0..k)
    OBVIOUS
  <2>5. \A i \in 0..k : g[i] = After(g, context, i)
    BY <2>1 DEF IsAfter
  <2> HIDE DEF last
  <2>6. G[k + 1] = After(G, context, k + 1)
    <3>1. G[k] = g[k]
      BY <2>2, <2>3
    <3>2. After(G, context, k + 1) = AddBinding(G[k], context[k + 1][1], Null, context[k + 1][2])
      BY <2>3 DEF After
    <3> QED  BY <2>2, <3>1, <3>2 DEF last
  <2>7. ASSUME NEW i \in 0 .. k + 1, i # k + 1 PROVE G[i] = After(G, context, i)
    <3>1. G[i] = g[i] /\ g[i] = After(g, context, i)
      BY <2>2, <2>4, <2>5, <2>7
    <3>2. CASE i = 0
      BY <3>1, <3>2 DEF After
    <3>3. CASE i # 0
      <4>1. G[i - 1] = g[i - 1]
        BY <2>2, <2>4, <2>7, <3>3
      <4> HIDE DEF G
      <4> QED  BY <3>1, <3>3, <4>1 DEF After
    <3> QED  BY <3>2, <3>3
  <2>8. \A i \in 0 .. k + 1 : G[i] = After(G, context, i)
    BY <2>6, <2>7
  <2>9. G = [i \in 0 .. k + 1 |-> G[i]]
    OBVIOUS
  <2> HIDE DEF G
  <2>10. IsAfter(G, context, k + 1)
    BY <2>8, <2>9 DEF IsAfter
  <2> QED  BY <2>10
<1> HIDE DEF T
<1>3. Nat \subseteq T
  BY <1>1, <1>2, Induct
<1> QED  BY <1>3 DEF T

(* No binding yet.                                                         *)
LEMMA NoneLinked == Linked(NoBindings, Alone(NoBindings), 0) /\ NoBindings.free = <<>>
<1> DEFINE b == NoBindings
           h == Alone(b)
<1>1. b.cells = <<>> /\ b.free = <<>> /\ b.list = <<>> /\ b.bound = [p \in NsPrefixes |-> 0]
  BY DEF NoBindings
<1> HIDE DEF b
<1>2. Len(b.cells) = 0 /\ IsSeq(b.cells)
  <2>1. <<>> \in Seq(ToSet(<<>>)) /\ Len(<<>>) = 0
    BY NoneSet
  <2> QED  BY <1>1, <2>1 DEF IsSeq
<1>3. b.bound \in [NsPrefixes -> 0..0] /\ \A q \in NsPrefixes : b.bound[q] = 0
  BY <1>1
<1>4. \A i \in 0..0 : i = 0
  OBVIOUS
<1>5. h[0] = <<>> /\ DOMAIN h = 0..0
  BY <1>1 DEF Alone
<1> HIDE DEF h
<1>6. <<>> \in Seq(1..0) /\ ToSet(<<>>) = {} /\ Once(<<>>) /\ Len(<<>>) = 0
  BY NoneSet
<1>7. Parted(h, 0, b.free, 0)
  <2>1. \A i \in 0..0 : h[i] \in Seq(1..0) /\ Once(h[i]) /\ ToSet(h[i]) \cap ToSet(b.free) = {}
    BY <1>4, <1>5, <1>6
  <2>2. \A i, j \in 0..0 : i # j => ToSet(h[i]) \cap ToSet(h[j]) = {}
    BY <1>4
  <2>3. \A c \in 1..0 : c \in ToSet(b.free) \/ \E i \in 0..0 : c \in ToSet(h[i])
    OBVIOUS
  <2>4. b.free \in Seq(1..0) /\ Once(b.free)
    BY <1>1, <1>6
  <2> QED  BY <1>5, <2>1, <2>2, <2>3, <2>4 DEF Parted
<1>8. Chained(h, 0, Prefix(b.cells), Prev(b.cells), b.bound)
  <2>1. \A i \in 0..0 : \A k \in 1 .. Len(h[i]) : FALSE
    BY <1>4, <1>5, <1>6
  <2> QED  BY <1>3, <2>1 DEF Chained
<1>9. Below(h, 0 + 1) = {}
  <2>1. Below(h, 0 + 1) = Below(h, 0) \cup ToSet(h[0]) /\ Below(h, 0) = {}
    BY BelowFacts
  <2> QED  BY <1>5, <1>6, <2>1
<1>10. h[0] = b.list
  BY <1>1, <1>5
<1>11. \A c \in 1 .. Len(b.cells) : IsCell(b.cells[c])
  BY <1>2
<1>12. Linked(b, h, 0)
  BY <1>2, <1>3, <1>7, <1>8, <1>9, <1>10, <1>11 DEF Linked
<1> QED  BY <1>1, <1>12 DEF h, b

(* One after the other, from no binding to all of them.                    *)
LEMMA ContextSteps ==
  ASSUME NEW context, Len(context) \in Nat
  PROVE  \E g : /\ g[0] = NoBindings /\ g[Len(context)] = SetContext(context)
                /\ \A k \in 0 .. Len(context) - 1 :
                     g[k + 1] = AddBinding(g[k], context[k + 1][1], Null, context[k + 1][2])
<1> DEFINE n == Len(context)
           g == CHOOSE f : f = [i \in 0..n |-> IF i = 0 THEN NoBindings
                                               ELSE AddBinding(f[i - 1], context[i][1], Null, context[i][2])]
<1>2. SetContext(context) = g[n]
  BY DEF SetContext
<1>3. \E f : f = [i \in 0..n |-> IF i = 0 THEN NoBindings
                                  ELSE AddBinding(f[i - 1], context[i][1], Null, context[i][2])]
  BY AfterExists DEF IsAfter, After
<1>4. g = [i \in 0..n |-> IF i = 0 THEN NoBindings
                           ELSE AddBinding(g[i - 1], context[i][1], Null, context[i][2])]
  BY <1>3
<1> HIDE DEF g
<1>5. g[0] = NoBindings
  BY <1>4
<1>6. \A k \in 0 .. n - 1 : g[k + 1] = AddBinding(g[k], context[k + 1][1], Null, context[k + 1][2])
  <2> TAKE k \in 0 .. n - 1
  <2>1. k + 1 \in 0..n /\ k + 1 # 0 /\ (k + 1) - 1 = k
    OBVIOUS
  <2> HIDE DEF n
  <2> QED  BY <1>4, <2>1
<1> QED  BY <1>2, <1>5, <1>6

(* All of them are linked in the end.                                      *)
LEMMA ContextLinked ==
  ASSUME NEW context, IsContext(context)
  PROVE  Linked(SetContext(context), Alone(SetContext(context)), 0) /\ SetContext(context).free = <<>>
<1> DEFINE n == Len(context)
<1>1. n \in Nat /\ \A i \in 1..n : context[i][1] \in NsPrefixes /\ context[i][2] \in Uris
  BY DEF IsContext
<1>2. PICK g : /\ g[0] = NoBindings /\ g[n] = SetContext(context)
               /\ \A k \in 0 .. n - 1 : g[k + 1] = AddBinding(g[k], context[k + 1][1], Null, context[k + 1][2])
  BY <1>1, ContextSteps
<1> DEFINE T == {k \in Nat : k <= n => Linked(g[k], Alone(g[k]), 0) /\ g[k].free = <<>>}
<1>7. 0 \in T
  BY <1>2, NoneLinked
<1>8. ASSUME NEW k \in Nat, k \in T PROVE k + 1 \in T
  <2> SUFFICES ASSUME k + 1 <= n PROVE Linked(g[k + 1], Alone(g[k + 1]), 0) /\ g[k + 1].free = <<>>
    OBVIOUS
  <2> DEFINE b == g[k]
             p == context[k + 1][1]
             uri == context[k + 1][2]
             b2 == AddBinding(b, p, Null, uri)
  <2>1. k <= n /\ k \in 0 .. n - 1 /\ k + 1 \in 1..n
    BY <1>1
  <2>2. Linked(b, Alone(b), 0) /\ b.free = <<>>
    BY <1>8, <2>1
  <2>3. p \in NsPrefixes /\ uri \in Uris /\ g[k + 1] = b2
    BY <1>1, <1>2, <2>1
  <2> HIDE DEF b, p, uri
  <2>4. Leads(Alone(b), 0, Alone(b2), b2.list)
    BY DEF Alone, Leads
  <2>5. Linked(b2, Alone(b2), 0)
    BY <2>2, <2>3, <2>4, AddKeeps
  <2>6. Made(b, b2, Taken(b), p, uri)
    BY <2>2, <2>3, AddCells
  <2>7. b2.free = <<>>
    BY <2>2, <2>6 DEF Made
  <2> QED  BY <2>3, <2>5, <2>7
<1> HIDE DEF T
<1>9. Nat \subseteq T
  BY <1>7, <1>8, Induct
<1>10. n \in T /\ n <= n
  BY <1>1, <1>9
<1> QED  BY <1>2, <1>10 DEF T

-----------------------------------------------------------------------------
(* The first state.                                                        *)
Blank(w, place) ==
  /\ DOMAIN w = WorkFields
  /\ w.at = place /\ w.empty = FALSE /\ w.i = 1 /\ w.atts = <<>> /\ w.bindings = <<>>

(* Nothing is being handled.                                               *)
LEMMA BlankWork == Blank(NoWork, "token") /\ \A place : Blank([NoWork EXCEPT !.at = place], place)
  BY DEF Blank, NoWork, WorkFields

(* What a fresh token has.                                                 *)
LEMMA BlankFacts ==
  ASSUME NEW w, NEW place, Blank(w, place)
  PROVE  IsSeq(w.atts) /\ w.i \in Nat \ {0} /\ w.empty \in BOOLEAN
<1>1. IsSeq(<<>>)
  BY NoneSet DEF IsSeq
<1>2. w.empty = FALSE /\ w.i = 1 /\ w.atts = <<>> /\ w.bindings = <<>>
  BY DEF Blank
<1>4. IsSeq(w.atts)
  BY <1>1, <1>2
<1>5. w.i \in Nat \ {0}
  BY <1>2
<1>6. w.empty \in BOOLEAN
  BY <1>2, Zenon
<1> QED  BY <1>4, <1>5, <1>6, Zenon

(* The contexts that are looked at.                                        *)
LEMMA IsContexts ==
  /\ IsContext(<<>>) /\ IsContext(<<<<"xml", Xml>>>>)
  /\ \A context \in Contexts : IsContext(context)
<1>1. IsContext(<<>>)
  BY DEF IsContext
<1>2. IsContext(<<<<"xml", Xml>>>>)
  <2> DEFINE context == <<<<"xml", Xml>>>>
  <2>1. Len(context) = 1 /\ context[1][1] = "xml" /\ context[1][2] = Xml
    OBVIOUS
  <2> HIDE DEF context
  <2>2. Xml \in Uris /\ "xml" \in NsPrefixes
    BY ContentAssumption DEF Uris
  <2>3. \A i \in 1..1 : i = 1
    OBVIOUS
  <2> QED  BY <2>1, <2>2, <2>3 DEF IsContext, context
<1>3. ASSUME NEW context \in Contexts PROVE IsContext(context)
  <2>1. IsSeq(context) /\ \A i \in DOMAIN context : context[i][1] \in NsPrefixes
    BY ContentAssumption DEF IsSeq
  <2>2. Len(context) \in Nat /\ DOMAIN context = 1 .. Len(context)
    BY <2>1, AnySeq
  <2>3. \A i \in DOMAIN context : context[i][2] \in Uris
    BY DEF Uris
  <2> QED  BY <2>1, <2>2, <2>3 DEF IsContext
<1> QED  BY <1>1, <1>2, <1>3

(* With the bindings of the context, and nothing else.                     *)
LEMMA InitInv == Init => ContentInv
<1> SUFFICES ASSUME Init PROVE ContentInv
  OBVIOUS
<1>1. PICK context : /\ IsContext(context)
                     /\ bound = SetContext(context).bound /\ cells = SetContext(context).cells
                     /\ inherited = SetContext(context).list
  BY IsContexts DEF Init
<1> DEFINE b == SetContext(context)
<1>2. bound = b.bound /\ cells = b.cells /\ inherited = b.list
  BY <1>1
<1>3. Linked(b, Alone(b), 0) /\ b.free = <<>>
  BY <1>1, ContextLinked
<1> HIDE DEF b
<1>4. /\ freeBindings = <<>> /\ processor = "content" /\ via = "content" /\ call = "idle" /\ final = FALSE
      /\ status = "PARSING" /\ error = "NONE" /\ tags = <<>> /\ flags = [name \in AttNames |-> 0]
      /\ nsAtts = [version |-> 0, power |-> 0, table |-> {}]
      /\ idIndex = -1 /\ work = NoWork /\ over = FALSE
      /\ \E s \in Setups : ns = s[1] /\ triplets = s[2] /\ startLevel = s[3]
  BY DEF Init
<1>5. /\ work.at = "token" /\ work.empty = FALSE /\ DOMAIN work = WorkFields /\ work.bindings = <<>>
      /\ IsSeq(work.atts) /\ work.i \in Nat \ {0}
  BY <1>4, BlankWork, BlankFacts DEF Blank
<1>6. Len(tags) = 0 /\ IsSeq(tags) /\ Depth = 1 /\ <<>> \in Seq(Nat)
  BY <1>4, NoneSet DEF IsSeq, Depth
<1> DEFINE m == Len(cells)
<1>7. /\ IsSeq(cells) /\ (\A c \in 1..m : IsCell(cells[c]))
      /\ bound \in [NsPrefixes -> 0..m]
      /\ Parted(Alone(b), 0, freeBindings, m) /\ Alone(b)[0] = inherited
      /\ Chained(Alone(b), 0, Prefix(cells), Prev(cells), bound)
      /\ \A c \in Below(Alone(b), 0 + 1) : cells[c].uri \in Uris
  BY <1>2, <1>3, <1>4 DEF Linked
<1>9. Raised(Alone(b), 0, Held)
  <2>1. /\ DOMAIN Held = 0..1 /\ Held[0] = inherited /\ Held[1] = work.bindings
    BY <1>6 DEF Held
  <2> HIDE DEF Held
  <2>2. \A i \in 0..0 : i = 0
    OBVIOUS
  <2>3. \A i \in 0..0 : Held[i] = Alone(b)[i]
    BY <1>7, <2>1, <2>2
  <2> QED  BY <1>5, <2>1, <2>3 DEF Raised
<1>10. /\ Parted(Held, Depth, freeBindings, m)
       /\ Chained(Held, Depth, Prefix(cells), Prev(cells), bound)
       /\ Below(Held, Depth + 1) = Below(Alone(b), 0 + 1)
  <2>1. /\ Parted(Held, Depth, freeBindings, m) /\ KeepsChains(Alone(b), 0, Held, Depth)
        /\ Below(Held, Depth + 1) = Below(Alone(b), Depth)
    BY <1>6, <1>7, <1>9, RaiseKeeps
  <2> QED  BY <1>6, <1>7, <2>1 DEF KeepsChains
<1>11. Bindings
  BY <1>7, <1>10 DEF Bindings
<1>12. TypedFlow
  <2>1. ns \in BOOLEAN /\ triplets \in BOOLEAN /\ startLevel \in {0, 1}
    BY <1>4, ContentAssumption
  <2> QED  BY <1>4, <2>1 DEF TypedFlow
<1>13. Typed
  <2>1. TypedTags
    <3>1. MaxDepth \in Nat
      BY ContentAssumption
    <3> QED  BY <1>6, <3>1 DEF TypedTags
  <2>2. TypedCells
    BY <1>7 DEF TypedCells
  <2>3. TypedAtts
    <3>1. InitAttsVersion \in Nat \ {0}
      BY ContentAssumption
    <3>2. 0 \in 0 .. InitAttsVersion - 1
      BY <3>1
    <3>3. flags \in [AttNames -> 0..2] /\ nsAtts.version = 0 /\ DOMAIN nsAtts = {"version", "power", "table"}
      BY <1>4
    <3> QED  BY <1>4, <3>2, <3>3 DEF TypedAtts
  <2>4. TypedWork
    <3>1. ~StoringAtts /\ work.at \notin {"start", "end"} /\ work.at \in Places
      BY <1>5 DEF StoringAtts, Places
    <3> QED  BY <1>5, <3>1 DEF TypedWork
  <2> QED  BY <1>12, <2>1, <2>2, <2>3, <2>4 DEF Typed
<1>14. Control
  BY <1>4, <1>5 DEF Control, Handling, StoringAtts
<1>15. NamesKept
  BY <1>5, <1>6 DEF NamesKept, Handling, StoringAtts, AllKept, AllTold, WorkName
<1>16. RawKept
  BY <1>4, <1>5, <1>6 DEF RawKept
<1>17. MarksKept
  BY <1>4 DEF MarksKept
<1> QED  BY <1>11, <1>13, <1>14, <1>15, <1>16, <1>17 DEF ContentInv

-----------------------------------------------------------------------------
(* Errors.                                                                 *)
(* The invariant has the type invariant of XmlContent in it.               *)
LEMMA TypedIsTypeOK == Typed => TypeOK
<1> SUFFICES ASSUME Typed PROVE TypeOK
  OBVIOUS
<1>1. {ns, triplets, final, over} \subseteq BOOLEAN
  BY Zenon DEF Typed, TypedFlow
<1>2. bound \in [NsPrefixes -> Cells]
  BY DEF Typed, TypedCells, Cells
<1> QED  BY <1>1, <1>2 DEF TypeOK, Typed, TypedFlow, TypedTags, TypedAtts

(* A set of numbers with an upper bound has a greatest element.            *)
LEMMA Greatest ==
  ASSUME NEW n \in Nat, NEW T \in SUBSET (1..n), T # {}
  PROVE  Max(T) \in T /\ \A m \in T : m <= Max(T)
<1> DEFINE D == {n - t : t \in T}
<1>1. D \in SUBSET Nat /\ D # {}
  <2>1. \A t \in T : n - t \in Nat
    OBVIOUS
  <2> QED  BY <2>1
<1>2. PICK d \in D : \A e \in D : d <= e
  <2> HIDE DEF D
  <2> QED  BY <1>1, Least
<1>3. PICK t \in T : d = n - t
  OBVIOUS
<1>4. \A m \in T : m <= t
  <2> SUFFICES ASSUME NEW m \in T PROVE m <= t
    OBVIOUS
  <2>1. n - t <= n - m
    BY <1>2, <1>3
  <2> QED  BY <2>1
<1>5. \E x \in T : \A y \in T : x >= y
  <2>1. \A m \in T : t >= m
    BY <1>4
  <2> QED  BY <2>1
<1>6. Max(T) \in T /\ \A y \in T : Max(T) >= y
  BY <1>5 DEF Max
<1> QED  BY <1>6

(* A handler leaves a status.                                              *)
LEMMA StatusTyped ==
  ASSUME Typed, Stopped \/ UNCHANGED status
  PROVE  status' \in {"PARSING", "SUSPENDED", "FINISHED"}
<1>1. status \in {"PARSING", "SUSPENDED", "FINISHED"}
  BY DEF Typed, TypedFlow
<1>2. CASE UNCHANGED status
  BY <1>1, <1>2
<1>3. CASE Stopped
  <2>1. status = "PARSING" \/ status = "SUSPENDED" \/ status = "FINISHED"
    BY <1>1
  <2> QED  BY <1>3, <2>1 DEF Stopped
<1> QED  BY <1>2, <1>3

(* After an error nothing of the tag under way is said any more.           *)
LEMMA FailedSays ==
  ASSUME error' # "NONE", Parted(Held, Depth, freeBindings, Len(cells))'
  PROVE  Bindings' /\ NamesKept' /\ RawKept' /\ MarksKept'
  BY DEF Bindings, NamesKept, RawKept, MarksKept

(* The part of the control that holds with and without an error.           *)
LEMMA FailedControl ==
  ASSUME Control, error' # "NONE", UNCHANGED <<call, over, startLevel>>, work'.at = work.at, work'.empty = work.empty,
         work'.bindings = work.bindings \/ work'.bindings = <<>>,
         Len(tags') = Len(tags), tags = <<>> <=> tags' = <<>>
  PROVE  Control'
  BY DEF Control, Handling, StoringAtts

(* Nothing changes but the error and the status.                           *)
LEMMA Failed ==
  ASSUME ContentInv, NEW code, Fail(code), code # "NONE", Stopped \/ UNCHANGED status
  PROVE  ContentInv'
<1>1. /\ error' = code /\ processor' = "error" /\ ns' = ns /\ triplets' = triplets /\ startLevel' = startLevel
      /\ via' = via /\ call' = call /\ final' = final /\ bound' = bound /\ cells' = cells
      /\ freeBindings' = freeBindings /\ inherited' = inherited /\ flags' = flags /\ nsAtts' = nsAtts
      /\ idIndex' = idIndex /\ tags' = tags /\ work' = work /\ over' = over
  BY DEF Fail, setup, callVars, bindingVars, attVars
<1>2. Typed
  BY DEF ContentInv
<1>3. status' \in {"PARSING", "SUSPENDED", "FINISHED"}
  BY <1>2, StatusTyped
<1>4. TypedFlow'
  BY <1>1, <1>2, <1>3 DEF Typed, TypedFlow
<1>5. TypedTags' /\ TypedCells' /\ TypedAtts'
  BY <1>1, <1>2 DEF Typed, TypedTags, TypedCells, TypedAtts
<1>6. TypedWork'
  BY <1>1, <1>2 DEF Typed, TypedWork, StoringAtts
<1>7. Control'
  BY <1>1, FailedControl DEF ContentInv
<1>8. Parted(Held, Depth, freeBindings, Len(cells))'
  BY <1>1 DEF ContentInv, Bindings, Held, Depth
<1>9. Bindings' /\ NamesKept' /\ RawKept' /\ MarksKept'
  BY <1>1, <1>8, FailedSays
<1> QED  BY <1>4, <1>5, <1>6, <1>7, <1>9 DEF ContentInv, Typed

(* What a binding hides is a binding.                                      *)
LEMMA PrevCells ==
  ASSUME NEW h, NEW n, NEW f, NEW m, NEW prefix, NEW prev, NEW b,
         Parted(h, n, f, m), Chained(h, n, prefix, prev, b), NEW i \in 0..n, NEW k \in 1 .. Len(h[i])
  PROVE  prev[h[i][k]] \in 0..m
<1> DEFINE c == h[i][k]
<1>1. prev[c] # 0 => prev[c] \in Below(h, i) \cup Rest(h[i], k)
  BY DEF Chained
<1>2. n \in Nat /\ h[i] \in Seq(1..m) /\ ToSet(h[i]) \subseteq 1..m /\ Below(h, n + 1) \subseteq 1..m
  BY HeldCells
<1>3. Rest(h[i], k) \subseteq 1..m
  BY <1>2, RestFacts
<1>4. Below(h, i) \subseteq 1..m
  <2>1. i \in 0 .. n + 1
    BY <1>2
  <2> QED  BY <1>2, <2>1, BelowFacts
<1>5. m \in Nat
  BY DEF Parted
<1> HIDE DEF c
<1> QED  BY <1>1, <1>3, <1>4, <1>5 DEF c

(* The last element of a sequence is replaced.                             *)
Topped(s, s2, t) ==
  /\ IsSeq(s2) /\ Len(s2) = Len(s) /\ Len(s) \in Nat \ {0} /\ s2 # <<>>
  /\ s2[Len(s)] = t
  /\ \A i \in 1 .. Len(s) - 1 : s2[i] = s[i]

(* Replacing the last element replaces nothing else.                       *)
LEMMA TopSet ==
  ASSUME NEW s, IsSeq(s), s # <<>>, NEW t
  PROVE  Topped(s, [s EXCEPT ![Len(s)] = t], t)
<1> DEFINE s2 == [s EXCEPT ![Len(s)] = t]
<1>1. Len(s) \in Nat \ {0} /\ DOMAIN s = 1 .. Len(s)
  BY AnySeq, AnyFront
<1>2. DOMAIN s2 = DOMAIN s /\ s2 = [i \in DOMAIN s |-> s2[i]]
  OBVIOUS
<1>3. IsSeq(s2) /\ Len(s2) = Len(s)
  BY <1>2, AnyExcept
<1>4. s2 # <<>>
  BY <1>1, <1>3, NoneSet
<1>5. s2[Len(s)] = t /\ \A i \in 1 .. Len(s) - 1 : s2[i] = s[i]
  BY <1>1
<1> QED  BY <1>1, <1>3, <1>4, <1>5 DEF Topped

(* The lists when the bindings of the start tag are gone from it.          *)
LEMMA ErrorSpills ==
  ASSUME Typed, UNCHANGED <<tags, inherited>>, work'.bindings = <<>>, freeBindings' = Reverse(work.bindings) \o freeBindings
  PROVE  Spilled(Held, Depth, freeBindings, Held', freeBindings')
<1>1. Len(tags) \in Nat
  BY AnySeq DEF Typed, TypedTags
<1>2. Depth' = Depth /\ Depth \in Nat /\ Depth # 0
  BY <1>1 DEF Depth
<1>3. DOMAIN Held = 0..Depth /\ DOMAIN Held' = 0..Depth
  BY <1>2 DEF Held
<1>4. Held[Depth] = work.bindings /\ Held'[Depth] = <<>>
  BY <1>2 DEF Held
<1>5. \A i \in 0 .. Depth - 1 : Held'[i] = Held[i]
  BY <1>2 DEF Held
<1> QED  BY <1>3, <1>4, <1>5 DEF Spilled

(* The bindings of an open tag that is given up go to the tag.             *)
LEMMA ErrorMoves ==
  ASSUME TypedTags, tags # <<>>, tags[Len(tags)].bindings = <<>>, IsSeq(tags'), Len(tags') = Len(tags),
         \A i \in 1 .. Len(tags) - 1 : tags'[i].bindings = tags[i].bindings,
         tags'[Len(tags)].bindings = work.bindings, UNCHANGED inherited, work'.bindings = <<>>
  PROVE  MovedUp(Held, Depth, Held') /\ Depth' = Depth
<1>1. Len(tags) \in Nat \ {0}
  BY AnyFront DEF TypedTags
<1> DEFINE n == Len(tags)
<1>2. Depth' = n + 1 /\ Depth = n + 1 /\ n \in Nat \ {0}
  BY <1>1 DEF Depth
<1>3. Held = [i \in 0 .. n + 1 |-> IF i = 0 THEN inherited ELSE IF i = n + 1 THEN work.bindings ELSE tags[i].bindings]
  BY <1>2 DEF Held
<1>4. Held' = [i \in 0 .. n + 1 |-> IF i = 0 THEN inherited ELSE IF i = n + 1 THEN <<>> ELSE tags'[i].bindings]
  BY <1>2 DEF Held
<1> HIDE DEF n
<1>5. Held[n] = <<>> /\ Held[n + 1] = work.bindings /\ Held'[n] = work.bindings /\ Held'[n + 1] = <<>>
  BY <1>2, <1>3, <1>4 DEF n
<1>6. \A i \in 1 .. n - 1 : tags'[i].bindings = tags[i].bindings
  BY DEF n
<1>7. \A i \in 0 .. n - 1 : Held'[i] = Held[i]
  BY <1>2, <1>3, <1>4, <1>6
<1>8. (n + 1) - 1 = n /\ (n + 1) - 2 = n - 1 /\ n + 1 # 0
  BY <1>2
<1>9. DOMAIN Held' = 0 .. n + 1
  BY <1>4
<1> QED  BY <1>2, <1>5, <1>7, <1>8, <1>9 DEF MovedUp

(* An error in a start tag.                                                *)
LEMMA FailedInTag ==
  ASSUME ContentInv, error = "NONE", StoringAtts, NEW code, FailInTag(code), code # "NONE", TypedAtts'
  PROVE  ContentInv'
<1>1. /\ error' = code /\ processor' = "error" /\ ns' = ns /\ triplets' = triplets /\ startLevel' = startLevel
      /\ via' = via /\ call' = call /\ final' = final /\ cells' = cells
      /\ inherited' = inherited /\ over' = over
      /\ work' = [work EXCEPT !.bindings = <<>>]
  BY DEF FailInTag, setup, callVars
<1>2. Typed /\ Control /\ Parted(Held, Depth, freeBindings, Len(cells)) /\ Chained(Held, Depth, Prefix(cells), Prev(cells), bound)
  BY DEF ContentInv, Bindings
<1>3. Stopped \/ UNCHANGED status
  BY DEF FailInTag, Handler, NoHandler
<1>4. status' \in {"PARSING", "SUSPENDED", "FINISHED"}
  BY <1>2, <1>3, StatusTyped
<1>5. TypedFlow'
  BY <1>1, <1>2, <1>4 DEF Typed, TypedFlow
<1>6. DOMAIN work = WorkFields
  BY <1>2 DEF Typed, TypedWork
<1>7. /\ DOMAIN work' = WorkFields /\ work'.at = work.at /\ work'.tag = work.tag /\ work'.empty = work.empty
      /\ work'.i = work.i /\ work'.atts = work.atts /\ work'.str = work.str /\ work'.bindings = <<>>
  BY <1>1, <1>6 DEF WorkFields
<1>8. TypedWork'
  BY <1>2, <1>7 DEF Typed, TypedWork, StoringAtts
<1>9. CASE work.empty
  <2>1. tags' = tags /\ bound' = Withdrawn(work.bindings) /\ freeBindings' = Reverse(work.bindings) \o freeBindings
    BY <1>9 DEF FailInTag
  <2>2. Spilled(Held, Depth, freeBindings, Held', freeBindings')
    BY <1>1, <1>2, <1>7, <2>1, ErrorSpills
  <2>3. Parted(Held', Depth, freeBindings', Len(cells))
    BY <1>2, <2>2, SpillParted
  <2>4. Depth' = Depth /\ Len(cells') = Len(cells)
    BY <1>1, <2>1 DEF Depth
  <2>5. Parted(Held, Depth, freeBindings, Len(cells))'
    BY <2>3, <2>4
  <2>6. Bindings' /\ NamesKept' /\ RawKept' /\ MarksKept'
    BY <1>1, <2>5, FailedSays
  <2>7. TypedTags'
    BY <1>2, <2>1 DEF Typed, TypedTags
  <2>8. TypedCells'
    <3> DEFINE list == work.bindings
               m == Len(cells)
    <3>1. Held[Depth] = list /\ Depth \in 0..Depth /\ list \in Seq(1..m)
      <4>1. Len(tags) \in Nat
        BY <1>2, AnySeq DEF Typed, TypedTags
      <4>2. Depth \in Nat /\ Depth # 0 /\ Depth \in 0..Depth
        BY <4>1 DEF Depth
      <4>3. Held[Depth] = list
        BY <4>2 DEF Held
      <4>4. Held[Depth] \in Seq(1..m)
        BY <1>2, <4>2 DEF Parted
      <4> QED  BY <4>2, <4>3, <4>4
    <3>2. \A k \in 1 .. Len(list) : Prev(cells)[list[k]] \in 0..m
      <4>1. \A k \in 1 .. Len(Held[Depth]) : Prev(cells)[Held[Depth][k]] \in 0..m
        BY <1>2, <3>1, PrevCells
      <4> QED  BY <3>1, <4>1
    <3>3. Len(list) \in Nat /\ DOMAIN list = 1 .. Len(list) /\ \A k \in 1 .. Len(list) : list[k] \in 1..m
      BY <3>1, SeqFacts
    <3>4. \A k \in 1 .. Len(list) : cells[list[k]].prev \in 0..m
      <4> SUFFICES ASSUME NEW k \in 1 .. Len(list) PROVE cells[list[k]].prev \in 0..m
        OBVIOUS
      <4>1. Prev(cells)[list[k]] = cells[list[k]].prev
        BY <3>3 DEF Prev
      <4> QED  BY <3>2, <4>1
    <3> HIDE DEF list, m
    <3>5. ASSUME NEW p \in NsPrefixes PROVE Withdrawn(list)[p] \in 0..m
      <4> DEFINE own == {i \in DOMAIN list : cells[list[i]].prefix = p}
      <4>1. Withdrawn(list)[p] = IF own = {} THEN bound[p] ELSE cells[list[Max(own)]].prev
        BY DEF Withdrawn
      <4>2. bound[p] \in 0..m
        BY <1>2 DEF Typed, TypedCells, m
      <4>3. own \in SUBSET (1 .. Len(list))
        BY <3>3
      <4> HIDE DEF own
      <4>4. own # {} => Max(own) \in 1 .. Len(list)
        BY <3>3, <4>3, Greatest
      <4> QED  BY <3>4, <4>1, <4>2, <4>4
    <3>6. Withdrawn(list) \in [NsPrefixes -> 0..m]
      <4>1. Withdrawn(list) = [p \in NsPrefixes |-> Withdrawn(list)[p]]
        BY DEF Withdrawn
      <4> QED  BY <3>5, <4>1
    <3> QED  BY <1>1, <1>2, <2>1, <3>6 DEF Typed, TypedCells, list, m
  <2>9. Control'
    BY <1>1, <1>2, <1>7, <2>1, FailedControl
  <2> QED  BY <1>5, <1>8, <2>6, <2>7, <2>8, <2>9 DEF ContentInv, Typed
<1>10. CASE ~work.empty
  <2> DEFINE t == [tags[Len(tags)] EXCEPT !.bindings = work.bindings]
  <2>1. tags' = [tags EXCEPT ![Len(tags)] = t] /\ bound' = bound /\ freeBindings' = freeBindings
    BY <1>10 DEF FailInTag
  <2>2. tags # <<>> /\ Handling
    BY <1>2, <1>10 DEF Control, Handling
  <2>3. tags[Len(tags)].bindings = <<>>
    BY <2>2 DEF ContentInv, NamesKept, Pending
  <2>4. IsSeq(tags) /\ Len(tags) \in Nat \ {0} /\ Len(tags) <= MaxDepth /\ \A i \in 1 .. Len(tags) : IsTag(tags[i])
    BY <1>2, <2>2, AnyFront DEF Typed, TypedTags
  <2>5. IsTag(tags[Len(tags)])
    BY <2>4
  <2>6. IsTag(t) /\ t.bindings = work.bindings
    BY <2>5 DEF IsTag, TagFields
  <2> HIDE DEF t
  <2>7. /\ IsSeq(tags') /\ Len(tags') = Len(tags) /\ tags' # <<>> /\ tags'[Len(tags)] = t
        /\ \A i \in 1 .. Len(tags) - 1 : tags'[i] = tags[i]
    <3>1. IsSeq(tags) /\ tags # <<>> /\ tags' = [tags EXCEPT ![Len(tags)] = t]
      BY <2>1, <2>2, <2>4
    <3>2. Topped(tags, tags', t)
      BY <3>1, TopSet
    <3> QED  BY <3>2 DEF Topped
  <2>8. TypedTags'
    <3>1. \A i \in 1 .. Len(tags) : i = Len(tags) \/ i \in 1 .. Len(tags) - 1
      BY <2>4
    <3>2. \A i \in 1 .. Len(tags) : IsTag(tags'[i])
      BY <2>4, <2>6, <2>7, <3>1
    <3> QED  BY <2>4, <2>7, <3>2 DEF TypedTags
  <2>9. TypedTags
    BY <1>2 DEF Typed
  <2>10. MovedUp(Held, Depth, Held') /\ Depth' = Depth
    BY <1>1, <1>7, <2>2, <2>3, <2>6, <2>7, <2>9, ErrorMoves
  <2>11. Parted(Held, Depth, freeBindings, Len(cells))'
    BY <1>1, <1>2, <2>1, <2>10, MoveParted
  <2>12. Bindings' /\ NamesKept' /\ RawKept' /\ MarksKept'
    BY <1>1, <2>11, FailedSays
  <2>13. TypedCells'
    BY <1>1, <1>2, <2>1 DEF Typed, TypedCells
  <2>14. Control'
    BY <1>1, <1>2, <1>7, <2>2, <2>7, FailedControl
  <2> QED  BY <1>5, <1>8, <2>8, <2>12, <2>13, <2>14 DEF ContentInv, Typed
<1> QED  BY <1>9, <1>10

-----------------------------------------------------------------------------
(* Steps between tokens.                                                   *)
LEMMA HeldSame ==
  ASSUME UNCHANGED <<tags, inherited>>, work'.bindings = work.bindings
  PROVE  Held' = Held /\ Depth' = Depth
  BY DEF Held, Depth

(* A step that leaves the lists alone keeps what is said of them.          *)
LEMMA BindingsSame ==
  ASSUME Bindings, UNCHANGED <<tags, inherited, bound, cells, freeBindings, error>>, work'.bindings = work.bindings
  PROVE  Bindings'
<1>1. Held' = Held /\ Depth' = Depth
  BY HeldSame
<1>2. bound' = bound /\ cells' = cells /\ freeBindings' = freeBindings /\ error' = error
  OBVIOUS
<1> HIDE DEF Held, Depth
<1> QED  BY <1>1, <1>2 DEF Bindings

(* The places between two parts of a document.                             *)
LEMMA GotoStep ==
  ASSUME ContentInv, error = "NONE", work.bindings = <<>>, ~StoringAtts, work.at # "start",
         NEW p \in {"token", "check", "return", "cdata"}, Goto(p),
         UNCHANGED <<ns, triplets, startLevel, error, tags, bound, cells, freeBindings, inherited, flags, nsAtts, idIndex>>
  PROVE  /\ TypedTags' /\ TypedCells' /\ TypedAtts' /\ TypedWork' /\ Bindings' /\ NamesKept' /\ MarksKept'
         /\ work'.at = p /\ work'.bindings = <<>> /\ ~Handling'
<1>1. /\ triplets' = triplets /\ error' = error /\ tags' = tags /\ bound' = bound /\ cells' = cells
      /\ freeBindings' = freeBindings /\ inherited' = inherited /\ flags' = flags /\ nsAtts' = nsAtts
      /\ idIndex' = idIndex
  OBVIOUS
<1>2. Blank(work', p)
  BY BlankWork DEF Goto
<1>3. /\ DOMAIN work' = WorkFields /\ work'.at = p /\ work'.bindings = <<>>
      /\ IsSeq(work'.atts) /\ work'.i \in Nat \ {0} /\ work'.empty \in BOOLEAN
  <2>1. DOMAIN work' = WorkFields /\ work'.at = p /\ work'.bindings = <<>>
    BY <1>2 DEF Blank
  <2>2. IsSeq(work'.atts) /\ work'.i \in Nat \ {0} /\ work'.empty \in BOOLEAN
    BY <1>2, BlankFacts
  <2> QED  BY <2>1, <2>2
<1>4. TypedTags' /\ TypedCells' /\ TypedAtts'
  BY <1>1 DEF ContentInv, Typed, TypedTags, TypedCells, TypedAtts
<1>5. ~StoringAtts' /\ work'.at \notin {"start", "end"} /\ work'.at \in Places /\ ~Handling' /\ ~Handling
  BY <1>3 DEF StoringAtts, Places, Handling
<1>6. TypedWork'
  BY <1>3, <1>5 DEF TypedWork
<1>7. Bindings'
  <2>1. Bindings /\ work'.bindings = work.bindings
    BY <1>3 DEF ContentInv
  <2> QED  BY <1>1, <2>1, BindingsSame
<1>8. Held' = Held
  BY <1>1, <1>3, HeldSame
<1>9. AllKept'
  <2>1. AllKept
    BY DEF ContentInv, NamesKept
  <2> HIDE DEF Held
  <2> QED  BY <1>1, <1>5, <1>8, <2>1 DEF AllKept, NameKept, Reaches
<1>10. AllTold'
  <2>1. AllTold
    BY DEF ContentInv, NamesKept
  <2>2. tags' = tags /\ cells' = cells /\ triplets' = triplets
    BY <1>1
  <2>3. \A i \in 1 .. Len(tags) : ToldRight(i)
    BY <1>5, <2>1 DEF AllTold
  <2>4. (\A i \in 1 .. Len(tags) : ToldRight(i))'
    BY <2>2, <2>3 DEF ToldRight
  <2> QED  BY <2>4 DEF AllTold
<1>11. WorkName'
  BY <1>5 DEF WorkName
<1>12. NamesKept'
  BY <1>5, <1>9, <1>10, <1>11 DEF NamesKept
<1>13. MarksKept'
  BY <1>1 DEF ContentInv, MarksKept
<1> QED  BY <1>3, <1>4, <1>5, <1>6, <1>7, <1>12, <1>13

(* The raw names stay where they are.                                      *)
LEMMA RawSame ==
  ASSUME RawKept, UNCHANGED <<error, tags, call, via>>, error = "NONE",
         via = "epilog" => processor' = "epilog",
         via = "cdata" /\ call = "running" => work'.at \in {"cdata", "return"}
  PROVE  RawKept'
  BY DEF RawKept

(* A handler is called for text, a reference or an instruction.            *)
LEMMA ContentStep ==
  ASSUME ContentInv, Content \/ ExternalEntity \/ OpenCdata \/ Misc
  PROVE  ContentInv'
<1>1. PICK p \in {"check", "cdata"} : Goto(p) /\ (p = "cdata" => processor = "content")
  BY DEF Content, ExternalEntity, OpenCdata, Misc
<1>2. /\ error = "NONE" /\ call = "running" /\ work.at = "token" /\ ~final /\ Stopped
      /\ processor' = processor /\ ns' = ns /\ triplets' = triplets /\ startLevel' = startLevel
      /\ via' = via /\ call' = call /\ final' = final /\ error' = error /\ over' = over /\ tags' = tags
      /\ bound' = bound /\ cells' = cells /\ freeBindings' = freeBindings /\ inherited' = inherited
      /\ flags' = flags /\ nsAtts' = nsAtts /\ idIndex' = idIndex
      /\ processor \in {"content", "epilog"} /\ (processor = "epilog" => p = "check")
  BY <1>1 DEF Content, ExternalEntity, OpenCdata, Misc, Token, At, Handler, Quiet, setup, callVars, bindingVars, attVars
<1>3. Typed /\ Control /\ RawKept
  BY DEF ContentInv
<1>4. ~StoringAtts /\ work.bindings = <<>>
  BY <1>2, <1>3 DEF StoringAtts, Control
<1>5. /\ TypedTags' /\ TypedCells' /\ TypedAtts' /\ TypedWork' /\ Bindings' /\ NamesKept' /\ MarksKept'
      /\ work'.at = p /\ work'.bindings = <<>> /\ ~Handling'
  BY <1>1, <1>2, <1>4, GotoStep
<1>6. TypedFlow'
  <2>1. status' \in {"PARSING", "SUSPENDED", "FINISHED"}
    BY <1>2, <1>3, StatusTyped
  <2> QED  BY <1>2, <1>3, <2>1 DEF Typed, TypedFlow
<1>7. Control'
  BY <1>1, <1>2, <1>3, <1>5 DEF Control
<1>8. RawKept'
  BY <1>2, <1>3, RawSame DEF RawKept
<1> QED  BY <1>5, <1>6, <1>7, <1>8 DEF ContentInv, Typed

(* What is unchanged by most of these steps.                               *)
Still == UNCHANGED <<ns, triplets, startLevel, error, tags, bound, cells, freeBindings, inherited, flags, nsAtts, idIndex>>

(* A step to another place in a token that leaves the rest alone.          *)
LEMMA GoStep ==
  ASSUME ContentInv, error = "NONE", work.bindings = <<>>, ~StoringAtts, work.at # "start",
         NEW p \in {"token", "check", "return", "cdata"}, Goto(p), Still, UNCHANGED <<over, call>>, call = "running",
         Stopped \/ UNCHANGED status, via' \in {via, "content"}, final' \in BOOLEAN, processor' # "error",
         processor' = processor \/ (processor' = "cdata" /\ work.at = "cdata" /\ p # "token") \/ processor' = "content",
         over => processor' = "epilog", p = "cdata" => processor' \in {"content", "cdata"},
         processor' = "epilog" => processor = "epilog",
         via' = "epilog" => processor' = "epilog", via' = "cdata" => p \in {"cdata", "return"}
  PROVE  ContentInv'
<1>1. /\ TypedTags' /\ TypedCells' /\ TypedAtts' /\ TypedWork' /\ Bindings' /\ NamesKept' /\ MarksKept'
      /\ work'.at = p /\ work'.bindings = <<>> /\ ~Handling'
  BY GotoStep DEF Still
<1>2. Typed /\ Control /\ RawKept
  BY DEF ContentInv
<1>3. TypedFlow'
  <2>1. status' \in {"PARSING", "SUSPENDED", "FINISHED"}
    BY <1>2, StatusTyped
  <2> QED  BY <1>2, <2>1 DEF Typed, TypedFlow, Still
<1>4. Control'
  BY <1>1, <1>2 DEF Control, Still
<1>5. RawKept'
  BY <1>1, <1>2 DEF RawKept, Still
<1> QED  BY <1>1, <1>3, <1>4, <1>5 DEF ContentInv, Typed

(* What holds at the places of a section and of a piece.                   *)
LEMMA PlaceFacts ==
  ASSUME ContentInv, call = "running", error = "NONE", work.at \in {"token", "check", "cdata", "return"}
  PROVE  /\ work.bindings = <<>> /\ ~StoringAtts /\ processor \in {"content", "cdata", "epilog"}
         /\ via = "cdata" => work.at \in {"cdata", "return"}
         /\ via = "epilog" => processor = "epilog"
         /\ over /\ work.at # "check" => processor = "epilog" /\ work.at # "cdata"
         /\ over /\ status # "FINISHED" => processor = "epilog"
         /\ work.at = "cdata" => processor \in {"content", "cdata"}
         /\ final \in BOOLEAN /\ via \in {"content", "cdata", "epilog"}
<1>1. work.bindings = <<>> /\ ~StoringAtts
  BY DEF ContentInv, Control, StoringAtts
<1>2. processor \in {"content", "cdata", "epilog"} /\ via \in {"content", "cdata", "epilog"} /\ final \in BOOLEAN
  BY DEF ContentInv, Typed, TypedFlow
<1>3. /\ via = "cdata" => work.at \in {"cdata", "return"}
      /\ via = "epilog" => processor = "epilog"
  BY DEF ContentInv, RawKept
<1>4. /\ over /\ work.at # "check" => processor = "epilog" /\ work.at # "cdata"
      /\ over /\ status # "FINISHED" => processor = "epilog"
      /\ work.at = "cdata" => processor \in {"content", "cdata"}
  BY DEF ContentInv, Control
<1> QED  BY <1>1, <1>2, <1>3, <1>4

(* Steps inside a CDATA section.                                           *)
LEMMA CdataStep ==
  ASSUME ContentInv, CdataText \/ CloseCdata \/ CdataEnds
  PROVE  ContentInv'
<1>1. error = "NONE" /\ call = "running" /\ work.at = "cdata"
  BY DEF CdataText, CloseCdata, CdataEnds, At
<1>2. /\ work.bindings = <<>> /\ ~StoringAtts /\ processor \in {"content", "cdata"}
      /\ via \in {"content", "cdata"} /\ ~over /\ final \in BOOLEAN
  BY <1>1, PlaceFacts DEF ContentInv, Typed, TypedFlow
<1>3. CASE CdataText /\ ~Fail("ABORTED")
  <2>1. /\ Still /\ UNCHANGED <<over, call, via, final>> /\ Stopped
        /\ \E p \in {"return", "cdata"} : Goto(p) /\ processor' \in {"cdata", processor}
    BY <1>3 DEF CdataText, Handler, Quiet, Still, setup, callVars, bindingVars, attVars
  <2> QED  BY <1>1, <1>2, <2>1, GoStep DEF Still
<1>4. CASE CloseCdata /\ ~Fail("ABORTED")
  <2>1. /\ Still /\ UNCHANGED <<over, call, final>> /\ Stopped
        /\ via' = "content" /\ processor' = "content"
        /\ \E p \in {"token", "check"} : Goto(p)
    BY <1>4 DEF CloseCdata, Handler, Still, setup, callVars, bindingVars, attVars
  <2> QED  BY <1>1, <1>2, <2>1, GoStep DEF Still
<1>5. CASE CdataEnds /\ ~Refuse("UNCLOSED_CDATA_SECTION")
  <2>1. /\ Still /\ UNCHANGED <<over, call, via, final, status>>
        /\ processor' = "cdata" /\ Goto("return")
    BY <1>5 DEF CdataEnds, NoHandler, Quiet, Still, setup, callVars, bindingVars, attVars
  <2> QED  BY <1>1, <1>2, <2>1, GoStep DEF Still
<1>6. CASE Fail("ABORTED") /\ Stopped
  BY <1>6, Failed
<1>7. CASE Refuse("UNCLOSED_CDATA_SECTION")
  BY <1>7, Failed DEF Refuse, NoHandler
<1> QED  BY <1>3, <1>4, <1>5, <1>6, <1>7 DEF CdataText, CloseCdata, CdataEnds, Handler

(* A step that only refuses.                                               *)
LEMMA RefusedStep ==
  ASSUME ContentInv, InvalidToken \/ Junk
  PROVE  ContentInv'
<1>1. PICK code \in Broken \cup {"JUNK_AFTER_DOC_ELEMENT"} : Refuse(code)
  BY DEF InvalidToken, Junk
<1>2. code # "NONE"
  BY DEF Broken
<1>3. Fail(code) /\ UNCHANGED status
  BY <1>1 DEF Refuse, NoHandler
<1> QED  BY <1>2, <1>3, Failed

(* The end of a piece.                                                     *)
LEMMA PieceStep ==
  ASSUME ContentInv, PieceEnds \/ TrailingText \/ Check
  PROVE  ContentInv'
<1>1. error = "NONE" /\ call = "running" /\ work.at \in {"token", "check"}
  BY DEF PieceEnds, TrailingText, Check, Token, At
<1>2. /\ work.bindings = <<>> /\ ~StoringAtts /\ processor \in {"content", "cdata", "epilog"}
      /\ via \in {"content", "epilog"} /\ (via = "epilog" => processor = "epilog")
      /\ (over /\ work.at = "token" => processor = "epilog")
      /\ (over /\ status # "FINISHED" => processor = "epilog") /\ final \in BOOLEAN
  BY <1>1, PlaceFacts
<1>3. CASE ~Refuse(EndError) /\ ~Fail(EndError) /\ (PieceEnds \/ TrailingText)
  <2>1. /\ Still /\ UNCHANGED <<over, call, via, processor>> /\ (Stopped \/ UNCHANGED status)
        /\ final' \in {final, TRUE} /\ Goto("return") /\ work.at = "token"
    BY <1>3 DEF PieceEnds, TrailingText, Finish, Token, At, Handler, NoHandler, Quiet, Still, setup, callVars, bindingVars, attVars
  <2> QED  BY <1>1, <1>2, <2>1, GoStep DEF Still
<1>4. CASE Check /\ ~Refuse("ABORTED")
  <2>1. /\ Still /\ UNCHANGED <<over, call, via, processor, final, status>> /\ status # "FINISHED"
        /\ \E p \in {"token", "return"} : Goto(p)
    BY <1>4 DEF Check, NoHandler, Still, setup, callVars, bindingVars, attVars
  <2> QED  BY <1>1, <1>2, <2>1, GoStep DEF Still
<1>5. CASE Check /\ Refuse("ABORTED")
  BY <1>5, Failed DEF Refuse, NoHandler
<1>6. CASE (PieceEnds \/ TrailingText) /\ (Refuse(EndError) \/ Fail(EndError))
  <2>1. Fail(EndError) /\ (Stopped \/ UNCHANGED status) 
    BY <1>6 DEF Refuse, PieceEnds, TrailingText, Handler, NoHandler
  <2>2. EndError # "NONE"
    <3>1. EndError = error'
      BY <2>1 DEF Fail
    <3>2. Incomplete \/ error' = error
      BY <1>6 DEF PieceEnds, TrailingText, Quiet, Finish
    <3>3. processor' = "error"
      BY <2>1 DEF Fail
    <3>4. Incomplete \/ processor' = processor
      BY <1>6 DEF PieceEnds, TrailingText, Quiet, Finish
    <3> QED  BY <1>2, <3>3, <3>4 DEF Incomplete
  <2> QED  BY <2>1, <2>2, Failed
<1> QED  BY <1>3, <1>4, <1>5, <1>6

(* The last binding of an element has been withdrawn.                      *)
LEMMA LeftStep ==
  ASSUME ContentInv, Left
  PROVE  ContentInv'
<1>1. /\ error = "NONE" /\ call = "running" /\ work.at = "withdraw" /\ work.bindings = <<>>
      /\ Still /\ UNCHANGED <<over, call, via, final, status>>
  BY DEF Left, At, NoHandler, Still, setup, callVars, bindingVars, attVars
<1>2. Typed /\ Control /\ RawKept
  BY DEF ContentInv
<1>3. PICK p \in {"token", "check"} :
        /\ Goto(p)
        /\ \/ Level = 0 /\ processor' = "epilog" /\ (status = "FINISHED" => p = "check")
           \/ (Level # 0 \/ status = "FINISHED") /\ processor' = processor /\ p = "check"
  BY <1>1 DEF Left
<1>4. /\ TypedTags' /\ TypedCells' /\ TypedAtts' /\ TypedWork' /\ Bindings' /\ NamesKept' /\ MarksKept'
      /\ work'.at = p /\ work'.bindings = <<>> /\ ~Handling'
  <2>1. ~StoringAtts
    BY <1>1 DEF StoringAtts
  <2> QED  BY <1>1, <1>3, <2>1, GotoStep DEF Still
<1>5. Len(tags) \in Nat /\ startLevel \in {0, 1}
  BY <1>2, AnySeq DEF Typed, TypedTags, TypedFlow
<1>6. TypedFlow'
  BY <1>1, <1>2, <1>3 DEF Typed, TypedFlow, Still
<1>7. Level = 0 => Len(tags) = 0
  BY <1>5 DEF Level
<1>8. Len(tags) = 0 /\ startLevel = 0 => Level = 0
  BY DEF Level
<1>9. Control'
  <2>1. tags' = tags /\ error' = error /\ startLevel' = startLevel /\ over' = over /\ call' = call /\ status' = status
    BY <1>1 DEF Still
  <2>2. over => Level = 0
    BY <1>2, <1>8 DEF Control
  <2>3. over => processor' = "epilog" \/ (status = "FINISHED" /\ p = "check")
    BY <1>3, <2>2
  <2>4. processor' = "epilog" => Len(tags) = 0
    BY <1>1, <1>2, <1>3, <1>7 DEF Control
  <2> HIDE DEF Level
  <2>5. over => Len(tags) = 0 /\ startLevel = 0
    BY <1>2 DEF Control
  <2> QED  BY <1>1, <1>3, <1>4, <2>1, <2>3, <2>4, <2>5 DEF Control
<1>10. RawKept'
  <2>1. error' = error /\ tags' = tags /\ call' = call /\ via' = via
    BY <1>1 DEF Still
  <2>2. via = "epilog" => processor' = "epilog"
    BY <1>1, <1>2, <1>3 DEF RawKept
  <2>3. via = "cdata" => FALSE
    BY <1>1, <1>2 DEF RawKept
  <2> QED  BY <1>1, <1>2, <2>1, <2>2, <2>3, RawSame
<1> QED  BY <1>4, <1>6, <1>9, <1>10 DEF ContentInv, Typed

(* The next call.                                                          *)
LEMMA EnterStep ==
  ASSUME ContentInv, Parse \/ Resume
  PROVE  ContentInv'
<1>1. /\ error = "NONE" /\ call = "idle" /\ call' = "running" /\ via' = processor /\ processor' = processor
      /\ UNCHANGED <<ns, triplets, startLevel, error, bound, cells, freeBindings, inherited, flags, nsAtts, idIndex, over, final>>
      /\ status' \in {"PARSING", status}
      /\ Goto(IF processor = "cdata" THEN "cdata" ELSE "token")
  BY DEF Parse, Resume, Enter, setup, bindingVars, attVars
<1>2. Typed /\ Control /\ RawKept
  BY DEF ContentInv
<1>3. work.at = "token" /\ work.bindings = <<>> /\ \A i \in 1 .. Len(tags) : tags[i].raw = "own"
  BY <1>1, <1>2 DEF Control, RawKept
<1>4. tags' = tags
  <2>1. CASE Resume
    BY <2>1 DEF Resume
  <2>2. CASE Parse
    <3>1. IsSeq(tags)
      BY <1>2 DEF Typed, TypedTags
    <3>2. DOMAIN tags = 1 .. Len(tags) /\ tags = [i \in 1 .. Len(tags) |-> tags[i]]
      BY <3>1, LenProperties DEF IsSeq
    <3>3. tags' = [i \in DOMAIN tags |-> IF tags[i].raw = "input" THEN [tags[i] EXCEPT !.raw = "gone"] ELSE tags[i]]
      BY <2>2 DEF Parse
    <3>4. tags' = [i \in 1 .. Len(tags) |-> tags[i]]
      BY <1>3, <3>2, <3>3
    <3> QED  BY <3>2, <3>4
  <2> QED  BY <2>1, <2>2
<1> DEFINE p == IF processor = "cdata" THEN "cdata" ELSE "token"
<1>5. /\ TypedTags' /\ TypedCells' /\ TypedAtts' /\ TypedWork' /\ Bindings' /\ NamesKept' /\ MarksKept'
      /\ work'.at = p /\ work'.bindings = <<>> /\ ~Handling'
  <2>1. ~StoringAtts /\ work.at # "start"
    BY <1>3 DEF StoringAtts
  <2>2. p \in {"token", "check", "return", "cdata"} /\ Goto(p)
    BY <1>1
  <2> HIDE DEF p
  <2> QED  BY <1>1, <1>3, <1>4, <2>1, <2>2, GotoStep
<1>6. processor \in {"content", "cdata", "epilog"}
  BY <1>1, <1>2 DEF Typed, TypedFlow
<1>7. TypedFlow'
  BY <1>1, <1>2, <1>6 DEF Typed, TypedFlow
<1>8. Control'
  BY <1>1, <1>2, <1>3, <1>4, <1>5 DEF Control
<1>9. RawKept'
  BY <1>1, <1>2, <1>3, <1>4, <1>5 DEF RawKept, Control
<1> QED  BY <1>5, <1>7, <1>8, <1>9 DEF ContentInv, Typed

-----------------------------------------------------------------------------
(* The end of a call: storeRawNames.                                       *)
(* The lists of bindings depend on nothing else of the tags.               *)
LEMMA HeldEq ==
  ASSUME Len(tags) \in Nat, Len(tags') = Len(tags), \A i \in 1 .. Len(tags) : tags'[i].bindings = tags[i].bindings,
         UNCHANGED inherited, work'.bindings = work.bindings
  PROVE  Held' = Held /\ Depth' = Depth
<1> DEFINE n == Len(tags) + 1
<1>1. Depth' = n /\ Depth = n /\ n \in Nat
  BY DEF Depth
<1>2. \A i \in 0..n : i # 0 /\ i # n => i \in 1 .. Len(tags)
  OBVIOUS
<1> HIDE DEF n
<1>3. Held = [i \in 0..n |-> IF i = 0 THEN inherited ELSE IF i = n THEN work.bindings ELSE tags[i].bindings]
  BY <1>1 DEF Held
<1>4. Held' = [i \in 0..n |-> IF i = 0 THEN inherited ELSE IF i = n THEN work.bindings ELSE tags'[i].bindings]
  BY <1>1 DEF Held
<1>5. Held' = Held
  BY <1>2, <1>3, <1>4
<1> QED  BY <1>1, <1>5

(* What stays of a tag.                                                    *)
TagKept(t, u) ==
  /\ IsTag(u) /\ u.name = t.name /\ u.prefix = t.prefix /\ u.bindings = t.bindings /\ u.told = t.told
  /\ u.str.cell = t.str.cell
  /\ u.local \in {Null, u.gen} /\ (u.local = Null <=> t.local = Null)
  /\ u.str.cell = 0 => u.str.gen = u.gen
  /\ u.str.cell # 0 => u.str.gen = t.str.gen
NameOwn(t) == /\ t.local \in {Null, t.gen} /\ (t.local = Null <=> t.str.cell = 0)
              /\ t.str.cell = 0 => t.str.gen = t.gen

(* What storing a raw name keeps of a tag.                                 *)
LEMMA StoredKeeps ==
  ASSUME NEW t, IsTag(t), NameOwn(t)
  PROVE  TagKept(t, t) /\ TagKept(t, Stored(t)) /\ Stored(t).raw = "own"
<1>1. TagKept(t, t)
  BY DEF TagKept, NameOwn
<1> DEFINE grows == 2 * NameWidth(t.name) + 1 > t.size
           need == 2 * NameWidth(t.name) + 1
           str == IF t.str = InTag(t.gen) THEN InTag(t.gen + 1) ELSE t.str
           local == IF t.local = Null THEN Null ELSE t.gen + 1
           u == [t EXCEPT !.raw = "own", !.size = need, !.gen = t.gen + 1, !.str = str, !.local = local]
           v == [t EXCEPT !.raw = "own"]
<1>2. Stored(t) = IF ~grows THEN v ELSE u
  BY DEF Stored
<1>3. DOMAIN t = TagFields /\ t.gen \in Nat /\ t.local \in Nat \cup {Null} /\ t.str \in Place /\ Null \notin Nat
  BY ContentAssumption DEF IsTag
<1>4. str \in Place /\ str.cell = t.str.cell
  BY <1>3 DEF Place, InTag
<1>5. t.str.cell = 0 => str.gen = t.gen + 1
  <2> SUFFICES ASSUME t.str.cell = 0 PROVE str.gen = t.gen + 1
    OBVIOUS
  <2>1. t.str.gen = t.gen
    BY DEF NameOwn
  <2>2. t.str = [cell |-> t.str.cell, gen |-> t.str.gen]
    BY <1>3 DEF Place
  <2>3. t.str = InTag(t.gen)
    BY <2>1, <2>2 DEF InTag
  <2> QED  BY <2>3 DEF InTag
<1>6. t.str.cell # 0 => str = t.str
  BY <1>3 DEF InTag
<1>7. local \in {Null, t.gen + 1} /\ local \in Nat \cup {Null} /\ (local = Null <=> t.local = Null)
  BY <1>3
<1> HIDE DEF need, str, local
<1>8. /\ DOMAIN u = TagFields /\ u.raw = "own" /\ u.gen = t.gen + 1 /\ u.str = str /\ u.local = local
      /\ u.name = t.name /\ u.prefix = t.prefix /\ u.bindings = t.bindings /\ u.told = t.told
  BY <1>3 DEF TagFields
<1>9. /\ DOMAIN v = TagFields /\ v.raw = "own" /\ v.gen = t.gen /\ v.str = t.str /\ v.local = t.local
      /\ v.name = t.name /\ v.prefix = t.prefix /\ v.bindings = t.bindings /\ v.told = t.told
  BY <1>3 DEF TagFields
<1> HIDE DEF u, v
<1>10. TagKept(t, u)
  <2>1. IsTag(u)
    BY <1>3, <1>4, <1>7, <1>8 DEF IsTag
  <2>2. u.str.cell = t.str.cell /\ (t.str.cell = 0 => u.str.gen = u.gen) /\ (t.str.cell # 0 => u.str.gen = t.str.gen)
    BY <1>4, <1>5, <1>6, <1>8
  <2>3. u.local \in {Null, u.gen} /\ (u.local = Null <=> t.local = Null)
    BY <1>7, <1>8
  <2> QED  BY <1>8, <2>1, <2>2, <2>3 DEF TagKept
<1>11. TagKept(t, v)
  <2>1. IsTag(v)
    BY <1>3, <1>9 DEF IsTag
  <2> QED  BY <1>9, <2>1 DEF TagKept, NameOwn
<1> QED  BY <1>1, <1>2, <1>8, <1>9, <1>10, <1>11

(* Every raw name is in the buffer of its tag in the end.                  *)
LEMMA AllStored ==
  ASSUME TypedTags, NEW new, new = StoreRawNames,
         \A i, j \in 1 .. Len(tags) : i < j /\ tags[j].raw = "own" => tags[i].raw = "own"
  PROVE  /\ DOMAIN new = DOMAIN tags
         /\ \A i \in 1 .. Len(tags) : new[i] = Stored(tags[i]) \/ (new[i] = tags[i] /\ tags[i].raw = "own")
<1> DEFINE n == Len(tags)
           stored == {i \in DOMAIN tags : tags[i].raw = "own"}
<1>1. n \in Nat /\ DOMAIN tags = 1..n
  BY AnySeq DEF TypedTags
<1>2. FirstToStore = IF stored = {} THEN 1 ELSE Max(stored) + 1
  BY DEF FirstToStore
<1>3. new = [i \in 1..n |-> IF i < FirstToStore THEN tags[i] ELSE Stored(tags[i])]
  BY <1>1 DEF StoreRawNames
<1>4. stored \in SUBSET (1..n) /\ \A i \in stored : tags[i].raw = "own"
  BY <1>1
<1> HIDE DEF stored
<1>5. \A i \in 1..n : i < FirstToStore => tags[i].raw = "own"
  <2>1. CASE stored = {}
    BY <1>2, <2>1
  <2>2. CASE stored # {}
    <3>1. Max(stored) \in stored
      BY <1>1, <1>4, <2>2, Greatest
    <3>2. Max(stored) \in 1..n /\ tags[Max(stored)].raw = "own"
      BY <1>4, <3>1
    <3>3. FirstToStore = Max(stored) + 1
      BY <1>2, <2>2
    <3> DEFINE m == Max(stored)
    <3> HIDE DEF m
    <3>4. \A i \in 1..n : i < m + 1 => i < m \/ i = m
      BY <1>1, <3>2 DEF m
    <3> QED  BY <3>2, <3>3, <3>4 DEF m
  <2> QED  BY <2>1, <2>2
<1>6. \A i \in 1..n : new[i] = IF i < FirstToStore THEN tags[i] ELSE Stored(tags[i])
  BY <1>3
<1> QED  BY <1>1, <1>3, <1>5, <1>6

(* A call returns, with the raw names stored.                              *)
LEMMA ReturnStep ==
  ASSUME ContentInv, Return
  PROVE  ContentInv'
<1>1. error = "NONE" /\ call = "running" /\ work.at = "return"
  BY DEF Return, At
<1>2. /\ Typed /\ Control /\ RawKept /\ Bindings /\ NamesKept
      /\ work.bindings = <<>> /\ ~StoringAtts /\ ~Handling
  BY <1>1 DEF ContentInv, Control, StoringAtts, Handling
<1>3. CASE Refuse("NO_MEMORY")
  BY <1>3, Failed DEF Refuse, NoHandler
<1>4. CASE ~Refuse("NO_MEMORY")
  <2>1. /\ tags' = IF via = "content" THEN StoreRawNames ELSE tags
        /\ call' = "idle" /\ work' = NoWork /\ status' \in {"FINISHED", status}
        /\ UNCHANGED <<ns, triplets, startLevel, processor, via, final, error, bound, cells, freeBindings,
                       inherited, flags, nsAtts, idIndex, over>>
    BY <1>4 DEF Return, setup, bindingVars, attVars
  <2> DEFINE n == Len(tags)
  <2>2. IsSeq(tags) /\ n \in Nat /\ DOMAIN tags = 1..n /\ (\A i \in 1..n : IsTag(tags[i])) /\ n <= MaxDepth /\ TypedTags
    BY <1>2, AnySeq DEF Typed, TypedTags
  <2>3. \A i \in 1..n : NameKept(i)
    BY <1>1, <1>2 DEF NamesKept, AllKept
  <2>4. \A i \in 1..n : NameOwn(tags[i])
    BY <2>3 DEF NameKept, NameOwn
  <2>5. /\ DOMAIN tags' = DOMAIN tags
        /\ \A i \in 1..n : tags'[i] = Stored(tags[i]) \/ (tags'[i] = tags[i] /\ tags[i].raw = "own")
    <3>1. CASE via = "content"
      <4>1. tags' = StoreRawNames
        BY <2>1, <3>1
      <4>2. \A i, j \in 1 .. Len(tags) : i < j /\ tags[j].raw = "own" => tags[i].raw = "own"
        BY <1>1, <1>2 DEF RawKept
      <4> QED  BY <2>2, <4>1, <4>2, AllStored
    <3>2. CASE via # "content"
      <4>1. tags' = tags /\ \A i \in 1..n : tags[i].raw = "own"
        BY <1>1, <1>2, <2>1, <3>2 DEF RawKept
      <4> QED  BY <4>1
    <3> QED  BY <3>1, <3>2
  <2>6. \A i \in 1..n : TagKept(tags[i], tags'[i]) /\ tags'[i].raw = "own"
    <3> SUFFICES ASSUME NEW i \in 1..n PROVE TagKept(tags[i], tags'[i]) /\ tags'[i].raw = "own"
      OBVIOUS
    <3>1. IsTag(tags[i]) /\ NameOwn(tags[i])
      BY <2>2, <2>4
    <3>2. TagKept(tags[i], tags[i]) /\ TagKept(tags[i], Stored(tags[i])) /\ Stored(tags[i]).raw = "own"
      BY <3>1, StoredKeeps
    <3> QED  BY <2>5, <3>2
  <2>7. IsSeq(tags') /\ Len(tags') = n
    <3>1. DOMAIN tags' = DOMAIN tags /\ tags' = [i \in DOMAIN tags |-> tags'[i]]
      <4>1. CASE via = "content"
        <5>1. tags' = StoreRawNames
          BY <2>1, <4>1
        <5> QED  BY <5>1 DEF StoreRawNames
      <4>2. CASE via # "content"
        <5>1. tags' = tags
          BY <2>1, <4>2
        <5>2. tags = [i \in 1..n |-> tags[i]]
          BY <2>2, LenProperties DEF IsSeq
        <5> QED  BY <2>2, <5>1, <5>2
      <4> QED  BY <4>1, <4>2
    <3> QED  BY <2>2, <3>1, AnyExcept
  <2>8. /\ Blank(NoWork, "token") /\ work'.at = "token" /\ work'.bindings = <<>>
        /\ DOMAIN work' = WorkFields /\ IsSeq(work'.atts) /\ work'.i \in Nat \ {0} /\ work'.empty \in BOOLEAN
    BY <2>1, BlankWork, BlankFacts DEF Blank
  <2>9. Held' = Held /\ Depth' = Depth
    <3>1. \A i \in 1 .. Len(tags) : tags'[i].bindings = tags[i].bindings
      BY <2>6 DEF TagKept
    <3> QED  BY <1>2, <2>1, <2>2, <2>7, <2>8, <3>1, HeldEq
  <2>10. ~StoringAtts' /\ ~Handling' /\ work'.at \in Places /\ work'.at \notin {"start", "end"}
    BY <2>8 DEF StoringAtts, Handling, Places
  <2>11. TypedTags'
    BY <2>2, <2>6, <2>7 DEF TypedTags, TagKept
  <2>12. TypedCells' /\ TypedAtts'
    BY <1>2, <2>1 DEF Typed, TypedCells, TypedAtts
  <2>13. TypedWork'
    BY <2>8, <2>10 DEF TypedWork
  <2>14. TypedFlow'
    BY <1>2, <2>1 DEF Typed, TypedFlow
  <2>15. Control'
    BY <1>1, <1>2, <2>1, <2>7, <2>8, <2>10 DEF Control
  <2>16. Bindings'
    <3> HIDE DEF Held, Depth
    <3> QED  BY <1>2, <2>1, <2>9 DEF Bindings
  <2>17. RawKept'
    BY <1>1, <1>2, <2>1, <2>6, <2>7 DEF RawKept
  <2>18. AllKept'
    <3> SUFFICES ASSUME NEW i \in 1..n PROVE NameKept(i)'
      BY <2>7 DEF AllKept
    <3> HIDE DEF Held, n
    <3>1. NameKept(i) /\ TagKept(tags[i], tags'[i])
      BY <2>3, <2>6
    <3>2. Reaches(i)' = Reaches(i)
      BY <1>2, <2>10 DEF Reaches
    <3>3. tags[i].str.cell # 0 => /\ tags'[i].str.cell \in Below(Held, Reaches(i))'
                                  /\ tags'[i].str.gen = cells'[tags'[i].str.cell].gen
      <4>1. tags'[i].str.cell = tags[i].str.cell /\ (tags'[i].str.cell # 0 => tags'[i].str.gen = tags[i].str.gen) /\ cells' = cells
        BY <2>1, <3>1 DEF TagKept
      <4>2. Below(Held, Reaches(i))' = Below(Held, Reaches(i))
        BY <2>9, <3>2
      <4> HIDE DEF Below
      <4> QED  BY <3>1, <4>1, <4>2 DEF NameKept
    <3> HIDE DEF Below, Reaches
    <3>4. /\ tags'[i].local \in {Null, tags'[i].gen} /\ (tags'[i].local = Null <=> tags'[i].str.cell = 0)
          /\ tags'[i].str.cell = 0 => tags'[i].str.gen = tags'[i].gen
          /\ tags'[i].str.cell # 0 => tags[i].str.cell # 0
      BY <3>1 DEF TagKept, NameKept
    <3> QED  BY <3>3, <3>4 DEF NameKept
  <2>19. AllTold'
    <3> SUFFICES ASSUME NEW i \in 1..n PROVE ToldRight(i)'
      BY <2>7 DEF AllTold
    <3>1. ToldRight(i) /\ TagKept(tags[i], tags'[i])
      BY <1>1, <1>2, <2>6 DEF NamesKept, AllTold
    <3> DEFINE t == tags[i]
               u == tags'[i]
    <3>2. u.told = t.told /\ u.str.cell = t.str.cell /\ u.name = t.name /\ u.prefix = t.prefix
      BY <3>1 DEF TagKept
    <3>3. t.told = ToldAs(t, cells, triplets)
      BY <3>1 DEF ToldRight
    <3> HIDE DEF t, u
    <3>4. ToldAs(u, cells, triplets) = ToldAs(t, cells, triplets)
      BY <3>2 DEF ToldAs
    <3>5. u.told = ToldAs(u, cells, triplets)
      BY <3>2, <3>3, <3>4
    <3> QED  BY <2>1, <3>5 DEF ToldRight, u
  <2>20. NamesKept'
    BY <2>8, <2>10, <2>18, <2>19 DEF NamesKept, WorkName
  <2>21. MarksKept'
    BY <1>1, <1>2, <2>1 DEF ContentInv, MarksKept
  <2> QED  BY <2>11, <2>12, <2>13, <2>14, <2>15, <2>16, <2>17, <2>20, <2>21 DEF ContentInv, Typed
<1> QED  BY <1>3, <1>4

-----------------------------------------------------------------------------
(* A start tag.                                                            *)
Begun(w, tag, empty) ==
  /\ DOMAIN w = WorkFields /\ w.at = "attributes" /\ w.tag = tag /\ w.empty = empty /\ w.i = 1
  /\ w.atts = <<>> /\ w.bindings = <<>>

(* The work of a start tag at its beginning.                               *)
LEMMA WorkBegun ==
  ASSUME NEW tag, NEW empty
  PROVE  Begun([NoWork EXCEPT !.at = "attributes", !.tag = tag, !.empty = empty, !.str = InTag(0)], tag, empty)
  BY DEF Begun, NoWork, WorkFields

(* What empty and other start tags have in common.                         *)
LEMMA StartTagged ==
  ASSUME ContentInv, NEW tag \in StartTags, NEW empty \in BOOLEAN, StartTag(tag, empty)
  PROVE  /\ error = "NONE" /\ call = "running" /\ work.at = "token" /\ processor = "content" /\ via = "content"
         /\ Len(tags) \in Nat /\ Len(tags) + 1 <= MaxDepth /\ ~over /\ ~Handling /\ work.bindings = <<>>
         /\ UNCHANGED <<ns, triplets, startLevel, processor, via, call, final, status, error, bound, cells, freeBindings,
                        inherited, flags, nsAtts, idIndex, over>>
         /\ (\A name \in AttNames : flags[name] = 0)
         /\ TypedFlow' /\ TypedCells' /\ TypedAtts' /\ TypedWork' /\ MarksKept' /\ work'.at = "attributes"
         /\ work'.tag = tag /\ work'.empty = empty /\ work'.bindings = <<>>
<1>1. /\ error = "NONE" /\ call = "running" /\ work.at = "token" /\ processor = "content" /\ Level < MaxDepth
      /\ UNCHANGED <<ns, triplets, startLevel, processor, via, call, final, status, error, bound, cells, freeBindings,
                     inherited, flags, nsAtts, idIndex, over>>
      /\ work' = [NoWork EXCEPT !.at = "attributes", !.tag = tag, !.empty = empty, !.str = InTag(0)]
  BY DEF StartTag, Token, At, NoHandler, setup, callVars, bindingVars, attVars
<1>2. Typed /\ Control /\ RawKept /\ MarksKept
  BY DEF ContentInv
<1>3. via = "content" /\ ~over /\ work.bindings = <<>> /\ ~Handling
  <2>1. via \in {"content", "cdata", "epilog"}
    BY <1>2 DEF Typed, TypedFlow
  <2> QED  BY <1>1, <1>2, <2>1 DEF RawKept, Control, Handling, StoringAtts
<1>4. Len(tags) \in Nat /\ Len(tags) + 1 <= MaxDepth
  <2>1. Len(tags) \in Nat /\ startLevel \in {0, 1} /\ MaxDepth \in Nat
    BY <1>2, AnySeq, ContentAssumption DEF Typed, TypedTags, TypedFlow
  <2> QED  BY <1>1, <2>1 DEF Level
<1>5. \A name \in AttNames : flags[name] = 0
  BY <1>1, <1>2 DEF MarksKept, StoringAtts
<1>6. MarksKept'
  BY <1>1, <1>5 DEF MarksKept
<1>7. TypedFlow' /\ TypedCells' /\ TypedAtts'
  BY <1>1, <1>2 DEF Typed, TypedFlow, TypedCells, TypedAtts
<1>8. /\ DOMAIN work' = WorkFields /\ work'.at = "attributes" /\ work'.tag = tag /\ work'.empty = empty
      /\ work'.i = 1 /\ work'.atts = <<>> /\ work'.bindings = <<>>
  <2>1. Begun(work', tag, empty)
    BY <1>1, WorkBegun
  <2> QED  BY <2>1 DEF Begun
<1>9. TypedWork'
  <2>1. IsSeq(work'.atts)
    BY <1>8, NoneSet DEF IsSeq
  <2>2. work'.empty \in BOOLEAN
    BY <1>8, Zenon
  <2> QED  BY <1>8, <2>1, <2>2 DEF TypedWork, Places
<1> QED  BY <1>1, <1>3, <1>4, <1>5, <1>6, <1>7, <1>8, <1>9

(* The start of an empty-element tag.                                      *)
LEMMA StartEmpty ==
  ASSUME ContentInv, NEW tag \in StartTags, StartTag(tag, TRUE)
  PROVE  ContentInv'
<1>1. tags' = tags
  BY DEF StartTag
<1>2. /\ error = "NONE" /\ call = "running" /\ work.at = "token" /\ processor = "content" /\ via = "content"
      /\ ~over /\ ~Handling /\ work.bindings = <<>>
      /\ UNCHANGED <<ns, triplets, startLevel, processor, via, call, final, status, error, bound, cells, freeBindings,
                     inherited, flags, nsAtts, idIndex, over>>
      /\ TypedFlow' /\ TypedCells' /\ TypedAtts' /\ TypedWork' /\ MarksKept' /\ work'.at = "attributes"
      /\ work'.empty = TRUE /\ work'.bindings = <<>>
  BY StartTagged
<1>3. Typed /\ Control /\ RawKept /\ Bindings /\ NamesKept
  BY DEF ContentInv
<1>4. ~Handling'
  BY <1>2 DEF Handling
<1>5. TypedTags'
  BY <1>1, <1>3 DEF Typed, TypedTags
<1>6. Control'
  BY <1>1, <1>2, <1>3, <1>4 DEF Control
<1>7. Bindings'
  BY <1>1, <1>2, <1>3, BindingsSame
<1>8. RawKept'
  BY <1>1, <1>2, <1>3, RawSame
<1>9. Held' = Held
  BY <1>1, <1>2, HeldSame
<1>10. AllKept'
  <2>1. AllKept
    BY <1>2, <1>3 DEF NamesKept
  <2> HIDE DEF Held
  <2> QED  BY <1>1, <1>2, <1>4, <1>9, <2>1 DEF AllKept, NameKept, Reaches
<1>11. AllTold'
  <2>1. AllTold
    BY <1>2, <1>3 DEF NamesKept
  <2> QED  BY <1>1, <1>2, <1>4, <2>1 DEF AllTold, ToldRight
<1>12. NamesKept'
  BY <1>2, <1>4, <1>10, <1>11 DEF NamesKept, WorkName
<1> QED  BY <1>2, <1>5, <1>6, <1>7, <1>8, <1>12 DEF ContentInv, Typed

(* The tag goes on the stack.                                              *)
LEMMA TagNew ==
  ASSUME NEW tag \in StartTags, NEW size
  PROVE  LET t == NewTag(tag, size)
         IN /\ IsTag(t) /\ t.name = tag.name /\ t.raw = "input" /\ t.bindings = <<>> /\ t.local = Null /\ t.gen = 0
            /\ t.str.cell = 0 /\ t.str.gen = 0
<1> DEFINE t == NewTag(tag, size)
<1>1. /\ DOMAIN t = TagFields /\ t.name = tag.name /\ t.raw = "input" /\ t.bindings = <<>> /\ t.local = Null
      /\ t.gen = 0 /\ t.str = InTag(0) /\ t.prefix = ""
  BY DEF NewTag, TagFields
<1>2. InTag(0) \in Place /\ InTag(0).cell = 0 /\ InTag(0).gen = 0
  BY DEF Place, InTag
<1>3. tag.name \in Names /\ "" \in NsPrefixes
  BY ContentAssumption DEF Names
<1> HIDE DEF t
<1>4. IsTag(t)
  <2>1. t.name \in Names /\ t.prefix \in NsPrefixes
    BY <1>1, <1>3
  <2>2. t.gen = 0 /\ t.local = Null /\ DOMAIN t = TagFields
    BY <1>1, Zenon
  <2>3. t.gen \in Nat
    BY <2>2
  <2>4. t.local \in Nat \cup {Null}
    BY <2>2, Zenon
  <2>5. t.str \in Place
    BY <1>1, <1>2, Zenon
  <2> QED  BY <2>1, <2>2, <2>3, <2>4, <2>5 DEF IsTag
<1>5. /\ IsTag(t) /\ t.name = tag.name /\ t.raw = "input" /\ t.bindings = <<>> /\ t.local = Null /\ t.gen = 0
      /\ t.str.cell = 0 /\ t.str.gen = 0
  BY <1>1, <1>2, <1>4
<1> QED  BY <1>5 DEF t

(* The lists with one more open tag.                                       *)
LEMMA HeldRaised ==
  ASSUME IsSeq(tags), NEW t, t.bindings = <<>>, tags' = Append(tags, t), UNCHANGED inherited,
         work.bindings = <<>>, work'.bindings = <<>>
  PROVE  Raised(Held, Depth, Held') /\ Depth' = Depth + 1
<1> DEFINE n == Len(tags)
<1>1. n \in Nat /\ Len(tags') = n + 1 /\ tags'[n + 1] = t /\ \A i \in 1..n : tags'[i] = tags[i]
  BY AnySeq, AnyAppend
<1>2. Depth = n + 1 /\ Depth' = (n + 1) + 1
  BY <1>1 DEF Depth
<1>3. Held = [i \in 0 .. n + 1 |-> IF i = 0 THEN inherited ELSE IF i = n + 1 THEN work.bindings ELSE tags[i].bindings]
  BY <1>2 DEF Held
<1>4. Held' = [i \in 0 .. (n + 1) + 1 |-> IF i = 0 THEN inherited ELSE IF i = (n + 1) + 1 THEN work'.bindings ELSE tags'[i].bindings]
  BY <1>2 DEF Held
<1> HIDE DEF n
<1>5. Held'[(n + 1) + 1] = <<>> /\ Held'[n + 1] = <<>> /\ Held[n + 1] = <<>>
  BY <1>1, <1>3, <1>4
<1>6. \A i \in 0..n : Held'[i] = Held[i]
  BY <1>1, <1>3, <1>4
<1>7. \A i \in 0 .. n + 1 : Held'[i] = Held[i]
  <2>1. \A i \in 0 .. n + 1 : i = n + 1 \/ i \in 0..n
    BY <1>1
  <2> QED  BY <1>5, <1>6, <2>1
<1>8. DOMAIN Held' = 0 .. (n + 1) + 1
  BY <1>4
<1> QED  BY <1>2, <1>5, <1>7, <1>8 DEF Raised

(* The start of a tag that goes on the stack.                              *)
LEMMA StartOpen ==
  ASSUME ContentInv, NEW tag \in StartTags, StartTag(tag, FALSE)
  PROVE  ContentInv'
<1> DEFINE n == Len(tags)
<1>1. PICK t : tags' = Append(tags, t) /\ \E size : t = NewTag(tag, size)
  BY DEF StartTag
<1>2. /\ IsTag(t) /\ t.name = tag.name /\ t.raw = "input" /\ t.bindings = <<>> /\ t.local = Null /\ t.gen = 0
      /\ t.str.cell = 0 /\ t.str.gen = 0
  BY <1>1, TagNew
<1>3. /\ error = "NONE" /\ call = "running" /\ processor = "content" /\ via = "content"
      /\ n \in Nat /\ n + 1 <= MaxDepth /\ ~over /\ ~Handling /\ work.bindings = <<>>
      /\ UNCHANGED <<ns, triplets, startLevel, processor, via, call, final, status, error, bound, cells, freeBindings,
                     inherited, flags, nsAtts, idIndex, over>>
      /\ TypedFlow' /\ TypedCells' /\ TypedAtts' /\ TypedWork' /\ MarksKept' /\ work'.at = "attributes"
      /\ work'.tag = tag /\ work'.empty = FALSE /\ work'.bindings = <<>>
  BY StartTagged
<1>4. Typed /\ Control /\ RawKept /\ Bindings /\ NamesKept
  BY DEF ContentInv
<1>5. IsSeq(tags) /\ \A i \in 1..n : IsTag(tags[i])
  BY <1>4 DEF Typed, TypedTags
<1>6. /\ IsSeq(tags') /\ Len(tags') = n + 1 /\ tags'[n + 1] = t
      /\ \A i \in 1..n : tags'[i] = tags[i]
  BY <1>1, <1>5, AnyAppend
<1>7. \A i \in 1 .. n + 1 : i \in 1..n \/ i = n + 1
  BY <1>3
<1>8. Raised(Held, Depth, Held') /\ Depth' = Depth + 1
  BY <1>1, <1>2, <1>3, <1>5, HeldRaised
<1>9. /\ Parted(Held', Depth', freeBindings, Len(cells))
      /\ SameBelow(Held, Held', Depth')
      /\ Below(Held', Depth' + 1) = Below(Held, Depth')
      /\ KeepsChains(Held, Depth, Held', Depth')
  <2>1. Parted(Held, Depth, freeBindings, Len(cells))
    BY <1>4 DEF Bindings
  <2> HIDE DEF Held, Depth
  <2> QED  BY <1>8, <2>1, RaiseKeeps
<1>10. Depth = n + 1 /\ Depth' = (n + 1) + 1
  BY <1>3, <1>8 DEF Depth
<1> HIDE DEF n
<1>11. Handling' /\ ~(work'.at = "start")
  BY <1>3 DEF Handling, StoringAtts
<1>12. TypedTags'
  <2>1. \A i \in 1 .. n + 1 : IsTag(tags'[i])
    BY <1>2, <1>5, <1>6, <1>7
  <2> QED  BY <1>3, <1>6, <2>1 DEF TypedTags
<1>13. Control'
  <2>1. tags' # <<>>
    <3>1. n + 1 # 0
      BY <1>3
    <3> QED  BY <1>6, <3>1, NoneSet
  <2> QED  BY <1>3, <2>1 DEF Control
<1>14. Bindings'
  <2>1. Chained(Held, Depth, Prefix(cells), Prev(cells), bound) /\ \A c \in Below(Held, Depth + 1) : cells[c].uri \in Uris
    BY <1>3, <1>4 DEF Bindings
  <2> HIDE DEF Held, Depth
  <2>2. Chained(Held', Depth', Prefix(cells), Prev(cells), bound)
    BY <1>9, <2>1 DEF KeepsChains
  <2>3. \A c \in Below(Held', Depth' + 1) : cells[c].uri \in Uris
    BY <1>8, <1>9, <2>1
  <2> QED  BY <1>3, <1>9, <2>2, <2>3 DEF Bindings
<1>15. RawKept'
  <2>1. \A i \in 1 .. n + 1 : tags'[i].raw \in {"input", "own"}
    <3>1. \A i \in 1..n : tags[i].raw \in {"input", "own"}
      BY <1>3, <1>4 DEF RawKept, n
    <3> QED  BY <1>2, <1>6, <1>7, <3>1
  <2>2. \A i, j \in 1 .. n + 1 : i < j /\ tags'[j].raw = "own" => tags'[i].raw = "own"
    <3> SUFFICES ASSUME NEW i \in 1 .. n + 1, NEW j \in 1 .. n + 1, i < j, tags'[j].raw = "own" PROVE tags'[i].raw = "own"
      OBVIOUS
    <3>1. j # n + 1
      BY <1>2, <1>6
    <3>2. j \in 1..n /\ i \in 1..n
      BY <1>3, <3>1
    <3> QED  BY <1>3, <1>4, <1>6, <3>2 DEF RawKept, n
  <2> QED  BY <1>3, <1>6, <2>1, <2>2 DEF RawKept
<1>16. AllKept'
  <2> SUFFICES ASSUME NEW i \in 1 .. n + 1 PROVE NameKept(i)'
    BY <1>6 DEF AllKept
  <2>1. CASE i = n + 1
    <3>1. tags'[i] = t
      BY <1>6, <2>1
    <3> QED  BY <1>2, <3>1 DEF NameKept
  <2>2. CASE i \in 1..n
    <3>1. tags'[i] = tags[i] /\ NameKept(i) /\ cells' = cells
      BY <1>3, <1>4, <1>6, <2>2 DEF NamesKept, AllKept, n
    <3>2. Reaches(i) = i + 1
      BY <1>3 DEF Reaches
    <3>3. Reaches(i)' = i + 1
      <4>1. i # n + 1
        BY <1>3, <2>2
      <4> QED  BY <1>6, <4>1 DEF Reaches
    <3>4. Below(Held', i + 1) = Below(Held, i + 1)
      <4>1. i + 1 \in 0 .. Depth'
        BY <1>3, <1>10, <2>2
      <4> QED  BY <1>9, <4>1 DEF SameBelow
    <3>5. Below(Held, Reaches(i))' = Below(Held, Reaches(i))
      BY <3>2, <3>3, <3>4
    <3> HIDE DEF Held, Below, Reaches
    <3> QED  BY <3>1, <3>5 DEF NameKept
  <2> QED  BY <1>7, <2>1, <2>2
<1>17. AllTold'
  <2> SUFFICES ASSUME NEW i \in 1 .. n + 1, i < n + 1 PROVE ToldRight(i)'
    BY <1>6, <1>11 DEF AllTold
  <2>1. i \in 1..n
    BY <1>3
  <2>2. ToldRight(i) /\ tags'[i] = tags[i]
    BY <1>3, <1>4, <1>6, <2>1 DEF NamesKept, AllTold, n
  <2> QED  BY <1>3, <2>2 DEF ToldRight
<1>18. Pending'
  BY <1>2, <1>3, <1>6 DEF Pending
<1>19. NamesKept'
  BY <1>3, <1>16, <1>17, <1>18 DEF NamesKept, WorkName
<1> QED  BY <1>3, <1>12, <1>13, <1>14, <1>15, <1>19 DEF ContentInv, Typed

-----------------------------------------------------------------------------
(* Steps in a start tag that leave bindings and tags alone.                *)
Inside ==
  /\ error = "NONE" /\ call = "running" /\ StoringAtts
  /\ UNCHANGED <<ns, triplets, startLevel, processor, via, call, final, status, error, bound, cells, freeBindings,
                 inherited, tags, over>>
  /\ DOMAIN work' = WorkFields /\ work'.at \in {"attributes", "defaults", "expand", "element"}
  /\ work'.tag = work.tag /\ work'.empty = work.empty /\ work'.bindings = work.bindings

(* A step inside a start tag that leaves bindings and tags alone.          *)
LEMMA InsideStep ==
  ASSUME ContentInv, Inside, IsSeq(work'.atts), work'.i \in Nat \ {0}, TypedAtts', MarksKept'
  PROVE  ContentInv'
<1>1. /\ error = "NONE" /\ call = "running" /\ StoringAtts /\ StoringAtts'
      /\ ns' = ns /\ triplets' = triplets /\ startLevel' = startLevel /\ processor' = processor /\ via' = via
      /\ call' = call /\ final' = final /\ status' = status /\ error' = error /\ bound' = bound /\ cells' = cells
      /\ freeBindings' = freeBindings /\ inherited' = inherited /\ tags' = tags /\ over' = over
  BY DEF Inside, StoringAtts
<1>2. /\ DOMAIN work' = WorkFields /\ work'.at \in {"attributes", "defaults", "expand", "element"}
      /\ work'.tag = work.tag /\ work'.empty = work.empty /\ work'.bindings = work.bindings
      /\ work.at \in {"attributes", "defaults", "expand", "element"}
  BY DEF Inside, StoringAtts
<1>3. Typed /\ Control /\ RawKept /\ Bindings /\ NamesKept
  BY DEF ContentInv
<1>4. Handling' <=> Handling
  BY <1>1, <1>2 DEF Handling
<1>5. TypedFlow' /\ TypedTags' /\ TypedCells'
  BY <1>1, <1>3 DEF Typed, TypedFlow, TypedTags, TypedCells
<1>6. TypedWork'
  BY <1>1, <1>2, <1>3 DEF Typed, TypedWork, Places
<1>7. Control'
  BY <1>1, <1>2, <1>3, <1>4 DEF Control
<1>8. Bindings'
  BY <1>1, <1>2, <1>3, BindingsSame
<1>9. RawKept'
  BY <1>1, <1>2, <1>3, RawSame DEF RawKept
<1>10. Held' = Held /\ Depth' = Depth
  BY <1>1, <1>2, HeldSame
<1>11. AllKept'
  <2>1. AllKept
    BY <1>1, <1>3 DEF NamesKept
  <2>2. \A i : Reaches(i)' = Reaches(i)
    BY <1>1, <1>4, <1>10 DEF Reaches
  <2> HIDE DEF Held, Reaches
  <2> QED  BY <1>1, <1>10, <2>1, <2>2 DEF AllKept, NameKept
<1>12. AllTold'
  <2>1. AllTold
    BY <1>1, <1>3 DEF NamesKept
  <2> QED  BY <1>1, <1>4, <2>1 DEF AllTold, ToldRight
<1>13. Handling => Pending'
  <2>1. Handling => Pending
    BY <1>1, <1>3 DEF NamesKept
  <2> QED  BY <1>1, <1>2, <2>1 DEF Pending
<1>14. NamesKept'
  <2>1. WorkName'
    BY <1>2 DEF WorkName
  <2> QED  BY <1>4, <1>11, <1>12, <1>13, <2>1 DEF NamesKept
<1> QED  BY <1>5, <1>6, <1>7, <1>8, <1>9, <1>14 DEF ContentInv, Typed

(* A mark is put on.                                                       *)
LEMMA MarkedTyped ==
  ASSUME flags \in [AttNames -> 0..2], NEW name
  PROVE  Marked(name) \in [AttNames -> 0..2]
<1> DEFINE v == IF Prefixed(name) /\ ~Declares(name) THEN 2 ELSE 1
<1>1. v \in 0..2
  OBVIOUS
<1>2. Marked(name) = [flags EXCEPT ![name] = v]
  BY DEF Marked
<1> HIDE DEF v
<1> QED  BY <1>1, <1>2

(* An attribute is added to the list.                                      *)
LEMMA ListedStep ==
  ASSUME ContentInv, error = "NONE", call = "running", work.at \in {"attributes", "defaults"},
         NEW att, Listed(att, Marked(att.name)), UNCHANGED <<nsAtts, idIndex>>
  PROVE  ContentInv'
<1> DEFINE atts == Append(work.atts, att)
           left == IF Prefixed(att.name) THEN work.prefixed + 1 ELSE work.prefixed
           n == Len(work.atts)
<1>1. Typed /\ MarksKept
  BY DEF ContentInv
<1>2. work' = [work EXCEPT !.atts = atts, !.i = work.i + 1, !.prefixed = left] /\ flags' = Marked(att.name)
  BY DEF Listed
<1>3. DOMAIN work = WorkFields /\ IsSeq(work.atts) /\ work.i \in Nat \ {0} /\ n \in Nat
  BY <1>1, AnySeq DEF Typed, TypedWork
<1>4. IsSeq(atts) /\ Len(atts) = n + 1 /\ atts[n + 1] = att /\ \A i \in 1..n : atts[i] = work.atts[i]
  BY <1>3, AnyAppend
<1> HIDE DEF atts, left, n
<1>5. /\ DOMAIN work' = WorkFields /\ work'.at = work.at /\ work'.tag = work.tag /\ work'.empty = work.empty
      /\ work'.bindings = work.bindings /\ work'.atts = atts /\ work'.i = work.i + 1
  BY <1>2, <1>3 DEF WorkFields
<1>6. Inside
  BY <1>5 DEF Inside, Listed, NoHandler, StoringAtts, setup, callVars, bindingVars
<1>7. TypedAtts'
  <2>1. flags \in [AttNames -> 0..2]
    BY <1>1 DEF Typed, TypedAtts
  <2>2. flags' \in [AttNames -> 0..2]
    BY <1>2, <2>1, MarkedTyped
  <2> QED  BY <1>1, <2>2 DEF Typed, TypedAtts
<1>8. MarksKept'
  <2> SUFFICES ASSUME NEW name \in AttNames, flags'[name] # 0
               PROVE  \/ \E j \in From' .. Len(work'.atts) : work'.atts[j].name = name
                      \/ \E c \in ToSet(work'.bindings) : cells'[c].att = name
    BY <1>5 DEF MarksKept, StoringAtts
  <2>1. From' = 1 /\ From = 1
    BY <1>5 DEF From
  <2>2. CASE name = att.name
    <3>1. n + 1 \in 1 .. n + 1 /\ atts[n + 1].name = name
      BY <1>3, <1>4, <2>2
    <3> QED  BY <1>4, <1>5, <2>1, <3>1
  <2>3. CASE name # att.name
    <3>1. flags[name] # 0
      BY <1>2, <2>3 DEF Marked
    <3>2. (\E j \in 1..n : work.atts[j].name = name) \/ \E c \in ToSet(work.bindings) : cells[c].att = name
      BY <1>1, <2>1, <3>1 DEF MarksKept, n
    <3>3. CASE \E j \in 1..n : work.atts[j].name = name
      <4>1. PICK j \in 1..n : work.atts[j].name = name
        BY <3>3
      <4>2. j \in 1 .. n + 1 /\ atts[j].name = name
        BY <1>3, <1>4, <4>1
      <4> QED  BY <1>4, <1>5, <2>1, <4>2
    <3>4. CASE \E c \in ToSet(work.bindings) : cells[c].att = name
      BY <1>5, <1>6, <3>4 DEF Inside
    <3> QED  BY <3>2, <3>3, <3>4
  <2> QED  BY <2>2, <2>3
<1>9. work'.i \in Nat \ {0}
  BY <1>3, <1>5
<1> QED  BY <1>4, <1>5, <1>6, <1>7, <1>8, <1>9, InsideStep

(* Steps that go on with the next attribute, or the next list of them.     *)
LEMMA ForwardStep ==
  ASSUME ContentInv, Inside, work'.i \in Nat \ {0}, work'.atts = work.atts, work.at \in {"attributes", "defaults"},
         UNCHANGED flags, TypedAtts', work'.at \in {"expand", "element"} => work'.i = 1
  PROVE  ContentInv'
<1>1. From' = 1 /\ From = 1
  BY DEF From
<1>2. MarksKept
  BY DEF ContentInv
<1>3. StoringAtts' /\ error = "NONE" /\ cells' = cells /\ work'.bindings = work.bindings
  BY DEF Inside, StoringAtts
<1>4. MarksKept'
  BY <1>1, <1>2, <1>3 DEF MarksKept
<1>5. IsSeq(work'.atts)
  BY DEF ContentInv, Typed, TypedWork
<1> QED  BY <1>4, <1>5, InsideStep

(* A default that is not needed.                                           *)
LEMMA SkipStep ==
  ASSUME ContentInv, error = "NONE", call = "running", work.at = "defaults", Skip, UNCHANGED <<nsAtts, idIndex>>
  PROVE  ContentInv'
<1>1. work' = [work EXCEPT !.i = work.i + 1]
  BY DEF Skip
<1>2. DOMAIN work = WorkFields /\ work.i \in Nat \ {0}
  BY DEF ContentInv, Typed, TypedWork
<1>3. /\ DOMAIN work' = WorkFields /\ work'.at = work.at /\ work'.tag = work.tag /\ work'.empty = work.empty
      /\ work'.bindings = work.bindings /\ work'.atts = work.atts /\ work'.i \in Nat \ {0}
  BY <1>1, <1>2 DEF WorkFields
<1>4. Inside /\ UNCHANGED flags
  BY <1>3 DEF Inside, Skip, NoHandler, StoringAtts, setup, callVars, bindingVars
<1>5. TypedAtts'
  BY <1>4 DEF ContentInv, Typed, TypedAtts
<1> QED  BY <1>3, <1>4, <1>5, ForwardStep

(* All attributes of the tag have been seen.                               *)
LEMMA AttributesDoneStep ==
  ASSUME ContentInv, AttributesDone
  PROVE  ContentInv'
<1> DEFINE count == Len(work.atts)
           id == IdAttribute(work.tag.name)
           found == {i \in DOMAIN work.atts : work.atts[i].name = id}
<1>1. work' = [work EXCEPT !.at = "defaults", !.i = 1, !.count = count] /\ work.at = "attributes"
  BY DEF AttributesDone, At
<1>2. idIndex' = IF id = Null \/ flags[id] = 0 THEN -1
                 ELSE IF found # {} THEN CHOOSE i \in found : \A j \in found : i <= j
                 ELSE idIndex
  BY DEF AttributesDone
<1>3. Typed
  BY DEF ContentInv
<1>4. DOMAIN work = WorkFields /\ IsSeq(work.atts)
  BY <1>3 DEF Typed, TypedWork
<1>5. found \in SUBSET (Nat \ {0})
  BY <1>4, AnySeq
<1> HIDE DEF found, id, count
<1>6. idIndex' \in {-1} \cup (Nat \ {0})
  <2>1. CASE found # {}
    <3>1. found \in SUBSET Nat
      BY <1>5
    <3>2. \E n \in found : \A m \in found : n <= m
      BY <2>1, <3>1, Least
    <3>3. (CHOOSE i \in found : \A j \in found : i <= j) \in found
      BY <3>2
    <3> DEFINE e == CHOOSE i \in found : \A j \in found : i <= j
    <3>4. e \in Nat \ {0}
      BY <1>5, <3>3
    <3>5. idIndex' = -1 \/ idIndex' = e
      BY <1>2, <2>1
    <3> HIDE DEF e
    <3> QED  BY <3>4, <3>5
  <2>2. CASE found = {}
    <3>1. idIndex' = -1 \/ idIndex' = idIndex
      BY <1>2, <2>2
    <3>2. idIndex \in {-1} \cup (Nat \ {0})
      BY <1>3 DEF Typed, TypedAtts
    <3> QED  BY <3>1, <3>2
  <2> QED  BY <2>1, <2>2
<1>7. /\ DOMAIN work' = WorkFields /\ work'.at = "defaults" /\ work'.tag = work.tag /\ work'.empty = work.empty
      /\ work'.bindings = work.bindings /\ work'.atts = work.atts /\ work'.i = 1
  BY <1>1, <1>4 DEF WorkFields
<1>8. Inside /\ UNCHANGED <<flags, nsAtts>>
  BY <1>1, <1>7 DEF Inside, AttributesDone, At, NoHandler, StoringAtts, setup, callVars, bindingVars
<1>9. TypedAtts'
  BY <1>3, <1>6, <1>8 DEF Typed, TypedAtts
<1> QED  BY <1>1, <1>7, <1>8, <1>9, ForwardStep

(* The table of expanded names.                                            *)
LEMMA NewTableTyped ==
  ASSUME nsAtts.version \in 0 .. InitAttsVersion - 1, NEW n
  PROVE  DOMAIN NewTable(n) = {"version", "power", "table"} /\ NewTable(n).version \in 0 .. InitAttsVersion - 1
<1> DEFINE version == IF (2 * n >= 2 ^ nsAtts.power) \/ nsAtts.version = 0 THEN InitAttsVersion ELSE nsAtts.version
<1>1. DOMAIN NewTable(n) = {"version", "power", "table"} /\ NewTable(n).version = version - 1
  BY DEF NewTable
<1>2. version = InitAttsVersion \/ (version = nsAtts.version /\ nsAtts.version # 0)
  OBVIOUS
<1>3. InitAttsVersion \in Nat \ {0}
  BY ContentAssumption
<1> HIDE DEF version
<1>4. version - 1 \in 0 .. InitAttsVersion - 1
  BY <1>2, <1>3
<1> QED  BY <1>1, <1>4

(* All defaults have been seen.                                            *)
LEMMA DefaultsDoneStep ==
  ASSUME ContentInv, DefaultsDone
  PROVE  ContentInv'
<1> DEFINE at == IF work.prefixed > 0 THEN "expand" ELSE "element"
<1>1. /\ work' = [work EXCEPT !.at = at, !.i = 1] /\ work.at = "defaults" /\ at \in {"expand", "element"}
      /\ nsAtts' = nsAtts \/ nsAtts' = NewTable(work.prefixed)
  BY DEF DefaultsDone, At
<1>2. Typed
  BY DEF ContentInv
<1>3. DOMAIN work = WorkFields
  BY <1>2 DEF Typed, TypedWork
<1> HIDE DEF at
<1>4. /\ DOMAIN work' = WorkFields /\ work'.at \in {"expand", "element"} /\ work'.tag = work.tag
      /\ work'.empty = work.empty /\ work'.bindings = work.bindings /\ work'.atts = work.atts /\ work'.i = 1
  BY <1>1, <1>3 DEF WorkFields
<1>5. Inside /\ UNCHANGED <<flags, idIndex>>
  BY <1>1, <1>4 DEF Inside, DefaultsDone, At, NoHandler, StoringAtts, setup, callVars, bindingVars
<1>6. DOMAIN nsAtts' = {"version", "power", "table"} /\ nsAtts'.version \in 0 .. InitAttsVersion - 1
  <2>1. DOMAIN nsAtts = {"version", "power", "table"} /\ nsAtts.version \in 0 .. InitAttsVersion - 1
    BY <1>2 DEF Typed, TypedAtts
  <2>2. CASE nsAtts' = nsAtts
    BY <2>1, <2>2
  <2>3. CASE nsAtts' = NewTable(work.prefixed)
    BY <2>1, <2>3, NewTableTyped
  <2> QED  BY <1>1, <2>2, <2>3
<1>7. TypedAtts'
  BY <1>2, <1>5, <1>6 DEF Typed, TypedAtts
<1> QED  BY <1>1, <1>4, <1>5, <1>7, ForwardStep

(* A name is expanded, or left as it is: its mark is off then.             *)
LEMMA ExpandStep ==
  ASSUME ContentInv, Expand
  PROVE  ContentInv'
<1> DEFINE n == Len(work.atts)
           k == work.i
           name == work.atts[k].name
<1>1. work.at = "expand" /\ error = "NONE" /\ call = "running" /\ flags' = [flags EXCEPT ![name] = 0] /\ idIndex' = idIndex
  BY DEF Expand, At
<1>2. Typed /\ MarksKept
  BY DEF ContentInv
<1>3. DOMAIN work = WorkFields /\ IsSeq(work.atts) /\ k \in Nat \ {0} /\ n \in Nat /\ DOMAIN work.atts = 1..n
  BY <1>2, AnySeq DEF Typed, TypedWork
<1>4. PICK shown, left, at, more, code :
        /\ at \in {"expand", "element"} /\ code # "NONE"
        /\ \/ /\ work' = [work EXCEPT !.i = @ + 1] /\ nsAtts' = nsAtts
           \/ FailInTag(code) /\ nsAtts' = nsAtts
           \/ /\ nsAtts' = [nsAtts EXCEPT !.table = more]
              /\ work' = [work EXCEPT !.atts[work.i].name = shown, !.i = @ + 1, !.prefixed = left, !.at = at]
        /\ FailInTag(code) \/ UNCHANGED <<setup, processor, callVars, error, bindingVars, tags, freeTags, over, status>>
  <2> DEFINE b    == bound[name[1]]
             full == <<cells[b].uri, name[2]>>
             seen == \E entry \in nsAtts.table : entry.version = nsAtts.version /\ entry.name = full
             left == work.prefixed - 1
             shown == IF triplets THEN Append(full, cells[b].prefix) ELSE full
             at == IF left = 0 THEN "element" ELSE "expand"
             more == nsAtts.table \cup {[version |-> nsAtts.version, name |-> full]}
             code == IF b = 0 THEN "UNBOUND_PREFIX" ELSE "DUPLICATE_ATTRIBUTE"
  <2>1. /\ \/ /\ work' = [work EXCEPT !.i = @ + 1] /\ nsAtts' = nsAtts
           \/ FailInTag(code) /\ nsAtts' = nsAtts
           \/ /\ nsAtts' = [nsAtts EXCEPT !.table = more]
              /\ work' = [work EXCEPT !.atts[work.i].name = shown, !.i = @ + 1, !.prefixed = left, !.at = at]
        /\ FailInTag(code) \/ UNCHANGED <<setup, processor, callVars, error, bindingVars, tags, freeTags, over, status>>
    BY DEF Expand, NoHandler
  <2>2. at \in {"expand", "element"} /\ code # "NONE"
    OBVIOUS
  <2> HIDE DEF full, seen, left, shown, at, more, code
  <2> QED  BY <2>1, <2>2
<1> HIDE DEF n, name
<1>5. TypedAtts'
  <2>1. flags \in [AttNames -> 0..2] /\ DOMAIN nsAtts = {"version", "power", "table"}
        /\ nsAtts.version \in 0 .. InitAttsVersion - 1 /\ idIndex \in {-1} \cup (Nat \ {0})
    BY <1>2 DEF Typed, TypedAtts
  <2>2. flags' \in [AttNames -> 0..2]
    <3>1. 0 \in 0..2
      OBVIOUS
    <3> QED  BY <1>1, <2>1, <3>1
  <2>3. DOMAIN nsAtts' = {"version", "power", "table"} /\ nsAtts'.version = nsAtts.version
    BY <1>4, <2>1
  <2> QED  BY <1>1, <2>1, <2>2, <2>3 DEF TypedAtts
<1>6. CASE FailInTag(code)
  BY <1>1, <1>4, <1>5, <1>6, FailedInTag DEF StoringAtts
<1>7. CASE ~FailInTag(code)
  <2> DEFINE atts == [work.atts EXCEPT ![k] = [work.atts[k] EXCEPT !.name = shown]]
  <2>1. \/ work' = [work EXCEPT !.i = k + 1]
        \/ work' = [work EXCEPT !.atts = atts, !.i = k + 1, !.prefixed = left, !.at = at]
    BY <1>4, <1>7
  <2>2. IsSeq(atts) /\ Len(atts) = n /\ \A j \in 1..n : j # k => atts[j] = work.atts[j]
    <3>1. DOMAIN atts = DOMAIN work.atts /\ atts = [i \in DOMAIN work.atts |-> atts[i]]
      OBVIOUS
    <3>2. \A j \in 1..n : j # k => atts[j] = work.atts[j]
      BY <1>3
    <3> HIDE DEF atts
    <3>3. IsSeq(atts) /\ Len(atts) = Len(work.atts)
      BY <1>3, <3>1, AnyExcept
    <3> QED  BY <3>2, <3>3 DEF n
  <2> HIDE DEF atts, k
  <2>3. /\ DOMAIN work' = WorkFields /\ work'.at \in {"expand", "element"} /\ work'.tag = work.tag
        /\ work'.empty = work.empty /\ work'.bindings = work.bindings /\ work'.i = k + 1
        /\ work'.atts = work.atts \/ work'.atts = atts
    <3>1. CASE work' = [work EXCEPT !.i = k + 1]
      BY <1>1, <1>3, <3>1 DEF WorkFields
    <3>2. CASE work' = [work EXCEPT !.atts = atts, !.i = k + 1, !.prefixed = left, !.at = at]
      BY <1>3, <1>4, <3>2 DEF WorkFields
    <3> QED  BY <2>1, <3>1, <3>2
  <2>4. Inside
    BY <1>1, <1>4, <1>7, <2>3 DEF Inside, StoringAtts, setup, callVars, bindingVars
  <2>5. IsSeq(work'.atts) /\ Len(work'.atts) = n /\ (\A j \in 1..n : j # k => work'.atts[j] = work.atts[j])
    BY <1>3, <2>2, <2>3 DEF n
  <2>6. MarksKept'
    <3> SUFFICES ASSUME NEW x \in AttNames, flags'[x] # 0
                 PROVE  \/ \E j \in From' .. Len(work'.atts) : work'.atts[j].name = x
                        \/ \E c \in ToSet(work'.bindings) : cells'[c].att = x
      BY <2>3 DEF MarksKept, StoringAtts
    <3>1. From' = k + 1 /\ From = k
      BY <1>1, <2>3 DEF From, k
    <3>2. flags[x] # 0 /\ x # name
      BY <1>1, <1>2 DEF Typed, TypedAtts
    <3>3. (\E j \in k..n : work.atts[j].name = x) \/ \E c \in ToSet(work.bindings) : cells[c].att = x
      BY <1>1, <1>2, <3>1, <3>2 DEF MarksKept, n
    <3>4. CASE \E j \in k..n : work.atts[j].name = x
      <4>1. PICK j \in k..n : work.atts[j].name = x
        BY <3>4
      <4>2. j # k
        BY <3>2, <4>1 DEF name, k
      <4>3. j \in 1..n /\ j \in k + 1 .. n
        BY <1>3, <4>1, <4>2 DEF k
      <4>4. work'.atts[j].name = x
        BY <2>5, <4>1, <4>2, <4>3
      <4> QED  BY <2>5, <3>1, <4>3, <4>4
    <3>5. CASE \E c \in ToSet(work.bindings) : cells[c].att = x
      BY <2>3, <2>4, <3>5 DEF Inside
    <3> QED  BY <3>3, <3>4, <3>5
  <2>7. work'.i \in Nat \ {0}
    BY <1>3, <2>3 DEF k
  <2> QED  BY <1>5, <2>4, <2>5, <2>6, <2>7, InsideStep
<1> QED  BY <1>6, <1>7

-----------------------------------------------------------------------------
(* The name of an element.                                                 *)
LEMMA ClearedFacts ==
  ASSUME ContentInv, error = "NONE", work.at = "element"
  PROVE  Cleared \in [AttNames -> 0..2] /\ \A name \in AttNames : Cleared[name] = 0
<1> DEFINE off == {work.atts[i].name : i \in work.i .. Len(work.atts)} \cup {cells[c].att : c \in ToSet(work.bindings)}
<1>1. Cleared = [name \in AttNames |-> IF name \in off THEN 0 ELSE flags[name]]
  BY DEF Cleared
<1>2. ASSUME NEW name \in AttNames PROVE name \in off \/ flags[name] = 0
  <2> SUFFICES ASSUME flags[name] # 0 PROVE name \in off
    OBVIOUS
  <2>1. From = work.i
    BY DEF From
  <2>2. \/ \E j \in work.i .. Len(work.atts) : work.atts[j].name = name
        \/ \E c \in ToSet(work.bindings) : cells[c].att = name
    BY <2>1 DEF ContentInv, MarksKept
  <2> QED  BY <2>2
<1> HIDE DEF off
<1>3. \A name \in AttNames : Cleared[name] = 0
  BY <1>1, <1>2
<1>4. \A name \in AttNames : Cleared[name] \in 0..2
  BY <1>3
<1> QED  BY <1>1, <1>3, <1>4

(* What all outcomes but an error have in common.                          *)
Named ==
  /\ error = "NONE" /\ call = "running" /\ work.at = "element"
  /\ UNCHANGED <<ns, triplets, startLevel, processor, via, call, final, status, error, bound, freeBindings,
                 inherited, nsAtts, idIndex, over>>
  /\ flags' = Cleared
  /\ DOMAIN work' = WorkFields /\ work'.at = "start" /\ work'.tag = work.tag /\ work'.empty = work.empty
  /\ work'.bindings = work.bindings /\ work'.atts = work.atts /\ work'.i = work.i

(* What all outcomes keep of the invariant.                                *)
LEMMA NamedStep ==
  ASSUME ContentInv, Named, work'.str \in Place, Len(tags') = Len(tags), tags # <<>> => tags' # <<>>
  PROVE  /\ TypedFlow' /\ TypedAtts' /\ TypedWork' /\ Control' /\ MarksKept'
         /\ (Handling' <=> Handling)
<1>1. /\ error = "NONE" /\ call = "running" /\ work.at = "element"
      /\ ns' = ns /\ triplets' = triplets /\ startLevel' = startLevel /\ processor' = processor /\ via' = via
      /\ call' = call /\ final' = final /\ status' = status /\ error' = error /\ nsAtts' = nsAtts /\ idIndex' = idIndex
      /\ over' = over /\ flags' = Cleared
  BY DEF Named
<1>2. /\ DOMAIN work' = WorkFields /\ work'.at = "start" /\ work'.tag = work.tag /\ work'.empty = work.empty
      /\ work'.bindings = work.bindings /\ work'.atts = work.atts /\ work'.i = work.i
  BY DEF Named
<1>3. Typed /\ Control
  BY DEF ContentInv
<1>4. Cleared \in [AttNames -> 0..2] /\ \A name \in AttNames : Cleared[name] = 0
  BY <1>1, ClearedFacts
<1>5. Handling' <=> Handling
  BY <1>1, <1>2 DEF Handling, StoringAtts
<1>6. TypedFlow'
  BY <1>1, <1>3 DEF Typed, TypedFlow
<1>7. TypedAtts'
  BY <1>1, <1>3, <1>4 DEF Typed, TypedAtts
<1>8. TypedWork'
  <2>1. work.tag \in StartTags /\ IsSeq(work.atts) /\ work.i \in Nat \ {0} /\ work.empty \in BOOLEAN
    BY <1>1, <1>3 DEF Typed, TypedWork, StoringAtts
  <2> QED  BY <1>2, <2>1 DEF TypedWork, Places
<1>9. Control'
  BY <1>1, <1>2, <1>3, <1>5 DEF Control
<1>10. MarksKept'
  BY <1>1, <1>4 DEF MarksKept
<1> QED  BY <1>5, <1>6, <1>7, <1>8, <1>9, <1>10

(* A name without a namespace.                                             *)
LEMMA NamedOwn ==
  ASSUME ContentInv, Named, UNCHANGED <<tags, cells>>, work'.str = OwnName
  PROVE  ContentInv'
<1>1. Typed /\ Control /\ RawKept /\ Bindings /\ NamesKept
  BY DEF ContentInv
<1>2. /\ error = "NONE" /\ call = "running" /\ work.at = "element" /\ triplets' = triplets
      /\ processor' = processor /\ via' = via /\ call' = call /\ error' = error /\ bound' = bound
      /\ freeBindings' = freeBindings /\ inherited' = inherited /\ tags' = tags /\ cells' = cells
      /\ work'.at = "start" /\ work'.tag = work.tag /\ work'.bindings = work.bindings /\ work'.empty = work.empty
  BY DEF Named
<1>3. OwnName.cell = 0 /\ OwnName \in Place
  <2> DEFINE gen == IF work.empty THEN 0 ELSE Last(tags).gen
  <2>1. OwnName = [cell |-> 0, gen |-> gen]
    BY DEF OwnName
  <2>2. gen \in Nat
    <3>1. CASE work.empty
      BY <3>1
    <3>2. CASE ~work.empty
      <4>1. tags # <<>> /\ IsSeq(tags)
        BY <1>1, <1>2, <3>2 DEF Control, Handling, StoringAtts, Typed, TypedTags
      <4>2. Len(tags) \in Nat \ {0} /\ Last(tags) = tags[Len(tags)]
        BY <4>1, AnyFront
      <4>3. IsTag(tags[Len(tags)])
        BY <1>1, <4>2 DEF Typed, TypedTags
      <4> QED  BY <3>2, <4>2, <4>3 DEF IsTag
    <3> QED  BY <3>1, <3>2
  <2> HIDE DEF gen
  <2> QED  BY <2>1, <2>2 DEF Place
<1>4. /\ TypedFlow' /\ TypedAtts' /\ TypedWork' /\ Control' /\ MarksKept'
      /\ (Handling' <=> Handling)
  BY <1>2, <1>3, NamedStep
<1>5. TypedTags' /\ TypedCells'
  BY <1>1, <1>2 DEF Typed, TypedTags, TypedCells
<1>6. Bindings'
  BY <1>1, <1>2, BindingsSame
<1>7. RawKept'
  BY <1>1, <1>2, RawSame DEF RawKept
<1>8. Held' = Held /\ Depth' = Depth
  BY <1>2, HeldSame
<1>9. AllKept'
  <2>1. AllKept
    BY <1>1, <1>2 DEF NamesKept
  <2>2. \A i : Reaches(i)' = Reaches(i)
    BY <1>2, <1>4, <1>8 DEF Reaches
  <2> HIDE DEF Held, Reaches
  <2> QED  BY <1>2, <1>8, <2>1, <2>2 DEF AllKept, NameKept
<1>10. AllTold'
  <2>1. AllTold
    BY <1>1, <1>2 DEF NamesKept
  <2> QED  BY <1>2, <1>4, <2>1 DEF AllTold, ToldRight
<1>11. Handling => Pending'
  <2>1. Handling => Pending
    BY <1>1, <1>2 DEF NamesKept
  <2> QED  BY <1>2, <1>3, <2>1 DEF Pending
<1>12. NamesKept'
  <2>1. WorkName'
    BY <1>3 DEF WorkName
  <2> QED  BY <1>4, <1>9, <1>10, <1>11, <2>1 DEF NamesKept
<1> QED  BY <1>4, <1>5, <1>6, <1>7, <1>12 DEF ContentInv, Typed

(* A name is written into the buffer of a binding.                         *)
Refilled(all, all2, c, gen, tail) ==
  /\ IsSeq(all2) /\ Len(all2) = Len(all) /\ IsCell(all2[c])
  /\ \A x \in 1 .. Len(all) : x # c => all2[x] = all[x]
  /\ all2[c].gen = gen /\ all2[c].tail = tail
  /\ all2[c].prefix = all[c].prefix /\ all2[c].uri = all[c].uri /\ all2[c].prev = all[c].prev /\ all2[c].att = all[c].att

(* Another name in the buffer of a binding.                                *)
LEMMA Refill ==
  ASSUME NEW all, IsSeq(all), NEW c \in 1 .. Len(all), IsCell(all[c]), NEW gen \in Nat, NEW tail, NEW alloc
  PROVE  Refilled(all, [all EXCEPT ![c] = [all[c] EXCEPT !.gen = gen, !.tail = tail, !.alloc = alloc]], c, gen, tail)
<1> DEFINE d == [all[c] EXCEPT !.gen = gen, !.tail = tail, !.alloc = alloc]
           all2 == [all EXCEPT ![c] = d]
<1>1. DOMAIN all[c] = CellFields /\ all[c].prefix \in NsPrefixes
  BY DEF IsCell
<1>2. /\ DOMAIN d = CellFields /\ d.gen = gen /\ d.tail = tail
      /\ d.prefix = all[c].prefix /\ d.uri = all[c].uri /\ d.prev = all[c].prev /\ d.att = all[c].att
  BY <1>1 DEF CellFields
<1> HIDE DEF d
<1>3. IsCell(d)
  BY <1>1, <1>2 DEF IsCell
<1>4. DOMAIN all = 1 .. Len(all) /\ Len(all) \in Nat
  BY AnySeq
<1>5. all2[c] = d /\ \A x \in 1 .. Len(all) : x # c => all2[x] = all[x]
  BY <1>4
<1>6. DOMAIN all2 = DOMAIN all /\ all2 = [i \in DOMAIN all |-> all2[i]]
  OBVIOUS
<1> HIDE DEF all2
<1>7. IsSeq(all2) /\ Len(all2) = Len(all)
  BY <1>6, AnyExcept
<1>8. Refilled(all, all2, c, gen, tail)
  BY <1>2, <1>3, <1>5, <1>7 DEF Refilled
<1> QED  BY <1>8 DEF all2, d

(* What the chains and the calls look at stays.                            *)
LEMMA RefillKeeps ==
  ASSUME NEW all, NEW all2, NEW c, NEW gen, NEW tail, IsSeq(all), c \in 1 .. Len(all), Refilled(all, all2, c, gen, tail)
  PROVE  /\ Prefix(all2) = Prefix(all) /\ Prev(all2) = Prev(all)
         /\ \A x \in 1 .. Len(all) : all2[x].uri = all[x].uri /\ all2[x].att = all[x].att /\ all2[x].prefix = all[x].prefix
<1>1. \A x \in 1 .. Len(all) : /\ all2[x].uri = all[x].uri /\ all2[x].att = all[x].att
                               /\ all2[x].prefix = all[x].prefix /\ all2[x].prev = all[x].prev
  <2> SUFFICES ASSUME NEW x \in 1 .. Len(all)
               PROVE /\ all2[x].uri = all[x].uri /\ all2[x].att = all[x].att
                     /\ all2[x].prefix = all[x].prefix /\ all2[x].prev = all[x].prev
    OBVIOUS
  <2>1. CASE x = c
    BY <2>1 DEF Refilled
  <2>2. CASE x # c
    BY <2>2 DEF Refilled
  <2> QED  BY <2>1, <2>2
<1>2. Len(all2) = Len(all)
  BY DEF Refilled
<1>3. Prefix(all2) = Prefix(all)
  BY <1>1, <1>2 DEF Prefix
<1>4. Prev(all2) = Prev(all)
  BY <1>1, <1>2 DEF Prev
<1> QED  BY <1>1, <1>3, <1>4

(* The cells keep their types.                                             *)
LEMMA TypedRefilled ==
  ASSUME TypedCells, NEW c, c \in 1 .. Len(cells), NEW gen, NEW tail, Refilled(cells, cells', c, gen, tail), UNCHANGED bound
  PROVE  TypedCells'
<1>1. IsSeq(cells') /\ Len(cells') = Len(cells)
  BY DEF Refilled
<1>2. \A x \in 1 .. Len(cells) : IsCell(cells'[x])
  BY DEF Refilled, TypedCells
<1> QED  BY <1>1, <1>2 DEF TypedCells

(* Tags whose names are in the buffer go with it.                          *)
Follows(t, u, cell, gen) ==
  /\ IsTag(u) /\ u.name = t.name /\ u.prefix = t.prefix /\ u.bindings = t.bindings /\ u.told = t.told
  /\ u.raw = t.raw /\ u.gen = t.gen /\ u.local = t.local
  /\ u.str.cell = t.str.cell
  /\ u.str.gen = IF u.str.cell = cell THEN gen ELSE t.str.gen

(* A tag that is redirected follows the buffer.                            *)
LEMMA RedirectedFollows ==
  ASSUME NEW all, NEW cell, NEW old, NEW gen, gen \in Nat, NEW i \in DOMAIN all, IsTag(all[i]),
         all[i].str.cell = cell => all[i].str.gen = old
  PROVE  Follows(all[i], Redirected(cell, old, gen, all)[i], cell, gen)
<1> DEFINE t == all[i]
           str == [t.str EXCEPT !.gen = gen]
           u == [t EXCEPT !.str = str]
           here == t.str = [cell |-> cell, gen |-> old]
<1>1. Redirected(cell, old, gen, all)[i] = IF here THEN u ELSE t
  BY DEF Redirected
<1>2. DOMAIN t = TagFields /\ t.str \in Place
  BY DEF IsTag
<1>3. t.str = [cell |-> t.str.cell, gen |-> t.str.gen] /\ t.str.cell \in Nat
  BY <1>2 DEF Place
<1>4. here <=> t.str.cell = cell
  BY <1>3
<1>5. str \in Place /\ str.cell = t.str.cell /\ str.gen = gen
  BY <1>3 DEF Place
<1> HIDE DEF str, here
<1>6. /\ DOMAIN u = TagFields /\ u.str = str /\ u.name = t.name /\ u.prefix = t.prefix /\ u.bindings = t.bindings
      /\ u.told = t.told /\ u.raw = t.raw /\ u.gen = t.gen /\ u.local = t.local
  BY <1>2 DEF TagFields
<1> HIDE DEF u
<1>7. CASE here
  <2>1. IsTag(u)
    BY <1>5, <1>6 DEF IsTag, t
  <2> QED  BY <1>1, <1>4, <1>5, <1>6, <1>7, <2>1 DEF Follows
<1>8. CASE ~here
  BY <1>1, <1>4, <1>8 DEF Follows
<1> QED  BY <1>7, <1>8

(* What a name that goes into the buffer of a binding changes.             *)
Placed(cell, gen, tail, moved, str) ==
  /\ str = [cell |-> cell, gen |-> gen]
  /\ tail = NameEnd(work.tag.name, cells[cell].prefix, triplets)
  /\ gen \in {cells[cell].gen, cells[cell].gen + 1}
  /\ (moved = tags /\ gen = cells[cell].gen) \/ moved = Redirected(cell, cells[cell].gen, gen, tags)
  /\ \E alloc : cells' = [cells EXCEPT ![cell] = [cells[cell] EXCEPT !.gen = gen, !.tail = tail, !.alloc = alloc]]
  /\ work' = [work EXCEPT !.at = "start", !.str = str]
  /\ tags' = IF work.empty THEN moved
             ELSE [moved EXCEPT ![Len(tags)] = [moved[Len(tags)] EXCEPT !.str = str, !.local = Last(tags).gen,
                                                                        !.prefix = cells[cell].prefix]]

(* What the code of an expanded name does, in these terms.                 *)
LEMMA ExpandedPlaces ==
  ASSUME Typed, NEW cell \in 1 .. Len(cells), Expanded(cell), ~work.empty => tags # <<>>
  PROVE  \E gen, tail, moved, str : Placed(cell, gen, tail, moved, str)
<1> DEFINE old    == cells[cell]
           prefix == old.prefix
           tail   == IF triplets /\ prefix # "" THEN <<work.tag.name[2], prefix>> ELSE <<work.tag.name[2]>>
           need   == Width(old.uri) + Width(work.tag.name[2]) + 1 + IF Len(tail) = 2 THEN Width(prefix) + 1 ELSE 0
           grows  == need > old.alloc
           gen    == IF grows THEN old.gen + 1 ELSE old.gen
           str    == [cell |-> cell, gen |-> gen]
           alloc  == IF grows THEN need + Spare ELSE old.alloc
           moved  == IF grows THEN Redirected(cell, old.gen, gen, tags) ELSE tags
           n      == Len(tags)
           two    == [cells EXCEPT ![cell].gen = gen, ![cell].tail = tail]
           top    == [moved EXCEPT ![n].str = str, ![n].local = Last(tags).gen, ![n].prefix = prefix]
<1>1. /\ cells' = [cells EXCEPT ![cell].gen = gen, ![cell].tail = tail, ![cell].alloc = IF grows THEN need + Spare ELSE @]
      /\ work' = [work EXCEPT !.at = "start", !.str = str]
      /\ tags' = IF work.empty THEN moved ELSE top
  BY DEF Expanded
<1>2. IsSeq(cells) /\ DOMAIN cells = 1 .. Len(cells) /\ IsCell(old)
  BY AnySeq DEF Typed, TypedCells
<1>3. tail = NameEnd(work.tag.name, prefix, triplets)
  BY DEF NameEnd
<1>4. gen = old.gen \/ gen = old.gen + 1
  OBVIOUS
<1>5. (moved = tags /\ gen = old.gen) \/ moved = Redirected(cell, old.gen, gen, tags)
  OBVIOUS
<1>6. DOMAIN moved = DOMAIN tags
  BY DEF Redirected
<1> HIDE DEF tail, grows, gen, moved, need, str
<1>7. cells' = [cells EXCEPT ![cell] = [old EXCEPT !.gen = gen, !.tail = tail, !.alloc = alloc]]
  <2>1. DOMAIN old = CellFields
    BY <1>2 DEF IsCell
  <2> HIDE DEF old
  <2> QED  BY <1>1, <1>2, <2>1 DEF old, CellFields
<1>8. ~work.empty => top = [moved EXCEPT ![n] = [moved[n] EXCEPT !.str = str, !.local = Last(tags).gen, !.prefix = prefix]]
  <2> SUFFICES ASSUME ~work.empty
               PROVE top = [moved EXCEPT ![n] = [moved[n] EXCEPT !.str = str, !.local = Last(tags).gen, !.prefix = prefix]]
    OBVIOUS
  <2>1. n \in DOMAIN moved
    <3>1. IsSeq(tags) /\ tags # <<>>
      BY DEF Typed, TypedTags
    <3>2. n \in Nat \ {0} /\ DOMAIN tags = 1..n
      BY <3>1, AnySeq, AnyFront
    <3> QED  BY <1>6, <3>2
  <2> HIDE DEF n, prefix
  <2> QED  BY <2>1
<1> HIDE DEF top
<1>9. tags' = IF work.empty THEN moved
             ELSE [moved EXCEPT ![n] = [moved[n] EXCEPT !.str = str, !.local = Last(tags).gen, !.prefix = prefix]]
  BY <1>1, <1>8
<1>10. Placed(cell, gen, tail, moved, str)
  BY <1>1, <1>3, <1>4, <1>5, <1>7, <1>9 DEF Placed, str
<1> QED  BY <1>10

TopNamed(t, u, cell, gen, prefix) ==
  /\ IsTag(u) /\ u.name = t.name /\ u.bindings = t.bindings /\ u.told = t.told /\ u.raw = t.raw /\ u.gen = t.gen
  /\ u.str.cell = cell /\ u.str.gen = gen /\ u.local = u.gen /\ u.prefix = prefix
TagsPlaced(cell, gen) ==
  /\ IsSeq(tags') /\ Len(tags') = Len(tags)
  /\ \A i \in 1 .. Len(tags) : (i = Len(tags) /\ ~work.empty) \/ Follows(tags[i], tags'[i], cell, gen)
  /\ ~work.empty => TopNamed(tags[Len(tags)], tags'[Len(tags)], cell, gen, work.tag.name[1])

(* Every tag follows the buffer, and the innermost one gets its name.      *)
LEMMA PlacedTags ==
  ASSUME ContentInv, error = "NONE", work.at = "element", NEW cell \in 1 .. Len(cells),
         cells[cell].prefix = work.tag.name[1],
         NEW gen, NEW tail, NEW moved, NEW str, Placed(cell, gen, tail, moved, str)
  PROVE  TagsPlaced(cell, gen)
<1> DEFINE n == Len(tags)
<1>1. Typed /\ Control /\ NamesKept
  BY DEF ContentInv
<1>2. IsSeq(tags) /\ n \in Nat /\ DOMAIN tags = 1..n /\ \A i \in 1..n : IsTag(tags[i])
  BY <1>1, AnySeq DEF Typed, TypedTags
<1>3. IsCell(cells[cell]) /\ gen \in Nat
  <2>1. IsCell(cells[cell])
    BY <1>1 DEF Typed, TypedCells
  <2>2. cells[cell].gen \in Nat
    BY <2>1 DEF IsCell
  <2> QED  BY <2>1, <2>2 DEF Placed
<1>4. \A i \in 1..n : tags[i].str.cell = cell => tags[i].str.gen = cells[cell].gen
  <2>1. \A i \in 1..n : NameKept(i)
    BY <1>1 DEF NamesKept, AllKept
  <2>2. cell # 0
    OBVIOUS
  <2> QED  BY <2>1, <2>2 DEF NameKept
<1>5. \A i \in 1..n : Follows(tags[i], moved[i], cell, gen)
  <2> SUFFICES ASSUME NEW i \in 1..n PROVE Follows(tags[i], moved[i], cell, gen)
    OBVIOUS
  <2>1. CASE moved = tags /\ gen = cells[cell].gen
    BY <1>2, <1>4, <2>1 DEF Follows
  <2>2. CASE moved = Redirected(cell, cells[cell].gen, gen, tags)
    BY <1>2, <1>3, <1>4, <2>2, RedirectedFollows
  <2> QED  BY <2>1, <2>2 DEF Placed
<1>6. IsSeq(moved) /\ Len(moved) = n
  <2>1. CASE moved = tags
    BY <1>2, <2>1
  <2>2. CASE moved = Redirected(cell, cells[cell].gen, gen, tags)
    <3>1. DOMAIN moved = DOMAIN tags /\ moved = [i \in DOMAIN tags |-> moved[i]]
      BY <2>2 DEF Redirected
    <3> QED  BY <1>2, <3>1, AnyExcept
  <2> QED  BY <2>1, <2>2 DEF Placed
<1>7. CASE work.empty
  <2>1. tags' = moved
    BY <1>7 DEF Placed
  <2> QED  BY <1>5, <1>6, <1>7, <2>1 DEF TagsPlaced
<1>8. CASE ~work.empty
  <2> DEFINE t == moved[n]
             u == [t EXCEPT !.str = str, !.local = Last(tags).gen, !.prefix = cells[cell].prefix]
  <2>1. tags' = [moved EXCEPT ![n] = u]
    BY <1>8 DEF Placed
  <2>2. tags # <<>>
    BY <1>1, <1>8 DEF Control, Handling, StoringAtts
  <2>3. n \in Nat \ {0} /\ Last(tags) = tags[n] /\ n \in 1..n
    BY <1>2, <2>2, AnyFront
  <2>4. Follows(tags[n], t, cell, gen)
    BY <1>5, <2>3
  <2>5. /\ DOMAIN t = TagFields /\ t.name \in Names /\ t.gen \in Nat /\ t.name = tags[n].name
        /\ t.bindings = tags[n].bindings /\ t.told = tags[n].told /\ t.raw = tags[n].raw /\ t.gen = tags[n].gen
    BY <2>4 DEF Follows, IsTag
  <2>6. str \in Place /\ str.cell = cell /\ str.gen = gen
    <3>1. cell \in Nat
      OBVIOUS
    <3> QED  BY <1>3, <3>1 DEF Placed, Place
  <2> HIDE DEF t
  <2>7. /\ DOMAIN u = TagFields /\ u.str = str /\ u.local = Last(tags).gen /\ u.prefix = cells[cell].prefix
        /\ u.name = t.name /\ u.gen = t.gen /\ u.bindings = t.bindings /\ u.told = t.told /\ u.raw = t.raw
    BY <2>5 DEF TagFields
  <2> HIDE DEF u
  <2>8. u.local = u.gen
    BY <2>3, <2>5, <2>7
  <2>9. u.prefix \in NsPrefixes
    BY <1>3, <2>7 DEF IsCell
  <2>10. IsTag(u)
    BY <2>5, <2>6, <2>7, <2>8, <2>9 DEF IsTag
  <2>11. TopNamed(tags[n], u, cell, gen, work.tag.name[1])
    BY <2>5, <2>6, <2>7, <2>8, <2>10 DEF TopNamed
  <2>12. moved # <<>>
    BY <1>6, <2>3, NoneSet
  <2>13. Topped(moved, tags', u)
    BY <1>6, <2>1, <2>12, TopSet
  <2> HIDE DEF n
  <2>14. /\ IsSeq(tags') /\ Len(tags') = n /\ tags'[n] = u
         /\ \A i \in 1 .. n - 1 : tags'[i] = moved[i]
    BY <1>6, <2>13 DEF Topped
  <2>15. \A i \in 1..n : i = n \/ Follows(tags[i], tags'[i], cell, gen)
    <3> SUFFICES ASSUME NEW i \in 1..n, i # n PROVE Follows(tags[i], tags'[i], cell, gen)
      OBVIOUS
    <3>1. i \in 1 .. n - 1
      BY <1>2
    <3>2. tags'[i] = moved[i]
      BY <2>14, <3>1
    <3> QED  BY <1>5, <3>2
  <2> QED  BY <1>8, <2>11, <2>14, <2>15 DEF TagsPlaced, n
<1> QED  BY <1>7, <1>8

(* The binding that a prefix has is one of those of the open tags.         *)
LEMMA BoundCell ==
  ASSUME ContentInv, error = "NONE", NEW p \in NsPrefixes, bound[p] # 0
  PROVE  bound[p] \in 1 .. Len(cells) /\ cells[bound[p]].prefix = p /\ bound[p] \in Below(Held, Depth + 1)
<1>1. bound[p] \in 0 .. Len(cells) /\ Len(cells) \in Nat
  BY AnySeq DEF ContentInv, Typed, TypedCells
<1>2. bound[p] \in Below(Held, Depth + 1) /\ Prefix(cells)[bound[p]] = p
  BY DEF ContentInv, Bindings, Chained
<1> DEFINE c == bound[p]
<1>3. c \in 1 .. Len(cells)
  <2> HIDE DEF c
  <2>1. c \in 0 .. Len(cells) /\ c # 0
    BY <1>1 DEF c
  <2> QED  BY <1>1, <2>1
<1>4. Prefix(cells)[c] = cells[c].prefix
  <2> HIDE DEF c
  <2> QED  BY <1>3 DEF Prefix
<1> QED  BY <1>2, <1>3, <1>4

(* The name goes into the buffer of its binding.                           *)
LEMMA NamedBound ==
  ASSUME ContentInv, Named, bound[work.tag.name[1]] # 0, Expanded(bound[work.tag.name[1]])
  PROVE  ContentInv'
<1> DEFINE p == work.tag.name[1]
           cell == bound[p]
           n == Len(tags)
           m == Len(cells)
<1>1. Typed /\ Control /\ RawKept /\ Bindings /\ NamesKept
  BY DEF ContentInv
<1>2. /\ error = "NONE" /\ call = "running" /\ work.at = "element" /\ triplets' = triplets
      /\ processor' = processor /\ via' = via /\ call' = call /\ error' = error /\ bound' = bound
      /\ freeBindings' = freeBindings /\ inherited' = inherited
      /\ work'.at = "start" /\ work'.tag = work.tag /\ work'.bindings = work.bindings /\ work'.empty = work.empty
      /\ DOMAIN work' = WorkFields
  BY DEF Named
<1>3. work.tag \in StartTags /\ p \in NsPrefixes
  <2>1. work.tag \in StartTags
    BY <1>1, <1>2 DEF Typed, TypedWork, StoringAtts
  <2> QED  BY <2>1, ContentAssumption
<1>4. cell \in 1..m /\ cells[cell].prefix = p /\ cell \in Below(Held, Depth + 1)
  BY <1>2, <1>3, BoundCell
<1>5. /\ IsSeq(cells) /\ m \in Nat /\ \A c \in 1..m : IsCell(cells[c])
      /\ IsSeq(tags) /\ n \in Nat /\ (\A i \in 1..n : IsTag(tags[i])) /\ n <= MaxDepth
  BY <1>1, AnySeq DEF Typed, TypedCells, TypedTags
<1>6. ~work.empty => tags # <<>> /\ Handling
  BY <1>1, <1>2 DEF Control, Handling, StoringAtts
<1> HIDE DEF cell, p
<1>7. PICK gen, tail, moved, str : Placed(cell, gen, tail, moved, str)
  <2>1. Expanded(cell)
    BY DEF cell, p
  <2> QED  BY <1>1, <1>4, <1>6, <2>1, ExpandedPlaces
<1>8. TagsPlaced(cell, gen)
  BY <1>2, <1>4, <1>7, PlacedTags DEF p
<1>9. gen \in Nat /\ Refilled(cells, cells', cell, gen, tail)
  <2>1. IsCell(cells[cell])
    BY <1>4, <1>5
  <2>2. gen \in Nat
    <3>1. cells[cell].gen \in Nat
      BY <2>1 DEF IsCell
    <3> QED  BY <1>7, <3>1 DEF Placed
  <2>3. PICK alloc : cells' = [cells EXCEPT ![cell] = [cells[cell] EXCEPT !.gen = gen, !.tail = tail, !.alloc = alloc]]
    BY <1>7 DEF Placed
  <2> QED  BY <1>4, <1>5, <2>1, <2>2, <2>3, Refill
<1>10. /\ Prefix(cells') = Prefix(cells) /\ Prev(cells') = Prev(cells) /\ Len(cells') = m
       /\ \A x \in 1..m : cells'[x].uri = cells[x].uri /\ cells'[x].prefix = cells[x].prefix
       /\ \A x \in 1..m : x # cell => cells'[x] = cells[x]
       /\ cells'[cell].gen = gen /\ cells'[cell].tail = tail
  <2>1. /\ Prefix(cells') = Prefix(cells) /\ Prev(cells') = Prev(cells)
        /\ \A x \in 1 .. Len(cells) : cells'[x].uri = cells[x].uri /\ cells'[x].prefix = cells[x].prefix
    BY <1>4, <1>5, <1>9, RefillKeeps
  <2> QED  BY <1>9, <2>1 DEF Refilled
<1> HIDE DEF m
<1>11. Len(tags') = n /\ IsSeq(tags') /\ (tags # <<>> => tags' # <<>>)
  <2>1. Len(tags') = n /\ IsSeq(tags')
    BY <1>8 DEF TagsPlaced
  <2>2. tags # <<>> => n # 0
    BY <1>5, AnyFront
  <2> QED  BY <2>1, <2>2, NoneSet
<1>12. work'.str = [cell |-> cell, gen |-> gen]
  <2>1. DOMAIN work = WorkFields
    BY <1>1 DEF Typed, TypedWork
  <2>2. work' = [work EXCEPT !.at = "start", !.str = str] /\ str = [cell |-> cell, gen |-> gen]
    BY <1>7 DEF Placed
  <2> QED  BY <2>1, <2>2 DEF WorkFields
<1>13. work'.str \in Place /\ work'.str.cell = cell /\ work'.str.gen = gen /\ cell # 0
  <2>1. cell \in Nat \ {0}
    BY <1>4, <1>5 DEF m
  <2> QED  BY <1>9, <1>12, <2>1 DEF Place
<1>14. /\ TypedFlow' /\ TypedAtts' /\ TypedWork' /\ Control' /\ MarksKept'
       /\ (Handling' <=> Handling)
  BY <1>11, <1>13, NamedStep
<1>15. TypedCells'
  BY <1>1, <1>2, <1>4, <1>9, TypedRefilled DEF Typed, m
<1> DEFINE Top(i) == i = n /\ ~work.empty
<1>16. \A i \in 1..n : ~Top(i) => Follows(tags[i], tags'[i], cell, gen)
  BY <1>8 DEF TagsPlaced
<1>17. ~work.empty => n \in 1..n /\ TopNamed(tags[n], tags'[n], cell, gen, p)
  <2>1. ~work.empty => TopNamed(tags[n], tags'[n], cell, gen, p)
    BY <1>8 DEF TagsPlaced, p
  <2>2. ~work.empty => n \in Nat \ {0}
    BY <1>5, <1>6, AnyFront
  <2> QED  BY <2>1, <2>2
<1>18. \A i \in 1..n : /\ IsTag(tags'[i]) /\ tags'[i].bindings = tags[i].bindings /\ tags'[i].raw = tags[i].raw
                       /\ tags'[i].gen = tags[i].gen
  BY <1>16, <1>17 DEF Follows, TopNamed
<1>19. TypedTags'
  BY <1>5, <1>11, <1>18 DEF TypedTags
<1>20. Held' = Held /\ Depth' = Depth
  BY <1>2, <1>5, <1>11, <1>18, HeldEq
<1>21. Bindings'
  <2>1. /\ Parted(Held, Depth, freeBindings, m) /\ Chained(Held, Depth, Prefix(cells), Prev(cells), bound)
        /\ \A c \in Below(Held, Depth + 1) : cells[c].uri \in Uris
    BY <1>1, <1>2 DEF Bindings, m
  <2> HIDE DEF Held, Depth
  <2>2. Below(Held, Depth + 1) \subseteq 1..m
    BY <2>1, HeldCells
  <2>3. \A c \in Below(Held, Depth + 1) : cells'[c].uri \in Uris
    BY <1>10, <2>1, <2>2
  <2> QED  BY <1>2, <1>10, <1>20, <2>1, <2>3 DEF Bindings
<1>22. RawKept'
  BY <1>1, <1>2, <1>11, <1>18 DEF RawKept
<1>23. AllKept'
  <2> SUFFICES ASSUME NEW i \in 1..n PROVE NameKept(i)'
    BY <1>11 DEF AllKept
  <2>1. Reaches(i)' = Reaches(i)
    BY <1>11, <1>14, <1>20 DEF Reaches
  <2>2. Below(Held, Reaches(i))' = Below(Held, Reaches(i))
    BY <1>20, <2>1
  <2>3. NameKept(i)
    BY <1>1, <1>2 DEF NamesKept, AllKept
  <2> HIDE DEF Held, Depth, Below
  <2>4. CASE Top(i)
    <3>1. TopNamed(tags[i], tags'[i], cell, gen, p)
      BY <1>17, <2>4
    <3>2. Reaches(i) = Depth + 1
      BY <1>6, <2>4 DEF Reaches
    <3>3. cell \in Below(Held, Reaches(i))'
      BY <1>4, <2>2, <3>2
    <3>4. tags'[i].gen \in Nat /\ Null \notin Nat
      BY <1>18, ContentAssumption DEF IsTag
    <3> QED  BY <1>10, <1>13, <3>1, <3>3, <3>4 DEF NameKept, TopNamed
  <2>5. CASE ~Top(i)
    <3>1. Follows(tags[i], tags'[i], cell, gen)
      BY <1>16, <2>5
    <3>2. tags'[i].str.cell # 0 => /\ tags'[i].str.cell \in Below(Held, Reaches(i))'
                                   /\ tags'[i].str.gen = cells'[tags'[i].str.cell].gen
      <4> SUFFICES ASSUME tags'[i].str.cell # 0
                   PROVE /\ tags'[i].str.cell \in Below(Held, Reaches(i))'
                         /\ tags'[i].str.gen = cells'[tags'[i].str.cell].gen
        OBVIOUS
      <4> DEFINE c == tags[i].str.cell
      <4>1. tags'[i].str.cell = c /\ c # 0 /\ c \in Below(Held, Reaches(i)) /\ tags[i].str.gen = cells[c].gen
        BY <2>3, <3>1 DEF Follows, NameKept
      <4>2. tags'[i].str.gen = IF c = cell THEN gen ELSE tags[i].str.gen
        BY <3>1, <4>1 DEF Follows
      <4> HIDE DEF c
      <4>3. c \in 1..m
        <5>1. Below(Held, Depth + 1) \subseteq 1..m /\ Depth \in Nat
          BY <1>1, HeldCells DEF Bindings, m
        <5>2. Reaches(i) \in 0 .. Depth + 1
          BY <1>5, <5>1 DEF Reaches, Depth
        <5>3. Below(Held, Reaches(i)) \subseteq Below(Held, Depth + 1)
          BY <5>1, <5>2, BelowFacts
        <5> QED  BY <4>1, <5>1, <5>3
      <4>4. cells'[c].gen = IF c = cell THEN gen ELSE cells[c].gen
        BY <1>10, <4>3
      <4> QED  BY <2>2, <4>1, <4>2, <4>4
    <3>3. tags'[i].str.cell = 0 => tags'[i].str.gen = tags'[i].gen
      BY <1>13, <2>3, <3>1 DEF Follows, NameKept
    <3> HIDE DEF Reaches
    <3>4. tags'[i].local \in {Null, tags'[i].gen} /\ (tags'[i].local = Null <=> tags'[i].str.cell = 0)
      BY <2>3, <3>1 DEF Follows, NameKept
    <3> QED  BY <3>2, <3>3, <3>4 DEF NameKept
  <2> QED  BY <2>4, <2>5
<1>24. AllTold'
  <2> SUFFICES ASSUME NEW i \in 1..n, i < n \/ ~Handling PROVE ToldRight(i)'
    BY <1>11, <1>14 DEF AllTold
  <2>1. ToldRight(i) /\ NameKept(i)
    BY <1>1, <1>2 DEF NamesKept, AllTold, AllKept
  <2>2. ~Top(i)
    BY <1>5, <1>6
  <2>3. Follows(tags[i], tags'[i], cell, gen)
    BY <1>16, <2>2
  <2> DEFINE t == tags[i]
             u == tags'[i]
  <2>4. u.told = t.told /\ u.str.cell = t.str.cell /\ u.name = t.name /\ u.prefix = t.prefix
    BY <2>3 DEF Follows
  <2>5. t.str.cell # 0 => cells'[t.str.cell].uri = cells[t.str.cell].uri
    <3> SUFFICES ASSUME t.str.cell # 0 PROVE cells'[t.str.cell].uri = cells[t.str.cell].uri
      OBVIOUS
    <3>1. t.str.cell \in Below(Held, Reaches(i))
      BY <2>1 DEF NameKept
    <3>2. Below(Held, Depth + 1) \subseteq 1..m /\ Depth \in Nat
      BY <1>1, HeldCells DEF Bindings, m
    <3>3. Reaches(i) \in 0 .. Depth + 1
      BY <1>5, <3>2 DEF Reaches, Depth
    <3> HIDE DEF Held, Depth, Below, Reaches
    <3>4. Below(Held, Reaches(i)) \subseteq Below(Held, Depth + 1)
      BY <3>2, <3>3, BelowFacts
    <3>5. t.str.cell \in 1..m
      BY <3>1, <3>2, <3>4
    <3> HIDE DEF t
    <3> QED  BY <1>10, <3>5
  <2>6. t.told = ToldAs(t, cells, triplets)
    BY <2>1 DEF ToldRight
  <2> HIDE DEF t, u
  <2>7. ToldAs(u, cells', triplets) = ToldAs(t, cells, triplets)
    BY <2>4, <2>5 DEF ToldAs
  <2>8. u.told = ToldAs(u, cells', triplets)
    BY <2>4, <2>6, <2>7
  <2> QED  BY <1>2, <2>8 DEF ToldRight, u
<1>25. WorkName'
  <2>1. cell \in Below(Held', Depth' + 1)
    BY <1>4, <1>20
  <2>2. cells'[cell].prefix = cells[cell].prefix
    BY <1>4, <1>10
  <2>3. tail = NameEnd(work.tag.name, cells[cell].prefix, triplets)
    BY <1>7 DEF Placed
  <2> HIDE DEF Held, Depth, Below
  <2> QED  BY <1>2, <1>4, <1>10, <1>13, <2>1, <2>2, <2>3 DEF WorkName, p
<1>26. Handling => Pending'
  <2> SUFFICES ASSUME Handling PROVE Pending'
    OBVIOUS
  <2>1. Pending /\ ~work.empty
    BY <1>1, <1>2 DEF NamesKept, Handling
  <2>2. TopNamed(tags[n], tags'[n], cell, gen, p)
    BY <1>17, <2>1
  <2>3. tags[n].name = work.tag.name /\ tags[n].bindings = <<>>
    BY <2>1 DEF Pending
  <2> DEFINE u == tags'[n]
  <2>4. u.name = work.tag.name /\ u.bindings = <<>> /\ u.str.cell = cell /\ u.prefix = p
    BY <2>2, <2>3 DEF TopNamed
  <2>5. tags'[Len(tags')] = u
    BY <1>11
  <2> HIDE DEF u
  <2> QED  BY <1>2, <1>13, <2>4, <2>5 DEF Pending, p
<1>27. NamesKept'
  BY <1>14, <1>23, <1>24, <1>25, <1>26 DEF NamesKept
<1> QED  BY <1>14, <1>15, <1>19, <1>21, <1>22, <1>27 DEF ContentInv, Typed

(* The name of the element is found, or there is none.                     *)
LEMMA ElementNameStep ==
  ASSUME ContentInv, ElementName
  PROVE  ContentInv'
<1> DEFINE prefix == work.tag.name[1]
<1>1. work.at = "element" /\ error = "NONE" /\ call = "running" /\ flags' = Cleared /\ nsAtts' = nsAtts /\ idIndex' = idIndex
  BY DEF ElementName, At
<1>2. DOMAIN work = WorkFields /\ StoringAtts
  BY <1>1 DEF ContentInv, Typed, TypedWork, StoringAtts
<1>3. CASE FailInTag("UNBOUND_PREFIX")
  <2>1. TypedAtts'
    <3>1. Cleared \in [AttNames -> 0..2]
      BY <1>1, ClearedFacts
    <3> QED  BY <1>1, <3>1 DEF ContentInv, Typed, TypedAtts
  <2> QED  BY <1>1, <1>2, <1>3, <2>1, FailedInTag
<1>4. CASE bound[prefix] # 0 /\ Expanded(bound[prefix]) /\ NoHandler
           /\ UNCHANGED <<setup, processor, callVars, error, bound, freeBindings, inherited, freeTags, over>>
  <2>1. \E str : work' = [work EXCEPT !.at = "start", !.str = str]
    BY <1>4 DEF Expanded
  <2>2. /\ DOMAIN work' = WorkFields /\ work'.at = "start" /\ work'.tag = work.tag /\ work'.empty = work.empty
        /\ work'.bindings = work.bindings /\ work'.atts = work.atts /\ work'.i = work.i
    BY <1>2, <2>1 DEF WorkFields
  <2>3. Named
    BY <1>1, <1>4, <2>2 DEF Named, NoHandler, setup, callVars
  <2> QED  BY <1>4, <2>3, NamedBound
<1>5. CASE /\ work' = [work EXCEPT !.at = "start", !.str = OwnName] /\ NoHandler
           /\ UNCHANGED <<setup, processor, callVars, error, bindingVars, tags, freeTags, over>>
  <2>1. /\ DOMAIN work' = WorkFields /\ work'.at = "start" /\ work'.tag = work.tag /\ work'.empty = work.empty
        /\ work'.bindings = work.bindings /\ work'.atts = work.atts /\ work'.i = work.i /\ work'.str = OwnName
    BY <1>2, <1>5 DEF WorkFields
  <2>2. Named /\ UNCHANGED <<tags, cells>>
    BY <1>1, <1>5, <2>1 DEF Named, NoHandler, setup, callVars, bindingVars
  <2> QED  BY <2>1, <2>2, NamedOwn
<1> QED  BY <1>3, <1>4, <1>5 DEF ElementName

-----------------------------------------------------------------------------
(* The calls of an empty-element tag.                                      *)
LEMMA StartCallEmpty ==
  ASSUME ContentInv, StartCall, work.empty
  PROVE  ContentInv'
<1>1. /\ error = "NONE" /\ call = "running" /\ work.at = "start" /\ Stopped
      /\ ns' = ns /\ triplets' = triplets /\ startLevel' = startLevel /\ processor' = processor /\ via' = via
      /\ call' = call /\ final' = final /\ error' = error /\ bound' = bound /\ cells' = cells
      /\ freeBindings' = freeBindings /\ inherited' = inherited /\ flags' = flags /\ nsAtts' = nsAtts
      /\ idIndex' = idIndex /\ tags' = tags /\ over' = over
      /\ work' = [work EXCEPT !.at = "end"]
  BY DEF StartCall, At, Handler, setup, callVars, bindingVars, attVars
<1>2. Typed /\ Control /\ RawKept /\ Bindings /\ NamesKept /\ MarksKept
  BY DEF ContentInv
<1>3. DOMAIN work = WorkFields
  BY <1>2 DEF Typed, TypedWork
<1>4. /\ DOMAIN work' = WorkFields /\ work'.at = "end" /\ work'.tag = work.tag /\ work'.empty = work.empty
      /\ work'.bindings = work.bindings /\ work'.atts = work.atts /\ work'.i = work.i /\ work'.str = work.str
  BY <1>1, <1>3 DEF WorkFields
<1>5. ~Handling /\ ~Handling' /\ ~StoringAtts'
  BY <1>4 DEF Handling, StoringAtts
<1>6. TypedFlow'
  <2>1. status' \in {"PARSING", "SUSPENDED", "FINISHED"}
    BY <1>1, <1>2, StatusTyped
  <2> QED  BY <1>1, <1>2, <2>1 DEF Typed, TypedFlow
<1>7. TypedTags' /\ TypedCells' /\ TypedAtts'
  BY <1>1, <1>2 DEF Typed, TypedTags, TypedCells, TypedAtts
<1>8. TypedWork'
  <2>1. /\ work.tag \in StartTags /\ IsSeq(work.atts) /\ work.i \in Nat \ {0} /\ work.empty \in BOOLEAN
        /\ work.str \in Place
    BY <1>1, <1>2 DEF Typed, TypedWork
  <2> QED  BY <1>4, <2>1 DEF TypedWork, Places
<1>9. Control'
  BY <1>1, <1>2, <1>4, <1>5 DEF Control
<1>10. Bindings'
  BY <1>1, <1>2, <1>4, BindingsSame
<1>11. RawKept'
  BY <1>1, <1>2, RawSame DEF RawKept
<1>12. MarksKept'
  <2>1. ~StoringAtts
    BY <1>1 DEF StoringAtts
  <2> QED  BY <1>1, <1>2, <2>1 DEF MarksKept
<1>13. Held' = Held /\ Depth' = Depth
  BY <1>1, <1>4, HeldSame
<1>14. AllKept'
  <2>1. AllKept
    BY <1>1, <1>2 DEF NamesKept
  <2>2. \A i : Reaches(i)' = Reaches(i)
    BY <1>1, <1>5, <1>13 DEF Reaches
  <2> HIDE DEF Held, Reaches
  <2> QED  BY <1>1, <1>13, <2>1, <2>2 DEF AllKept, NameKept
<1>15. AllTold'
  <2>1. AllTold
    BY <1>1, <1>2 DEF NamesKept
  <2> QED  BY <1>1, <1>5, <2>1 DEF AllTold, ToldRight
<1>16. WorkName'
  <2>1. WorkName
    BY <1>1, <1>2 DEF NamesKept
  <2> HIDE DEF Held, Depth
  <2> QED  BY <1>1, <1>4, <1>13, <2>1 DEF WorkName
<1>17. NamesKept'
  BY <1>5, <1>14, <1>15, <1>16 DEF NamesKept
<1> QED  BY <1>6, <1>7, <1>8, <1>9, <1>10, <1>11, <1>12, <1>17 DEF ContentInv, Typed

(* The end of an empty element.                                            *)
LEMMA EmptyEndStep ==
  ASSUME ContentInv, EmptyEnd
  PROVE  ContentInv'
<1> DEFINE list == work.bindings
<1>1. /\ error = "NONE" /\ call = "running" /\ work.at = "end" /\ Stopped
      /\ ns' = ns /\ triplets' = triplets /\ startLevel' = startLevel /\ processor' = processor /\ via' = via
      /\ call' = call /\ final' = final /\ error' = error /\ bound' = bound /\ cells' = cells
      /\ freeBindings' = freeBindings /\ inherited' = inherited /\ flags' = flags /\ nsAtts' = nsAtts
      /\ idIndex' = idIndex /\ tags' = tags /\ over' = (Level = 0)
      /\ work' = [NoWork EXCEPT !.at = "withdraw", !.bindings = list]
  BY DEF EmptyEnd, At, Handler, setup, callVars, bindingVars, attVars
<1>2. Typed /\ Control /\ RawKept /\ Bindings /\ NamesKept /\ MarksKept
  BY DEF ContentInv
<1>3. /\ DOMAIN work' = WorkFields /\ work'.at = "withdraw" /\ work'.empty = FALSE
      /\ work'.bindings = list /\ work'.atts = <<>> /\ work'.i = 1
  BY <1>1 DEF NoWork, WorkFields
<1>4. ~Handling /\ ~Handling' /\ ~StoringAtts'
  BY <1>1, <1>3 DEF Handling, StoringAtts
<1>5. TypedFlow'
  <2>1. status' \in {"PARSING", "SUSPENDED", "FINISHED"}
    BY <1>1, <1>2, StatusTyped
  <2>2. over' \in BOOLEAN
    BY <1>1, Zenon
  <2> QED  BY <1>1, <1>2, <2>1, <2>2 DEF Typed, TypedFlow
<1>6. TypedTags' /\ TypedCells' /\ TypedAtts'
  BY <1>1, <1>2 DEF Typed, TypedTags, TypedCells, TypedAtts
<1>7. TypedWork'
  <2>1. IsSeq(work'.atts) /\ work'.i \in Nat \ {0}
    BY <1>3, NoneSet DEF IsSeq
  <2>2. work'.empty \in BOOLEAN
    BY <1>3, Zenon
  <2> QED  BY <1>3, <1>4, <2>1, <2>2 DEF TypedWork, Places
<1>8. Level = 0 => Len(tags) = 0 /\ startLevel = 0
  <2>1. Len(tags) \in Nat /\ startLevel \in {0, 1}
    BY <1>2, AnySeq DEF Typed, TypedTags, TypedFlow
  <2> QED  BY <2>1 DEF Level
<1>9. Control'
  BY <1>1, <1>2, <1>3, <1>4, <1>8 DEF Control
<1>10. Bindings'
  BY <1>1, <1>2, <1>3, BindingsSame
<1>11. RawKept'
  BY <1>1, <1>2, RawSame DEF RawKept
<1>12. MarksKept'
  <2>1. ~StoringAtts
    BY <1>1 DEF StoringAtts
  <2> QED  BY <1>1, <1>2, <2>1 DEF MarksKept
<1>13. Held' = Held /\ Depth' = Depth
  BY <1>1, <1>3, HeldSame
<1>14. AllKept'
  <2>1. AllKept
    BY <1>1, <1>2 DEF NamesKept
  <2>2. \A i : Reaches(i)' = Reaches(i)
    BY <1>1, <1>4, <1>13 DEF Reaches
  <2> HIDE DEF Held, Reaches
  <2> QED  BY <1>1, <1>13, <2>1, <2>2 DEF AllKept, NameKept
<1>15. AllTold'
  <2>1. AllTold
    BY <1>1, <1>2 DEF NamesKept
  <2> QED  BY <1>1, <1>4, <2>1 DEF AllTold, ToldRight
<1>16. NamesKept'
  BY <1>3, <1>4, <1>14, <1>15 DEF NamesKept, WorkName
<1> QED  BY <1>5, <1>6, <1>7, <1>9, <1>10, <1>11, <1>12, <1>16 DEF ContentInv, Typed

-----------------------------------------------------------------------------
(* The call for a start tag: its bindings and its name go to the tag.      *)
LEMMA StartCallOpen ==
  ASSUME ContentInv, StartCall, ~work.empty
  PROVE  ContentInv'
<1> DEFINE n == Len(tags)
           t == tags[n]
           name == Name(work.str, work.tag.name)
           u == [t EXCEPT !.bindings = work.bindings, !.told = name]
<1>1. /\ error = "NONE" /\ call = "running" /\ work.at = "start" /\ Stopped
      /\ ns' = ns /\ triplets' = triplets /\ startLevel' = startLevel /\ processor' = processor /\ via' = via
      /\ call' = call /\ final' = final /\ error' = error /\ bound' = bound /\ cells' = cells
      /\ freeBindings' = freeBindings /\ inherited' = inherited /\ flags' = flags /\ nsAtts' = nsAtts
      /\ idIndex' = idIndex /\ over' = over
      /\ work' = [NoWork EXCEPT !.at = "check"]
      /\ tags' = [tags EXCEPT ![Len(tags)].bindings = work.bindings, ![Len(tags)].told = name]
  BY DEF StartCall, At, Handler, setup, callVars, bindingVars, attVars
<1>2. Typed /\ Control /\ RawKept /\ Bindings /\ NamesKept /\ MarksKept
  BY DEF ContentInv
<1>3. Handling /\ tags # <<>> /\ Pending /\ ~over /\ WorkName
  <2>1. Handling
    BY <1>1 DEF Handling
  <2> QED  BY <1>1, <1>2, <2>1 DEF Control, NamesKept
<1>4. /\ IsSeq(tags) /\ n \in Nat \ {0} /\ DOMAIN tags = 1..n /\ n \in 1..n
      /\ (\A i \in 1..n : IsTag(tags[i])) /\ n <= MaxDepth /\ TypedTags
  BY <1>2, <1>3, AnySeq, AnyFront DEF Typed, TypedTags
<1>5. IsTag(t) /\ DOMAIN t = TagFields
  BY <1>4 DEF IsTag
<1>6. tags' = [tags EXCEPT ![n] = u]
  <2> HIDE DEF name, n
  <2> QED  BY <1>1, <1>4 DEF n
<1> HIDE DEF t, name
<1>7. /\ DOMAIN u = TagFields /\ u.bindings = work.bindings /\ u.told = name /\ u.name = t.name /\ u.prefix = t.prefix
      /\ u.gen = t.gen /\ u.local = t.local /\ u.str = t.str /\ u.raw = t.raw
  BY <1>5 DEF TagFields
<1> HIDE DEF u
<1>8. IsTag(u)
  BY <1>5, <1>7 DEF IsTag
<1>9. Topped(tags, tags', u)
  BY <1>3, <1>4, <1>6, TopSet
<1>10. /\ IsSeq(tags') /\ Len(tags') = n /\ tags'[n] = u /\ \A i \in 1 .. n - 1 : tags'[i] = tags[i]
  BY <1>9 DEF Topped
<1>11. \A i \in 1..n : i = n \/ i \in 1 .. n - 1
  <2>1. n \in Nat
    BY <1>4
  <2> HIDE DEF n
  <2> QED  BY <2>1
<1>12. t.name = work.tag.name /\ t.bindings = <<>> /\ t.str.cell = work.str.cell /\ (t.str.cell # 0 => t.prefix = work.tag.name[1])
  BY <1>1, <1>3 DEF Pending, t
<1>13. Blank(work', "check") /\ work'.at = "check" /\ work'.bindings = <<>> /\ DOMAIN work' = WorkFields
  BY <1>1, BlankWork DEF Blank
<1>14. ~Handling' /\ ~StoringAtts' /\ work'.at \in Places
  BY <1>13 DEF Handling, StoringAtts, Places
<1> HIDE DEF n
<1>15. TypedTags'
  <2>1. \A i \in 1..n : IsTag(tags'[i])
    BY <1>4, <1>8, <1>10, <1>11
  <2> QED  BY <1>4, <1>10, <2>1 DEF TypedTags
<1>16. TypedFlow'
  <2>1. status' \in {"PARSING", "SUSPENDED", "FINISHED"}
    BY <1>1, <1>2, StatusTyped
  <2> QED  BY <1>1, <1>2, <2>1 DEF Typed, TypedFlow
<1>17. TypedCells' /\ TypedAtts'
  BY <1>1, <1>2 DEF Typed, TypedCells, TypedAtts
<1>18. TypedWork'
  <2>1. IsSeq(work'.atts) /\ work'.i \in Nat \ {0} /\ work'.empty \in BOOLEAN
    BY <1>13, BlankFacts
  <2> QED  BY <1>13, <1>14, <2>1 DEF TypedWork
<1>19. Control'
  BY <1>1, <1>2, <1>3, <1>4, <1>10, <1>13, <1>14 DEF Control, n
<1>20. RawKept'
  <2>1. \A i \in 1..n : tags'[i].raw = tags[i].raw
    BY <1>7, <1>10, <1>11 DEF t
  <2> QED  BY <1>1, <1>2, <1>10, <2>1 DEF RawKept, n
<1>21. MarksKept'
  <2>1. ~StoringAtts
    BY <1>1 DEF StoringAtts
  <2> QED  BY <1>1, <1>2, <2>1 DEF MarksKept
<1>22. MovedUp(Held, Depth, Held') /\ Depth' = Depth
  <2>1. \A i \in 1 .. Len(tags) - 1 : tags'[i].bindings = tags[i].bindings
    BY <1>10 DEF n
  <2>2. tags[Len(tags)].bindings = <<>> /\ tags'[Len(tags)].bindings = work.bindings /\ Len(tags') = Len(tags) /\ IsSeq(tags')
    BY <1>7, <1>10, <1>12 DEF t, n
  <2> QED  BY <1>1, <1>3, <1>4, <1>13, <2>1, <2>2, ErrorMoves
<1>23. /\ Parted(Held, Depth, freeBindings, Len(cells)) /\ Chained(Held, Depth, Prefix(cells), Prev(cells), bound)
       /\ \A c \in Below(Held, Depth + 1) : cells[c].uri \in Uris
  BY <1>1, <1>2 DEF Bindings
<1>24. Parted(Held', Depth, freeBindings, Len(cells))
  <2> HIDE DEF Held, Depth
  <2> QED  BY <1>22, <1>23, MoveParted
<1>25. /\ Chained(Held', Depth, Prefix(cells), Prev(cells), bound)
       /\ Below(Held', Depth + 1) = Below(Held, Depth + 1)
       /\ SameBelow(Held, Held', Depth - 1)
       /\ Below(Held', Depth) = Below(Held, Depth + 1)
  <2> HIDE DEF Held, Depth
  <2> QED  BY <1>22, <1>23, MoveChained
<1>26. Bindings'
  <2> HIDE DEF Held, Depth
  <2> QED  BY <1>1, <1>22, <1>23, <1>24, <1>25 DEF Bindings
<1>27. Depth = n + 1
  BY DEF Depth, n
<1>28. AllKept'
  <2> SUFFICES ASSUME NEW i \in 1..n PROVE NameKept(i)'
    BY <1>10 DEF AllKept
  <2>1. NameKept(i)
    BY <1>1, <1>2 DEF NamesKept, AllKept, n
  <2>2. Below(Held, Reaches(i))' = Below(Held, Reaches(i))
    <3>1. Reaches(i)' = i + 1
      BY <1>14 DEF Reaches
    <3>2. CASE i = n
      <4>1. Reaches(i) = Depth + 1
        BY <1>3, <3>2 DEF Reaches, n
      <4> QED  BY <1>25, <1>27, <3>1, <3>2, <4>1
    <3>3. CASE i # n
      <4>1. Reaches(i) = i + 1
        BY <3>3 DEF Reaches, n
      <4>2. i + 1 \in 0 .. Depth - 1
        BY <1>4, <1>27, <3>3
      <4>3. Below(Held', i + 1) = Below(Held, i + 1)
        BY <1>25, <4>2 DEF SameBelow
      <4> QED  BY <3>1, <4>1, <4>3
    <3> QED  BY <3>2, <3>3
  <2>3. /\ tags'[i].gen = tags[i].gen /\ tags'[i].local = tags[i].local /\ tags'[i].str = tags[i].str
    BY <1>7, <1>10, <1>11 DEF t
  <2> HIDE DEF Held, Depth, Below, Reaches
  <2> QED  BY <1>1, <2>1, <2>2, <2>3 DEF NameKept
<1>29. AllTold'
  <2> SUFFICES ASSUME NEW i \in 1..n PROVE ToldRight(i)'
    BY <1>10 DEF AllTold
  <2>1. CASE i # n
    <3>1. i < n /\ tags'[i] = tags[i]
      BY <1>4, <1>10, <1>11, <2>1
    <3>2. ToldRight(i)
      BY <1>1, <1>2, <3>1 DEF NamesKept, AllTold, n
    <3> QED  BY <1>1, <3>1, <3>2 DEF ToldRight
  <2>2. CASE i = n
    <3>1. name = IF t.str.cell = 0 THEN <<t.name>> ELSE <<cells[t.str.cell].uri>> \o cells[t.str.cell].tail
      BY <1>12 DEF name, Name
    <3>2. t.str.cell # 0 => cells[t.str.cell].tail = NameEnd(t.name, t.prefix, triplets)
      BY <1>1, <1>3, <1>12 DEF WorkName
    <3>3. name = ToldAs(t, cells, triplets)
      BY <3>1, <3>2 DEF ToldAs
    <3>4. ToldAs(u, cells, triplets) = ToldAs(t, cells, triplets)
      BY <1>7 DEF ToldAs
    <3>5. u.told = ToldAs(u, cells, triplets)
      BY <1>7, <3>3, <3>4
    <3> QED  BY <1>1, <1>10, <2>2, <3>5 DEF ToldRight
  <2> QED  BY <2>1, <2>2
<1>30. NamesKept'
  BY <1>13, <1>14, <1>28, <1>29 DEF NamesKept, WorkName
<1> QED  BY <1>15, <1>16, <1>17, <1>18, <1>19, <1>20, <1>21, <1>26, <1>30 DEF ContentInv, Typed

-----------------------------------------------------------------------------
(* A namespace declaration.                                                *)
LEMMA AttFacts ==
  ASSUME NEW tag \in StartTags, NEW list \in {tag.atts, Defaults(tag.name)}, NEW i \in Nat \ {0}, i <= Len(list)
  PROVE  DeclaredPrefix(list[i].name) \in NsPrefixes /\ list[i].value \in Uris
<1>1. IsSeq(list) /\ \A k \in DOMAIN list : list[k].name[1] = "xmlns" => list[k].name[2] \in NsPrefixes
  BY ContentAssumption DEF IsSeq
<1>2. Len(list) \in Nat /\ DOMAIN list = 1 .. Len(list) /\ \A k \in 1 .. Len(list) : list[k] \in ToSet(list)
  BY <1>1, AnySeq
<1>3. i \in DOMAIN list /\ list[i] \in ToSet(list)
  BY <1>2
<1>4. DeclaredPrefix(list[i].name) \in NsPrefixes
  BY <1>1, <1>3, ContentAssumption DEF DeclaredPrefix
<1>5. list[i].value \in Uris
  <2>1. ToSet(list) \subseteq UNION {ToSet(t.atts) \cup ToSet(Defaults(t.name)) : t \in StartTags}
    OBVIOUS
  <2> QED  BY <1>3, <2>1 DEF Uris
<1> QED  BY <1>4, <1>5

(* The lists with one more binding of the tag.                             *)
LEMMA HeldLed ==
  ASSUME Len(tags) \in Nat, UNCHANGED <<tags, inherited>>
  PROVE  Leads(Held, Depth, Held', work'.bindings) /\ Depth' = Depth
<1>1. Depth \in Nat /\ Depth # 0 /\ Depth' = Depth
  BY DEF Depth
<1>2. Held = [i \in 0 .. Depth |-> IF i = 0 THEN inherited ELSE IF i = Depth THEN work.bindings ELSE tags[i].bindings]
  BY DEF Held
<1>3. Held' = [i \in 0 .. Depth |-> IF i = 0 THEN inherited ELSE IF i = Depth THEN work'.bindings ELSE tags[i].bindings]
  BY <1>1 DEF Held
<1> HIDE DEF Depth, Held
<1>4. DOMAIN Held' = 0 .. Depth
  BY <1>3
<1>5. \A i \in 0 .. Depth - 1 : Held'[i] = Held[i]
  BY <1>1, <1>2, <1>3
<1>6. Held'[Depth] = work'.bindings
  BY <1>1, <1>3
<1> QED  BY <1>1, <1>4, <1>5, <1>6 DEF Leads

(* The bindings there are.                                                 *)
Bound4 == [bound |-> bound, cells |-> cells, free |-> freeBindings, list |-> work.bindings]

(* The invariant says the bindings there are fit together.                 *)
LEMMA NowLinked ==
  ASSUME ContentInv, error = "NONE"
  PROVE  Linked(Bound4, Held, Depth) /\ Held[Depth] = work.bindings /\ Len(tags) \in Nat /\ Depth \in Nat
<1>1. Typed /\ Bindings
  BY DEF ContentInv
<1>2. Len(tags) \in Nat
  BY <1>1, AnySeq DEF Typed, TypedTags
<1>3. Depth \in Nat /\ Depth # 0
  BY <1>2 DEF Depth
<1>4. Held[Depth] = work.bindings
  BY <1>3 DEF Held
<1>5. Bound4.bound = bound /\ Bound4.cells = cells /\ Bound4.free = freeBindings /\ Bound4.list = work.bindings
  BY DEF Bound4
<1>6. Linked(Bound4, Held, Depth)
  BY <1>1, <1>4, <1>5 DEF Linked, Typed, TypedCells, Bindings
<1> QED  BY <1>2, <1>3, <1>4, <1>6

(* What a step that makes a binding has done.                              *)
Declared(c, name) ==
  /\ Linked(Bound4', Held', Depth)
  /\ c \in 1 .. Len(cells') /\ cells'[c].att = name
  /\ \A x \in 1 .. Len(cells) : x # c => cells'[x] = cells[x]
  /\ work'.bindings = <<c>> \o work.bindings
  /\ Below(Held', Depth + 1) = Below(Held, Depth + 1) \cup {c} /\ c \notin Below(Held, Depth + 1)
  /\ SameBelow(Held, Held', Depth)

(* A declaration adds one cell to the list of the tag.                     *)
LEMMA BindDeclares ==
  ASSUME ContentInv, error = "NONE", NEW p \in NsPrefixes, NEW name, NEW uri \in Uris, UNCHANGED <<tags, inherited>>,
         Bound4' = AddBinding(Bound4, p, name, uri)
  PROVE  \E c : Declared(c, name) /\ cells'[c].prefix = p
<1> DEFINE b2 == AddBinding(Bound4, p, name, uri)
<1>1. Linked(Bound4, Held, Depth) /\ Len(tags) \in Nat
  BY NowLinked
<1>2. /\ Bound4.cells = cells /\ Bound4.list = work.bindings
      /\ Bound4'.cells = cells' /\ Bound4'.list = work'.bindings
  BY DEF Bound4
<1>3. Leads(Held, Depth, Held', work'.bindings)
  BY <1>1, HeldLed
<1> HIDE DEF Held, Depth, Bound4
<1>4. Leads(Held, Depth, Held', b2.list)
  BY <1>2, <1>3
<1>5. Linked(b2, Held', Depth) /\ \E c : Adds(Bound4, b2, c, p, name) /\ AddedTo(Held, Depth, Held', c)
  BY <1>1, <1>4, AddKeeps
<1>6. PICK c : Adds(Bound4, b2, c, p, name) /\ AddedTo(Held, Depth, Held', c)
  BY <1>5
<1> HIDE DEF b2
<1>7. b2 = Bound4'
  BY DEF b2
<1>8. Declared(c, name) /\ cells'[c].prefix = p
  BY <1>2, <1>5, <1>6, <1>7 DEF Declared, Adds, AddedTo
<1> QED  BY <1>8

(* What a declaration keeps of the invariant.                              *)
LEMMA DeclaredStep ==
  ASSUME ContentInv, error = "NONE", call = "running", work.at \in {"attributes", "defaults"}, NEW c, NEW name,
         Declared(c, name),
         UNCHANGED <<ns, triplets, startLevel, processor, via, call, final, error, tags, inherited, nsAtts, idIndex, over>>,
         Stopped, flags' \in [AttNames -> 0..2], \A x \in AttNames : flags'[x] # 0 => x = name \/ flags[x] # 0,
         DOMAIN work' = WorkFields, work'.at = work.at, work'.tag = work.tag, work'.empty = work.empty,
         work'.atts = work.atts, work'.i \in Nat \ {0}
  PROVE  ContentInv'
<1> DEFINE n == Len(tags)
           m == Len(cells)
<1>1. /\ triplets' = triplets /\ startLevel' = startLevel /\ processor' = processor /\ via' = via /\ call' = call
      /\ final' = final /\ error' = error /\ tags' = tags /\ inherited' = inherited /\ nsAtts' = nsAtts
      /\ idIndex' = idIndex /\ over' = over /\ ns' = ns
  OBVIOUS
<1>2. Typed /\ Control /\ RawKept /\ Bindings /\ NamesKept /\ MarksKept
  BY DEF ContentInv
<1>3. Held[Depth] = work.bindings /\ n \in Nat /\ Depth \in Nat
  BY NowLinked
<1>4. Depth' = Depth /\ Depth = n + 1
  BY <1>1 DEF Depth
<1>5. StoringAtts /\ StoringAtts' /\ (Handling' <=> Handling)
  BY DEF StoringAtts, Handling
<1>6. /\ Bound4'.cells = cells' /\ Bound4'.list = work'.bindings /\ Bound4'.bound = bound' /\ Bound4'.free = freeBindings'
  BY DEF Bound4
<1>7. /\ IsSeq(cells') /\ (\A x \in 1 .. Len(cells') : IsCell(cells'[x]))
      /\ bound' \in [NsPrefixes -> 0 .. Len(cells')]
      /\ Parted(Held', Depth, freeBindings', Len(cells')) /\ Held'[Depth] = work'.bindings
      /\ Chained(Held', Depth, Prefix(cells'), Prev(cells'), bound')
      /\ \A x \in Below(Held', Depth + 1) : cells'[x].uri \in Uris
  <2> HIDE DEF Bound4, Held, Depth
  <2> QED  BY <1>6 DEF Declared, Linked
<1>8. /\ c \in 1 .. Len(cells') /\ cells'[c].att = name
      /\ \A x \in 1..m : x # c => cells'[x] = cells[x]
      /\ work'.bindings = <<c>> \o work.bindings
      /\ Below(Held', Depth + 1) = Below(Held, Depth + 1) \cup {c} /\ c \notin Below(Held, Depth + 1)
      /\ SameBelow(Held, Held', Depth)
  BY DEF Declared
<1> HIDE DEF m, n
<1>9. TypedCells'
  BY <1>7 DEF TypedCells
<1>10. TypedTags' /\ TypedAtts'
  BY <1>1, <1>2 DEF Typed, TypedTags, TypedAtts
<1>11. TypedFlow'
  <2>1. status' \in {"PARSING", "SUSPENDED", "FINISHED"}
    BY <1>2, StatusTyped
  <2> QED  BY <1>1, <1>2, <2>1 DEF Typed, TypedFlow
<1>12. TypedWork'
  BY <1>2, <1>5 DEF Typed, TypedWork
<1>13. Control'
  BY <1>1, <1>2, <1>5 DEF Control
<1>14. Bindings'
  <2> HIDE DEF Held, Depth
  <2> QED  BY <1>4, <1>7 DEF Bindings
<1>15. RawKept'
  BY <1>1, <1>2, <1>5, RawSame DEF RawKept, StoringAtts
<1>16. Parted(Held, Depth, freeBindings, m)
  BY <1>2 DEF Bindings, m
<1>17. Below(Held, Depth + 1) \subseteq 1..m
  <2> HIDE DEF Held, Depth
  <2> QED  BY <1>16, HeldCells
<1>18. ASSUME NEW i \in 1..n PROVE Below(Held, Reaches(i)) \subseteq Below(Held, Depth + 1) /\ Below(Held, Reaches(i)) \subseteq Below(Held', Reaches(i))
  <2>1. Reaches(i) = Depth + 1 \/ (Reaches(i) \in 0 .. Depth /\ Reaches(i) \in 0 .. Depth + 1)
    BY <1>3, <1>4 DEF Reaches
  <2> HIDE DEF Held, Depth, Reaches
  <2>2. Below(Held, Reaches(i)) \subseteq Below(Held, Depth + 1)
    BY <1>3, <2>1, BelowFacts
  <2>3. Below(Held, Reaches(i)) \subseteq Below(Held', Reaches(i))
    BY <1>8, <2>1 DEF SameBelow
  <2> QED  BY <2>2, <2>3
<1>19. ASSUME NEW i \in 1..n, tags[i].str.cell # 0
       PROVE  LET x == tags[i].str.cell
              IN NameKept(i) => cells'[x] = cells[x] /\ x \in Below(Held', Reaches(i))
  <2> DEFINE x == tags[i].str.cell
  <2> SUFFICES ASSUME NameKept(i) PROVE cells'[x] = cells[x] /\ x \in Below(Held', Reaches(i))
    OBVIOUS
  <2>1. x \in Below(Held, Reaches(i))
    BY <1>19 DEF NameKept
  <2> HIDE DEF Held, Depth, Reaches, x
  <2>2. x \in Below(Held, Depth + 1) /\ x \in Below(Held', Reaches(i))
    BY <1>18, <2>1
  <2>3. x \in 1..m /\ x # c
    BY <1>8, <1>17, <2>2
  <2> QED  BY <1>8, <2>2, <2>3
<1>20. \A i \in 1..n : NameKept(i)
  BY <1>2 DEF NamesKept, AllKept, n
<1>21. \A i : Reaches(i)' = Reaches(i)
  BY <1>1, <1>4, <1>5 DEF Reaches
<1>22. AllKept'
  <2> SUFFICES ASSUME NEW i \in 1..n PROVE NameKept(i)'
    BY <1>1 DEF AllKept, n
  <2>1. NameKept(i)
    BY <1>20
  <2>2. tags[i].str.cell # 0 => cells'[tags[i].str.cell] = cells[tags[i].str.cell] /\ tags[i].str.cell \in Below(Held', Reaches(i))
    BY <1>19, <2>1
  <2>3. Below(Held, Reaches(i))' = Below(Held', Reaches(i))
    BY <1>21
  <2> HIDE DEF Held, Depth, Reaches, Below
  <2> QED  BY <1>1, <2>1, <2>2, <2>3 DEF NameKept
<1>23. AllTold'
  <2> SUFFICES ASSUME NEW i \in 1..n, i < n \/ ~Handling PROVE ToldRight(i)'
    BY <1>1, <1>5 DEF AllTold, n
  <2>1. ToldRight(i)
    BY <1>2 DEF NamesKept, AllTold, n
  <2>2. tags[i].str.cell # 0 => cells'[tags[i].str.cell] = cells[tags[i].str.cell]
    BY <1>19, <1>20
  <2> DEFINE t == tags[i]
  <2> HIDE DEF t
  <2>3. ToldAs(t, cells', triplets) = ToldAs(t, cells, triplets)
    BY <2>2 DEF ToldAs, t
  <2> QED  BY <1>1, <2>1, <2>3 DEF ToldRight, t
<1>24. Handling => Pending'
  <2>1. Handling => Pending
    BY <1>2 DEF NamesKept
  <2> QED  BY <1>1, <2>1 DEF Pending
<1>25. NamesKept'
  <2>1. WorkName'
    BY DEF WorkName
  <2> QED  BY <1>5, <1>22, <1>23, <1>24, <2>1 DEF NamesKept
<1>26. MarksKept'
  <2>1. ToSet(work'.bindings) = {c} \cup ToSet(work.bindings) /\ ToSet(work.bindings) \subseteq Below(Held, Depth + 1)
    <3>1. Depth \in 0 .. Depth
      BY <1>3
    <3>2. work.bindings \in Seq(1..m) /\ ToSet(work.bindings) \subseteq Below(Held, Depth + 1)
      <4> HIDE DEF Held, Depth
      <4> QED  BY <1>3, <1>16, <3>1, HeldCells, BelowFacts
    <3>3. work.bindings \in Seq((1..m) \cup {c})
      BY <3>2, SeqMonotonic
    <3>4. ToSet(<<c>> \o work.bindings) = {c} \cup ToSet(work.bindings)
      BY <3>3, ConsSet
    <3> QED  BY <1>8, <3>2, <3>4
  <2> HIDE DEF Held, Depth
  <2>2. From = 1 /\ From' = 1
    BY DEF From
  <2> SUFFICES ASSUME NEW x \in AttNames, flags'[x] # 0
               PROVE  \/ \E j \in From' .. Len(work'.atts) : work'.atts[j].name = x
                      \/ \E d \in ToSet(work'.bindings) : cells'[d].att = x
    BY <1>5 DEF MarksKept
  <2>3. CASE x = name
    BY <1>8, <2>1, <2>3
  <2>4. CASE flags[x] # 0
    <3>1. (\E j \in 1 .. Len(work.atts) : work.atts[j].name = x) \/ \E d \in ToSet(work.bindings) : cells[d].att = x
      BY <1>2, <2>2, <2>4 DEF MarksKept
    <3>2. CASE \E j \in 1 .. Len(work.atts) : work.atts[j].name = x
      BY <2>2, <3>2
    <3>3. CASE \E d \in ToSet(work.bindings) : cells[d].att = x
      <4>1. PICK d \in ToSet(work.bindings) : cells[d].att = x
        BY <3>3
      <4>2. d \in 1..m /\ d # c
        BY <1>8, <1>17, <2>1
      <4> QED  BY <1>8, <2>1, <4>1, <4>2
    <3> QED  BY <3>1, <3>2, <3>3
  <2> QED  BY <2>3, <2>4
<1> QED  BY <1>9, <1>10, <1>11, <1>12, <1>13, <1>14, <1>15, <1>25, <1>26 DEF ContentInv, Typed

(* A declaration, made or refused.                                         *)
LEMMA BindStep ==
  ASSUME ContentInv, error = "NONE", call = "running", work.at \in {"attributes", "defaults"}, NEW att,
         DeclaredPrefix(att.name) \in NsPrefixes, att.value \in Uris, NEW mark \in {flags, Marked(att.name)},
         BindPrefix(att, mark), UNCHANGED <<nsAtts, idIndex>>
  PROVE  ContentInv'
<1> DEFINE prefix == DeclaredPrefix(att.name)
           bad == BindingError(prefix, att.value)
           code == IF bad = "NONE" THEN "NO_MEMORY" ELSE bad
           b == AddBinding(Bound4, prefix, att.name, att.value)
<1>1. flags' = mark /\ flags' \in [AttNames -> 0..2]
  <2>1. flags \in [AttNames -> 0..2]
    BY DEF ContentInv, Typed, TypedAtts
  <2>2. Marked(att.name) \in [AttNames -> 0..2]
    BY <2>1, MarkedTyped
  <2>3. flags' = mark
    BY DEF BindPrefix
  <2> QED  BY <2>1, <2>2, <2>3
<1>2. CASE FailInTag(code)
  <2>1. TypedAtts'
    BY <1>1 DEF ContentInv, Typed, TypedAtts
  <2>2. code # "NONE"
    OBVIOUS
  <2> HIDE DEF code
  <2> QED  BY <1>2, <2>1, <2>2, FailedInTag DEF StoringAtts
<1>3. CASE ~FailInTag(code)
  <2>1. /\ bound' = b.bound /\ cells' = b.cells /\ freeBindings' = b.free
        /\ work' = [work EXCEPT !.bindings = b.list, !.i = @ + 1]
        /\ UNCHANGED <<ns, triplets, startLevel, processor, via, call, final, error, tags, inherited, over>> /\ Stopped
    BY <1>3 DEF BindPrefix, Bound4, Handler, setup, callVars
  <2>2. DOMAIN work = WorkFields /\ work.i \in Nat \ {0}
    BY DEF ContentInv, Typed, TypedWork
  <2> HIDE DEF prefix
  <2>3. b.bound = b.bound /\ DOMAIN b = {"bound", "cells", "free", "list"} /\ b = [bound |-> b.bound, cells |-> b.cells, free |-> b.free, list |-> b.list]
    BY DEF AddBinding
  <2> HIDE DEF b
  <2>4. /\ DOMAIN work' = WorkFields /\ work'.at = work.at /\ work'.tag = work.tag /\ work'.empty = work.empty
        /\ work'.atts = work.atts /\ work'.i \in Nat \ {0} /\ work'.bindings = b.list
    BY <2>1, <2>2 DEF WorkFields
  <2>5. Bound4' = b
    BY <2>1, <2>3, <2>4 DEF Bound4
  <2>6. PICK c : Declared(c, att.name)
    BY <2>1, <2>5, BindDeclares DEF b, prefix
  <2>7. \A x \in AttNames : flags'[x] # 0 => x = att.name \/ flags[x] # 0
    <3>1. flags' = flags \/ flags' = Marked(att.name)
      BY <1>1
    <3>2. flags \in [AttNames -> 0..2]
      BY DEF ContentInv, Typed, TypedAtts
    <3> DEFINE v == IF Prefixed(att.name) /\ ~Declares(att.name) THEN 2 ELSE 1
    <3>3. Marked(att.name) = [flags EXCEPT ![att.name] = v]
      BY DEF Marked
    <3> HIDE DEF v
    <3> QED  BY <3>1, <3>2, <3>3
  <2> QED  BY <1>1, <2>1, <2>4, <2>6, <2>7, DeclaredStep
<1> QED  BY <1>2, <1>3

(* An attribute of the tag or a default.                                   *)
LEMMA AttributeStep ==
  ASSUME ContentInv, Attribute \/ Default
  PROVE  ContentInv'
<1> DEFINE tag == work.tag
<1>1. error = "NONE" /\ call = "running" /\ work.at \in {"attributes", "defaults"} /\ nsAtts' = nsAtts /\ idIndex' = idIndex
  BY DEF Attribute, Default, At, attVars
<1>2. StoringAtts /\ work.tag \in StartTags /\ work.i \in Nat \ {0}
  BY <1>1 DEF ContentInv, Typed, TypedWork, StoringAtts
<1>3. PICK list \in {tag.atts, Defaults(tag.name)} :
        /\ work.i <= Len(list)
        /\ \/ FailInTag("DUPLICATE_ATTRIBUTE") /\ flags' = flags
           \/ \E mark \in {flags, Marked(list[work.i].name)} : BindPrefix(list[work.i], mark)
           \/ Listed(list[work.i], Marked(list[work.i].name))
           \/ work.at = "defaults" /\ Skip
  <2>1. CASE Attribute
    <3> DEFINE att == tag.atts[work.i]
    <3>1. /\ work.i <= Len(tag.atts)
          /\ \/ FailInTag("DUPLICATE_ATTRIBUTE") /\ flags' = flags
             \/ BindPrefix(att, Marked(att.name))
             \/ Listed(att, Marked(att.name))
      BY <2>1 DEF Attribute, attVars
    <3> QED  BY <3>1
  <2>2. CASE Default
    <3> DEFINE att == Defaults(tag.name)[work.i]
    <3>1. /\ work.i <= Len(Defaults(tag.name)) /\ work.at = "defaults"
          /\ Skip \/ BindPrefix(att, flags) \/ Listed(att, Marked(att.name))
      BY <2>2 DEF Default, At
    <3> QED  BY <3>1
  <2> QED  BY <2>1, <2>2
<1> DEFINE att == list[work.i]
<1>4. DeclaredPrefix(att.name) \in NsPrefixes /\ att.value \in Uris
  BY <1>2, <1>3, AttFacts
<1> HIDE DEF att
<1>5. CASE FailInTag("DUPLICATE_ATTRIBUTE") /\ flags' = flags
  <2>1. TypedAtts'
    BY <1>1, <1>5 DEF ContentInv, Typed, TypedAtts
  <2> QED  BY <1>1, <1>2, <1>5, <2>1, FailedInTag
<1>6. CASE \E mark \in {flags, Marked(att.name)} : BindPrefix(att, mark)
  BY <1>1, <1>4, <1>6, BindStep
<1>7. CASE Listed(att, Marked(att.name))
  BY <1>1, <1>7, ListedStep
<1>8. CASE work.at = "defaults" /\ Skip
  BY <1>1, <1>8, SkipStep
<1> QED  BY <1>3, <1>5, <1>6, <1>7, <1>8 DEF att

-----------------------------------------------------------------------------
(* The end of an element.                                                  *)
LEMMA HeldPopped ==
  ASSUME Len(tags) \in Nat, UNCHANGED <<tags, inherited>>, work.bindings # <<>>, work'.bindings = Tail(work.bindings),
         freeBindings' = <<Head(work.bindings)>> \o freeBindings
  PROVE  Popped(Held, Depth, freeBindings, Held', freeBindings') /\ Depth' = Depth /\ Held[Depth] = work.bindings
<1>1. Leads(Held, Depth, Held', work'.bindings) /\ Depth' = Depth
  BY HeldLed
<1>2. Held[Depth] = work.bindings
  BY DEF Held, Depth
<1> HIDE DEF Held, Depth
<1> QED  BY <1>1, <1>2 DEF Popped, Leads

(* A binding goes to the free list.                                        *)
Emptied(all, all2, c) ==
  /\ IsSeq(all2) /\ Len(all2) = Len(all) /\ IsCell(all2[c])
  /\ \A x \in 1 .. Len(all) : x # c => all2[x] = all[x]

(* A cell that is put on the free list.                                    *)
LEMMA Empty ==
  ASSUME NEW all, IsSeq(all), NEW c \in 1 .. Len(all), IsCell(all[c])
  PROVE  Emptied(all, [all EXCEPT ![c] = Freed(all[c])], c)
<1> DEFINE d == Freed(all[c])
           all2 == [all EXCEPT ![c] = d]
<1>1. DOMAIN all[c] = CellFields
  BY DEF IsCell
<1>2. DOMAIN d = CellFields /\ d.prefix = "" /\ d.gen = 0
  BY <1>1 DEF Freed, CellFields
<1> HIDE DEF d
<1>3. IsCell(d)
  <2>1. "" \in NsPrefixes
    BY ContentAssumption
  <2>2. d.prefix = "" /\ d.gen = 0 /\ DOMAIN d = CellFields
    BY <1>2, Zenon
  <2>3. d.prefix \in NsPrefixes
    BY <2>1, <2>2, Zenon
  <2>4. d.gen = 0
    BY <1>2, Zenon
  <2>5. 0 \in Nat
    OBVIOUS
  <2>6. d.gen \in Nat
    BY <2>4, <2>5, Zenon
  <2> QED  BY <2>2, <2>3, <2>6, Zenon DEF IsCell
<1>4. DOMAIN all = 1 .. Len(all) /\ Len(all) \in Nat
  BY AnySeq
<1>5. all2[c] = d /\ \A x \in 1 .. Len(all) : x # c => all2[x] = all[x]
  BY <1>4
<1>6. DOMAIN all2 = DOMAIN all /\ all2 = [i \in DOMAIN all |-> all2[i]]
  OBVIOUS
<1> HIDE DEF all2
<1>7. IsSeq(all2) /\ Len(all2) = Len(all)
  BY <1>6, AnyExcept
<1>8. Emptied(all, all2, c)
  BY <1>3, <1>5, <1>7 DEF Emptied
<1> QED  BY <1>8 DEF all2, d

(* One binding of the element is withdrawn.                                *)
LEMMA WithdrawStep ==
  ASSUME ContentInv, Withdraw
  PROVE  ContentInv'
<1> DEFINE n == Len(tags)
           m == Len(cells)
           c == Head(work.bindings)
           rest == Tail(work.bindings)
<1>1. /\ error = "NONE" /\ call = "running" /\ work.at = "withdraw" /\ work.bindings # <<>> /\ Stopped
      /\ bound' = [bound EXCEPT ![cells[c].prefix] = cells[c].prev]
      /\ freeBindings' = <<c>> \o freeBindings
      /\ cells' = [cells EXCEPT ![c] = Freed(cells[c])]
      /\ work' = [work EXCEPT !.bindings = rest]
      /\ ns' = ns /\ triplets' = triplets /\ startLevel' = startLevel /\ processor' = processor /\ via' = via
      /\ call' = call /\ final' = final /\ error' = error /\ inherited' = inherited /\ flags' = flags /\ nsAtts' = nsAtts
      /\ idIndex' = idIndex /\ tags' = tags /\ over' = over
  BY DEF Withdraw, At, Handler, setup, callVars, attVars
<1>2. Typed /\ Control /\ RawKept /\ Bindings /\ NamesKept /\ MarksKept
  BY DEF ContentInv
<1>3. DOMAIN work = WorkFields
  BY <1>2 DEF Typed, TypedWork
<1>4. /\ DOMAIN work' = WorkFields /\ work'.at = "withdraw" /\ work'.tag = work.tag /\ work'.empty = work.empty
      /\ work'.bindings = rest /\ work'.atts = work.atts /\ work'.i = work.i
  BY <1>1, <1>3 DEF WorkFields
<1>5. ~Handling /\ ~Handling' /\ ~StoringAtts /\ ~StoringAtts'
  BY <1>1, <1>4 DEF Handling, StoringAtts
<1>6. n \in Nat /\ m \in Nat /\ IsSeq(cells) /\ \A x \in 1..m : IsCell(cells[x])
  BY <1>2, AnySeq DEF Typed, TypedTags, TypedCells
<1>7. Popped(Held, Depth, freeBindings, Held', freeBindings') /\ Depth' = Depth /\ Held[Depth] = work.bindings
  BY <1>1, <1>4, <1>6, HeldPopped
<1>8. Depth = n + 1 /\ Depth \in Nat /\ Depth \in 0 .. Depth
  <2>1. Depth = n + 1
    BY DEF Depth
  <2> HIDE DEF Depth
  <2> QED  BY <1>6, <2>1
<1>9. /\ Parted(Held, Depth, freeBindings, m) /\ Chained(Held, Depth, Prefix(cells), Prev(cells), bound)
      /\ \A x \in Below(Held, Depth + 1) : cells[x].uri \in Uris
  BY <1>1, <1>2 DEF Bindings
<1> HIDE DEF Held, Depth, n, m, c, rest
<1>10. c = Head(Held[Depth])
  BY <1>7 DEF c
<1>11. /\ Parted(Held', Depth, freeBindings', m)
       /\ Below(Held, Depth + 1) = Below(Held', Depth + 1) \cup {c}
       /\ c \notin Below(Held', Depth + 1)
       /\ SameBelow(Held, Held', Depth)
  BY <1>7, <1>9, <1>10, PopParted
<1>12. Below(Held, Depth + 1) \subseteq 1..m /\ c \in 1..m
  <2>1. Below(Held, Depth + 1) \subseteq 1..m
    BY <1>9, HeldCells
  <2> QED  BY <1>11, <2>1
<1>13. Prev(cells)[c] \in 0..m /\ cells[c].prev = Prev(cells)[c] /\ cells[c].prefix = Prefix(cells)[c]
  <2>1. Held[Depth] \in Seq(1..m)
    BY <1>8, <1>9, HeldCells
  <2>2. Held[Depth] # <<>>
    BY <1>1, <1>7
  <2>3. Len(Held[Depth]) \in Nat \ {0} /\ c = Held[Depth][1]
    BY <1>10, <2>1, <2>2, Uncons
  <2>4. 1 \in 1 .. Len(Held[Depth])
    BY <2>3
  <2>5. Prev(cells)[c] \in 0..m
    BY <1>8, <1>9, <2>3, <2>4, PrevCells
  <2> QED  BY <1>12, <2>5 DEF Prev, Prefix, m
<1>14. Emptied(cells, cells', c)
  BY <1>1, <1>6, <1>12, Empty DEF m
<1>15. IsSeq(cells') /\ Len(cells') = m /\ (\A x \in 1..m : IsCell(cells'[x])) /\ \A x \in 1..m : x # c => cells'[x] = cells[x]
  BY <1>6, <1>14 DEF Emptied, m
<1>16. bound \in [NsPrefixes -> 0..m] /\ bound' \in [NsPrefixes -> 0..m]
  <2>1. bound \in [NsPrefixes -> 0..m]
    BY <1>2 DEF Typed, TypedCells, m
  <2> QED  BY <1>1, <1>13, <2>1
<1>17. TypedCells'
  BY <1>15, <1>16 DEF TypedCells
<1>18. TypedTags' /\ TypedAtts'
  BY <1>1, <1>2 DEF Typed, TypedTags, TypedAtts
<1>19. TypedFlow'
  <2>1. status' \in {"PARSING", "SUSPENDED", "FINISHED"}
    BY <1>1, <1>2, StatusTyped
  <2> QED  BY <1>1, <1>2, <2>1 DEF Typed, TypedFlow
<1>20. TypedWork'
  BY <1>1, <1>2, <1>4, <1>5 DEF Typed, TypedWork
<1>21. Control'
  BY <1>1, <1>2, <1>4, <1>5 DEF Control
<1>22. Chained(Held', Depth, Prefix(cells'), Prev(cells'), bound')
  <2>1. \A x \in 1..m : x # c => Prefix(cells')[x] = Prefix(cells)[x] /\ Prev(cells')[x] = Prev(cells)[x]
    BY <1>15 DEF Prefix, Prev, m
  <2>2. \A q \in NsPrefixes : bound'[q] = IF q = Prefix(cells)[c] THEN Prev(cells)[c] ELSE bound[q]
    BY <1>1, <1>13, <1>16
  <2>3. Unbound(Prefix(cells), Prev(cells), bound, Prefix(cells'), Prev(cells'), bound', m, c)
    BY <2>1, <2>2 DEF Unbound
  <2> QED  BY <1>7, <1>9, <1>10, <2>3, PopChained
<1>23. Bindings'
  <2>1. \A x \in Below(Held', Depth + 1) : cells'[x].uri \in Uris
    BY <1>9, <1>11, <1>12, <1>15
  <2> QED  BY <1>7, <1>11, <1>15, <1>22, <2>1 DEF Bindings
<1>24. RawKept'
  BY <1>1, <1>2, RawSame DEF RawKept
<1>25. MarksKept'
  BY <1>1, <1>2, <1>5 DEF MarksKept
<1>26. ASSUME NEW i \in 1..n PROVE Reaches(i) = i + 1 /\ Reaches(i)' = i + 1 /\ Below(Held', i + 1) = Below(Held, i + 1)
                                   /\ Below(Held', i + 1) \subseteq Below(Held', Depth + 1)
  <2>1. i + 1 \in 0 .. Depth /\ i + 1 \in 0 .. Depth + 1
    BY <1>6, <1>8
  <2>2. Below(Held', i + 1) \subseteq Below(Held', Depth + 1)
    BY <1>8, <2>1, BelowFacts
  <2> QED  BY <1>5, <1>11, <2>1, <2>2 DEF Reaches, SameBelow
<1>27. \A i \in 1..n : NameKept(i)
  BY <1>1, <1>2 DEF NamesKept, AllKept, n
<1>28. ASSUME NEW i \in 1..n, tags[i].str.cell # 0
       PROVE  cells'[tags[i].str.cell] = cells[tags[i].str.cell] /\ tags[i].str.cell \in Below(Held, Reaches(i))'
  <2> DEFINE x == tags[i].str.cell
  <2>1. x \in Below(Held, Reaches(i))
    BY <1>27, <1>28 DEF NameKept
  <2> HIDE DEF x, Reaches
  <2>2. x \in Below(Held', i + 1) /\ x \in Below(Held', Depth + 1)
    BY <1>26, <2>1
  <2>3. x \in 1..m /\ x # c
    BY <1>11, <1>12, <2>2
  <2> QED  BY <1>15, <1>26, <2>2, <2>3 DEF x
<1>29. AllKept'
  <2> SUFFICES ASSUME NEW i \in 1..n PROVE NameKept(i)'
    BY <1>1 DEF AllKept, n
  <2>1. NameKept(i)
    BY <1>27
  <2>2. tags[i].str.cell # 0 => cells'[tags[i].str.cell] = cells[tags[i].str.cell] /\ tags[i].str.cell \in Below(Held, Reaches(i))'
    BY <1>28
  <2> HIDE DEF Reaches, Below
  <2> QED  BY <1>1, <2>1, <2>2 DEF NameKept
<1>30. AllTold'
  <2> SUFFICES ASSUME NEW i \in 1..n PROVE ToldRight(i)'
    BY <1>1 DEF AllTold, n
  <2>1. ToldRight(i)
    BY <1>1, <1>2, <1>5 DEF NamesKept, AllTold, n
  <2>2. tags[i].str.cell # 0 => cells'[tags[i].str.cell] = cells[tags[i].str.cell]
    BY <1>28
  <2> DEFINE t == tags[i]
  <2> HIDE DEF t
  <2>3. ToldAs(t, cells', triplets) = ToldAs(t, cells, triplets)
    BY <2>2 DEF ToldAs, t
  <2> QED  BY <1>1, <2>1, <2>3 DEF ToldRight, t
<1>31. NamesKept'
  BY <1>4, <1>5, <1>29, <1>30 DEF NamesKept, WorkName
<1> QED  BY <1>17, <1>18, <1>19, <1>20, <1>21, <1>23, <1>24, <1>25, <1>31 DEF ContentInv, Typed

-----------------------------------------------------------------------------
(* End tags.                                                               *)
(* The end of a name is written again: nothing else of the binding changes.*)
LEMMA Rewrite ==
  ASSUME NEW all, IsSeq(all), NEW c \in 1 .. Len(all), IsCell(all[c]), NEW tail
  PROVE  Refilled(all, [all EXCEPT ![c].tail = tail], c, all[c].gen, tail)
<1> DEFINE d == [all[c] EXCEPT !.tail = tail]
           all2 == [all EXCEPT ![c] = d]
<1>1. DOMAIN all[c] = CellFields /\ all[c].prefix \in NsPrefixes /\ all[c].gen \in Nat
  BY DEF IsCell
<1>2. /\ DOMAIN d = CellFields /\ d.gen = all[c].gen /\ d.tail = tail
      /\ d.prefix = all[c].prefix /\ d.uri = all[c].uri /\ d.prev = all[c].prev /\ d.att = all[c].att
  BY <1>1 DEF CellFields
<1> HIDE DEF d
<1>3. IsCell(d)
  BY <1>1, <1>2 DEF IsCell
<1>4. DOMAIN all = 1 .. Len(all) /\ Len(all) \in Nat
  BY AnySeq
<1>5. all2[c] = d /\ \A x \in 1 .. Len(all) : x # c => all2[x] = all[x]
  BY <1>4
<1>6. DOMAIN all2 = DOMAIN all /\ all2 = [i \in DOMAIN all |-> all2[i]]
  OBVIOUS
<1> HIDE DEF all2
<1>7. IsSeq(all2) /\ Len(all2) = Len(all)
  BY <1>6, AnyExcept
<1>8. Refilled(all, all2, c, all[c].gen, tail)
  BY <1>2, <1>3, <1>5, <1>7 DEF Refilled
<1> QED  BY <1>8 DEF all2, d

(* The lists when the innermost tag goes and its bindings are withdrawn.   *)
LEMMA HeldDropped ==
  ASSUME Len(tags) \in Nat \ {0}, Len(tags') = Len(tags) - 1, \A i \in 1 .. Len(tags) - 1 : tags'[i] = tags[i],
         UNCHANGED inherited, work.bindings = <<>>, work'.bindings = tags[Len(tags)].bindings
  PROVE  Dropped(Held, Depth, Held') /\ Depth' = Len(tags)
<1> DEFINE n == Len(tags)
           k == Len(tags) + 1
<1>1. Depth' = n /\ Depth = k /\ n \in Nat \ {0} /\ k \in Nat /\ k # 0 /\ k - 1 = n /\ k # n
  BY DEF Depth
<1>2. \A i \in 0..n : i # n /\ i # 0 => i \in 1 .. n - 1
  BY <1>1
<1>3. \A i \in 0..n : i # k /\ i \in 0..k
  BY <1>1
<1> HIDE DEF k
<1>4. Held = [i \in 0..k |-> IF i = 0 THEN inherited ELSE IF i = k THEN work.bindings ELSE tags[i].bindings]
  BY <1>1 DEF Held
<1>5. Held' = [i \in 0..n |-> IF i = 0 THEN inherited ELSE IF i = n THEN work'.bindings ELSE tags'[i].bindings]
  BY <1>1 DEF Held
<1>6. \A i \in 1 .. n - 1 : tags'[i] = tags[i]
  OBVIOUS
<1>7. work'.bindings = tags[n].bindings /\ inherited' = inherited
  OBVIOUS
<1> HIDE DEF n
<1>8. \A i \in 0..n : Held'[i] = Held[i]
  BY <1>2, <1>3, <1>4, <1>5, <1>6, <1>7
<1>9. Held[k] = <<>>
  <2>1. k \in 0..k
    BY <1>1
  <2> QED  BY <1>1, <1>4, <2>1
<1>10. DOMAIN Held' = 0..n
  BY <1>5
<1> QED  BY <1>1, <1>8, <1>9, <1>10 DEF Dropped, n

(* What the end of the innermost element does, but for the call.           *)
Ended ==
  /\ error = "NONE" /\ call = "running" /\ work.at = "token" /\ processor = "content"
  /\ cells' = Rewritten(Last(tags)) /\ tags' = Front(tags) /\ over' = (Level = 1)
  /\ work' = [NoWork EXCEPT !.at = "withdraw", !.bindings = Last(tags).bindings]
  /\ ns' = ns /\ triplets' = triplets /\ startLevel' = startLevel /\ processor' = processor /\ via' = via
  /\ call' = call /\ final' = final /\ error' = error /\ inherited' = inherited /\ flags' = flags /\ nsAtts' = nsAtts
  /\ idIndex' = idIndex /\ bound' = bound /\ freeBindings' = freeBindings

(* The name of the innermost tag is written where it was.                  *)
LEMMA EndCells ==
  ASSUME ContentInv, Ended, tags # <<>>
  PROVE  /\ IsSeq(cells') /\ Len(cells') = Len(cells) /\ \A x \in 1 .. Len(cells) : IsCell(cells'[x])
         /\ Prefix(cells') = Prefix(cells) /\ Prev(cells') = Prev(cells)
         /\ \A x \in 1 .. Len(cells) :
              cells'[x].uri = cells[x].uri /\ cells'[x].gen = cells[x].gen /\ cells'[x].att = cells[x].att
<1> DEFINE n == Len(tags)
           t == tags[n]
           c == t.str.cell
           m == Len(cells)
           tail == NameEnd(t.name, t.prefix, triplets)
<1>1. /\ IsSeq(cells) /\ m \in Nat /\ (\A x \in 1..m : IsCell(cells[x]))
      /\ IsSeq(tags) /\ n \in 1..n
  <2>1. /\ IsSeq(cells) /\ m \in Nat /\ (\A x \in 1..m : IsCell(cells[x])) /\ IsSeq(tags)
    BY AnySeq DEF ContentInv, Typed, TypedCells, TypedTags
  <2>2. n \in Nat \ {0}
    BY <2>1, AnyFront
  <2> QED  BY <2>1, <2>2
<1>2. Last(tags) = t
  BY <1>1, AnyFront
<1>3. NameKept(n)
  BY <1>1 DEF ContentInv, NamesKept, AllKept, Ended
<1>4. CASE t.local = Null
  <2>1. cells' = cells
    BY <1>2, <1>4 DEF Ended, Rewritten
  <2> QED  BY <1>1, <2>1
<1>5. CASE t.local # Null
  <2>1. c # 0 /\ c \in Below(Held, Reaches(n))
    BY <1>3, <1>5 DEF NameKept
  <2>2. ~Handling
    BY DEF Handling, StoringAtts, Ended
  <2>3. Reaches(n) = n + 1
    BY <2>2 DEF Reaches
  <2>4. Depth = n + 1 /\ Depth \in Nat /\ n + 1 \in 0 .. Depth + 1
    <3>1. Depth = n + 1
      BY DEF Depth
    <3> HIDE DEF Depth
    <3> QED  BY <1>1, <3>1
  <2>5. Parted(Held, Depth, freeBindings, m)
    BY DEF ContentInv, Bindings
  <2> HIDE DEF Held, Depth, Below, Reaches, c, m
  <2>6. c \in 1..m
    BY <2>1, <2>3, <2>4, <2>5, HeldCells, BelowFacts
  <2>7. cells' = [cells EXCEPT ![c].tail = tail]
    BY <1>2, <1>5 DEF Ended, Rewritten, NameEnd, c
  <2> HIDE DEF tail
  <2>8. Refilled(cells, cells', c, cells[c].gen, tail)
    BY <1>1, <2>6, <2>7, Rewrite DEF m
  <2>9. /\ Prefix(cells') = Prefix(cells) /\ Prev(cells') = Prev(cells)
        /\ \A x \in 1 .. Len(cells) : cells'[x].uri = cells[x].uri /\ cells'[x].att = cells[x].att
    BY <1>1, <2>6, <2>8, RefillKeeps DEF m
  <2>10. IsSeq(cells') /\ Len(cells') = m /\ \A x \in 1..m : IsCell(cells'[x]) /\ cells'[x].gen = cells[x].gen
    BY <1>1, <2>8 DEF Refilled, m
  <2> QED  BY <2>9, <2>10 DEF m
<1> QED  BY <1>4, <1>5

(* The innermost tag is taken off the stack.                               *)
LEMMA EndedStep ==
  ASSUME ContentInv, Ended, Level > startLevel, Stopped
  PROVE  ContentInv'
<1> DEFINE n == Len(tags)
           m == Len(cells)
<1>1. Typed /\ Control /\ RawKept /\ Bindings /\ NamesKept /\ MarksKept
  BY DEF ContentInv
<1>2. n \in Nat \ {0} /\ tags # <<>> /\ IsSeq(tags) /\ startLevel \in {0, 1}
  <2>1. n \in Nat /\ IsSeq(tags) /\ startLevel \in {0, 1}
    BY <1>1, AnySeq DEF Typed, TypedTags, TypedFlow
  <2>2. n # 0
    BY <2>1 DEF Level
  <2> QED  BY <2>1, <2>2, NoneSet
<1>3. Last(tags) = tags[n] /\ IsSeq(tags') /\ Len(tags') = n - 1 /\ \A i \in 1 .. n - 1 : tags'[i] = tags[i]
  BY <1>2, AnyFront DEF Ended
<1>4. /\ error = "NONE" /\ error' = "NONE" /\ work.at = "token" /\ work.bindings = <<>>
      /\ DOMAIN work' = WorkFields /\ work'.at = "withdraw" /\ work'.empty = FALSE
      /\ work'.bindings = tags[n].bindings /\ work'.atts = <<>> /\ work'.i = 1
  BY <1>1, <1>3 DEF Ended, Control, NoWork, WorkFields
<1>5. ~Handling /\ ~Handling' /\ ~StoringAtts /\ ~StoringAtts'
  BY <1>4 DEF Handling, StoringAtts
<1>6. /\ IsSeq(cells') /\ Len(cells') = m /\ (\A x \in 1..m : IsCell(cells'[x]))
      /\ Prefix(cells') = Prefix(cells) /\ Prev(cells') = Prev(cells)
      /\ \A x \in 1..m : cells'[x].uri = cells[x].uri /\ cells'[x].gen = cells[x].gen
  BY <1>2, EndCells
<1>7. Dropped(Held, Depth, Held') /\ Depth' = n /\ Depth = n + 1
  <2>1. Dropped(Held, Depth, Held') /\ Depth' = n
    BY <1>2, <1>3, <1>4, HeldDropped DEF Ended
  <2> QED  BY <2>1 DEF Depth
<1>8. /\ Parted(Held, Depth, freeBindings, m) /\ Chained(Held, Depth, Prefix(cells), Prev(cells), bound)
      /\ \A x \in Below(Held, Depth + 1) : cells[x].uri \in Uris
  BY <1>1, <1>4 DEF Bindings
<1> HIDE DEF Held, Depth, m
<1>9. n = Depth - 1
  BY <1>2, <1>7
<1>10. /\ Parted(Held', n, freeBindings, m) /\ SameBelow(Held, Held', Depth)
       /\ Below(Held', n + 1) = Below(Held, Depth + 1) /\ KeepsChains(Held, Depth, Held', n)
  <2> HIDE DEF n
  <2> QED  BY <1>7, <1>8, <1>9, DropKeeps
<1>11. Below(Held, Depth + 1) \subseteq 1..m
  BY <1>8, HeldCells
<1>12. TypedFlow'
  <2>1. status' \in {"PARSING", "SUSPENDED", "FINISHED"}
    BY <1>1, StatusTyped
  <2>2. over' \in BOOLEAN
    BY Zenon DEF Ended
  <2> QED  BY <1>1, <2>1, <2>2 DEF Typed, TypedFlow, Ended
<1>13. TypedTags'
  <2>1. \A i \in 1 .. n - 1 : i \in 1..n
    BY <1>2
  <2>2. MaxDepth \in Nat
    BY ContentAssumption
  <2>3. n <= MaxDepth
    BY <1>1 DEF Typed, TypedTags
  <2>4. \A i \in 1..n : IsTag(tags[i])
    BY <1>1 DEF Typed, TypedTags
  <2> HIDE DEF n
  <2>5. n - 1 <= MaxDepth
    BY <1>2, <2>2, <2>3
  <2> QED  BY <1>3, <2>1, <2>4, <2>5 DEF TypedTags
<1>14. TypedCells'
  BY <1>1, <1>6 DEF Typed, TypedCells, Ended, m
<1>15. TypedAtts'
  BY <1>1 DEF Typed, TypedAtts, Ended
<1>16. TypedWork'
  <2>1. IsSeq(work'.atts) /\ work'.i \in Nat \ {0}
    BY <1>4, NoneSet DEF IsSeq
  <2>2. work'.empty \in BOOLEAN
    BY <1>4, Zenon
  <2> QED  BY <1>4, <1>5, <2>1, <2>2 DEF TypedWork, Places
<1>17. over' => Len(tags') = 0 /\ startLevel = 0
  <2>1. over' => Level = 1
    BY DEF Ended
  <2>2. Level = n + startLevel
    BY DEF Level
  <2> HIDE DEF Level, n
  <2>3. Level = 1 => n = 1 /\ startLevel = 0
    BY <1>2, <2>2
  <2> QED  BY <1>3, <2>1, <2>3
<1>18. Control'
  <2>1. call' = "running" /\ processor' = "content" /\ startLevel' = startLevel
    BY DEF Ended
  <2> QED  BY <1>4, <1>5, <1>17, <2>1 DEF Control
<1>19. Bindings'
  <2>1. Chained(Held', n, Prefix(cells), Prev(cells), bound)
    BY <1>8, <1>10 DEF KeepsChains
  <2>2. \A x \in Below(Held', n + 1) : cells'[x].uri \in Uris
    BY <1>6, <1>8, <1>10, <1>11
  <2>3. freeBindings' = freeBindings /\ bound' = bound
    BY DEF Ended
  <2> HIDE DEF n
  <2> QED  BY <1>6, <1>7, <1>10, <2>1, <2>2, <2>3 DEF Bindings
<1>20. RawKept'
  <2>1. \A i \in 1 .. n - 1 : i \in 1..n
    BY <1>2
  <2>2. call' = call /\ via' = via /\ call = "running" /\ processor = "content" /\ processor' = processor
    BY DEF Ended
  <2>3. \A i \in 1 .. n - 1 : tags'[i].raw = tags[i].raw
    BY <1>3
  <2>4. /\ \A i \in 1..n : tags[i].raw \in {"input", "own"}
        /\ \A i, j \in 1..n : i < j /\ tags[j].raw = "own" => tags[i].raw = "own"
        /\ via # "content" => \A i \in 1..n : tags[i].raw = "own"
        /\ via # "epilog" /\ via # "cdata"
    BY <1>1, <1>4, <2>2 DEF RawKept
  <2> HIDE DEF n
  <2> QED  BY <1>3, <1>4, <2>1, <2>2, <2>3, <2>4 DEF RawKept
<1>21. MarksKept'
  <2>1. flags' = flags
    BY DEF Ended
  <2> QED  BY <1>1, <1>4, <1>5, <2>1 DEF MarksKept
<1>22. ASSUME NEW i \in 1 .. n - 1 PROVE /\ Reaches(i) = i + 1 /\ Reaches(i)' = i + 1 /\ i \in 1..n /\ tags'[i] = tags[i]
                                        /\ Below(Held', i + 1) = Below(Held, i + 1)
                                        /\ Below(Held, i + 1) \subseteq 1..m
  <2>1. i + 1 \in 0 .. Depth /\ i + 1 \in 0 .. Depth + 1 /\ i \in 1..n /\ Depth \in Nat
    BY <1>2, <1>7
  <2>2. Below(Held, i + 1) \subseteq Below(Held, Depth + 1)
    BY <2>1, BelowFacts
  <2> QED  BY <1>3, <1>5, <1>10, <1>11, <2>1, <2>2 DEF Reaches, SameBelow
<1>23. \A i \in 1..n : NameKept(i)
  BY <1>1, <1>4 DEF NamesKept, AllKept
<1>24. ASSUME NEW i \in 1 .. n - 1, tags[i].str.cell # 0
       PROVE  /\ cells'[tags[i].str.cell].uri = cells[tags[i].str.cell].uri
              /\ cells'[tags[i].str.cell].gen = cells[tags[i].str.cell].gen
              /\ tags[i].str.cell \in Below(Held, Reaches(i))'
  <2> DEFINE x == tags[i].str.cell
  <2>1. i \in 1..n
    BY <1>22
  <2>2. x \in Below(Held, Reaches(i))
    BY <1>23, <1>24, <2>1 DEF NameKept
  <2> HIDE DEF x, Reaches
  <2>3. x \in Below(Held', i + 1) /\ x \in 1..m
    BY <1>22, <2>2
  <2> QED  BY <1>6, <1>22, <2>3 DEF x
<1>25. AllKept'
  <2> SUFFICES ASSUME NEW i \in 1 .. n - 1 PROVE NameKept(i)'
    BY <1>3 DEF AllKept
  <2>1. NameKept(i) /\ tags'[i] = tags[i]
    BY <1>22, <1>23
  <2>2. tags[i].str.cell # 0 => /\ cells'[tags[i].str.cell].gen = cells[tags[i].str.cell].gen
                                /\ tags[i].str.cell \in Below(Held, Reaches(i))'
    BY <1>24
  <2> HIDE DEF Reaches, Below
  <2> QED  BY <2>1, <2>2 DEF NameKept
<1>26. AllTold'
  <2> SUFFICES ASSUME NEW i \in 1 .. n - 1 PROVE ToldRight(i)'
    BY <1>3 DEF AllTold
  <2>1. i \in 1..n /\ tags'[i] = tags[i]
    BY <1>22
  <2>2. ToldRight(i)
    BY <1>1, <1>4, <1>5, <2>1 DEF NamesKept, AllTold
  <2>3. tags[i].str.cell # 0 => cells'[tags[i].str.cell].uri = cells[tags[i].str.cell].uri
    BY <1>24
  <2> DEFINE t == tags[i]
  <2> HIDE DEF t
  <2>4. ToldAs(t, cells', triplets) = ToldAs(t, cells, triplets)
    BY <2>3 DEF ToldAs, t
  <2>5. triplets' = triplets
    BY DEF Ended
  <2> QED  BY <2>1, <2>2, <2>4, <2>5 DEF ToldRight, t
<1>27. NamesKept'
  BY <1>4, <1>5, <1>25, <1>26 DEF NamesKept, WorkName
<1> QED  BY <1>12, <1>13, <1>14, <1>15, <1>16, <1>18, <1>19, <1>20, <1>21, <1>27 DEF ContentInv, Typed

(* An end tag, refused or taken.                                           *)
LEMMA EndTagStep ==
  ASSUME ContentInv, NEW name, EndTag(name)
  PROVE  ContentInv'
<1>1. CASE Refuse("ASYNC_ENTITY") \/ Refuse("TAG_MISMATCH")
  BY <1>1, Failed DEF Refuse, NoHandler
<1>2. CASE ~Refuse("ASYNC_ENTITY") /\ ~Refuse("TAG_MISMATCH")
  <2>1. Ended /\ Level > startLevel /\ Stopped
    BY <1>2 DEF EndTag, Ended, Token, At, Handler, setup, callVars, attVars
  <2> QED  BY <2>1, EndedStep
<1> QED  BY <1>1, <1>2

-----------------------------------------------------------------------------
(* Every step.                                                             *)
(* A step that changes nothing.                                            *)
LEMMA StutterStep ==
  ASSUME ContentInv, UNCHANGED vars
  PROVE  ContentInv'
<1>1. /\ ns' = ns /\ triplets' = triplets /\ startLevel' = startLevel /\ processor' = processor /\ via' = via
      /\ call' = call /\ final' = final /\ status' = status /\ error' = error /\ tags' = tags
      /\ bound' = bound /\ cells' = cells /\ freeBindings' = freeBindings /\ inherited' = inherited
      /\ flags' = flags /\ nsAtts' = nsAtts /\ idIndex' = idIndex /\ work' = work /\ over' = over
  BY DEF vars
<1>2. Typed /\ Control /\ Bindings /\ NamesKept /\ RawKept /\ MarksKept
  BY DEF ContentInv
<1>3. TypedFlow' /\ TypedTags' /\ TypedCells' /\ TypedAtts'
  BY <1>1, <1>2 DEF Typed, TypedFlow, TypedTags, TypedCells, TypedAtts
<1>4. StoringAtts' = StoringAtts /\ Handling' = Handling
  BY <1>1 DEF StoringAtts, Handling
<1>5. TypedWork'
  BY <1>1, <1>2, <1>4 DEF Typed, TypedWork
<1>6. Control'
  BY <1>1, <1>2, <1>4 DEF Control
<1>7. Bindings'
  BY <1>1, <1>2, BindingsSame
<1>8. Held' = Held /\ Depth' = Depth
  BY <1>1, HeldSame
<1>9. AllKept' <=> AllKept
  <2>1. \A i : Reaches(i)' = Reaches(i)
    BY <1>1, <1>4, <1>8 DEF Reaches
  <2> HIDE DEF Held, Reaches
  <2> QED  BY <1>1, <1>8, <2>1 DEF AllKept, NameKept
<1>10. AllTold' <=> AllTold
  BY <1>1, <1>4 DEF AllTold, ToldRight
<1>11. WorkName' <=> WorkName
  <2> HIDE DEF Held, Depth
  <2> QED  BY <1>1, <1>8 DEF WorkName
<1>12. Pending' <=> Pending
  BY <1>1 DEF Pending
<1>13. NamesKept'
  BY <1>1, <1>2, <1>4, <1>9, <1>10, <1>11, <1>12 DEF NamesKept
<1>14. RawKept'
  BY <1>1, <1>2 DEF RawKept
<1>15. MarksKept'
  BY <1>1, <1>2, <1>4 DEF MarksKept, From
<1> QED  BY <1>3, <1>5, <1>6, <1>7, <1>13, <1>14, <1>15 DEF ContentInv, Typed

(* One lemma for every action.                                             *)
LEMMA NextInv ==
  ASSUME ContentInv, [Next]_vars
  PROVE  ContentInv'
<1>1. CASE Parse \/ Resume
  BY <1>1, EnterStep
<1>2. ASSUME NEW tag \in StartTags, NEW empty \in BOOLEAN, StartTag(tag, empty) PROVE ContentInv'
  <2>1. CASE empty = TRUE
    <3>1. StartTag(tag, TRUE)
      BY <1>2, <2>1
    <3> QED  BY <3>1, StartEmpty
  <2>2. CASE empty = FALSE
    <3>1. StartTag(tag, FALSE)
      BY <1>2, <2>2
    <3> QED  BY <3>1, StartOpen
  <2> QED  BY <2>1, <2>2
<1>3. CASE Attribute \/ Default
  BY <1>3, AttributeStep
<1>4. CASE AttributesDone
  BY <1>4, AttributesDoneStep
<1>5. CASE DefaultsDone
  BY <1>5, DefaultsDoneStep
<1>6. CASE Expand
  BY <1>6, ExpandStep
<1>7. CASE ElementName
  BY <1>7, ElementNameStep
<1>8. CASE StartCall
  BY <1>8, StartCallEmpty, StartCallOpen
<1>9. CASE EmptyEnd
  BY <1>9, EmptyEndStep
<1>10. CASE Withdraw
  BY <1>10, WithdrawStep
<1>11. CASE Left
  BY <1>11, LeftStep
<1>12. ASSUME NEW name \in Names, EndTag(name) PROVE ContentInv'
  BY <1>12, EndTagStep
<1>13. CASE Content \/ ExternalEntity \/ OpenCdata \/ Misc
  BY <1>13, ContentStep
<1>14. CASE CdataText \/ CloseCdata \/ CdataEnds
  BY <1>14, CdataStep
<1>15. CASE InvalidToken \/ Junk
  BY <1>15, RefusedStep
<1>16. CASE PieceEnds \/ TrailingText \/ Check
  BY <1>16, PieceStep
<1>17. CASE Return
  BY <1>17, ReturnStep
<1>18. CASE UNCHANGED vars
  BY <1>18, StutterStep
<1> HIDE DEF vars
<1> QED  BY <1>1, <1>2, <1>3, <1>4, <1>5, <1>6, <1>7, <1>8, <1>9, <1>10, <1>11, <1>12, <1>13, <1>14, <1>15,
            <1>16, <1>17, <1>18 DEF Next

(* The invariant holds in every state.                                     *)
LEMMA Inductive == Spec => []ContentInv
<1>1. ContentInv /\ [Next]_vars => ContentInv'
  BY NextInv
<1> QED  BY InitInv, <1>1, PTL DEF Spec

-----------------------------------------------------------------------------
(* Memory.                                                                 *)
(* The lists that XML_ParserFree goes through are those of the invariant.  *)
LEMMA AllLists ==
  ASSUME TypedTags, Parted(Held, Depth, freeBindings, Len(cells))
  PROVE  /\ DOMAIN Lists = 1 .. Len(tags) + 3 /\ Len(tags) \in Nat
         /\ \A i \in 1 .. Len(tags) + 2 : i - 1 \in 0 .. Depth /\ Lists[i] = Held[i - 1]
         /\ \A i \in 0 .. Depth : i + 1 \in 1 .. Len(tags) + 2
         /\ Lists[Len(tags) + 3] = freeBindings
<1> DEFINE n == Len(tags)
           S == Seq(1 .. Len(cells))
           a == <<inherited>>
           b == [i \in DOMAIN tags |-> tags[i].bindings]
           c == <<work.bindings, freeBindings>>
<1>1. n \in Nat /\ DOMAIN tags = 1..n
  BY AnySeq DEF TypedTags
<1>2. Depth = n + 1
  BY DEF Depth
<1>3. freeBindings \in S /\ \A i \in 0 .. Depth : Held[i] \in S
  BY DEF Parted
<1>4. Held[0] = inherited /\ Held[n + 1] = work.bindings /\ \A i \in 1..n : Held[i] = tags[i].bindings
  <2>1. 0 \in 0 .. Depth /\ n + 1 \in 0 .. Depth /\ n + 1 # 0 /\ \A i \in 1..n : i \in 0 .. Depth /\ i # 0 /\ i # Depth
    BY <1>1, <1>2
  <2> QED  BY <1>2, <2>1 DEF Held
<1> HIDE DEF Held, Depth, S
<1>5. inherited \in S /\ work.bindings \in S /\ \A i \in 1..n : tags[i].bindings \in S
  <2>1. 0 \in 0 .. Depth /\ n + 1 \in 0 .. Depth /\ \A i \in 1..n : i \in 0 .. Depth
    BY <1>1, <1>2
  <2> QED  BY <1>3, <1>4, <2>1
<1>6. a \in Seq(S) /\ c \in Seq(S) /\ Len(a) = 1 /\ Len(c) = 2
  BY <1>3, <1>5
<1>7. b \in Seq(S) /\ Len(b) = n
  <2> HIDE DEF n
  <2>1. b = [i \in 1..n |-> tags[i].bindings]
    BY <1>1
  <2>2. b \in [1..n -> S]
    BY <1>5, <2>1
  <2> HIDE DEF b
  <2>3. b \in Seq(S)
    BY <1>1, <2>2, SeqDef
  <2> QED  BY <1>1, <2>2, <2>3, LenProperties
<1>8. a[1] = inherited /\ c[1] = work.bindings /\ c[2] = freeBindings /\ \A i \in 1..n : b[i] = tags[i].bindings
  BY <1>1
<1>9. Lists = (a \o b) \o c
  BY DEF Lists
<1> HIDE DEF a, b, c, n
<1>10. /\ a \o b \in Seq(S) /\ Len(a \o b) = 1 + n
       /\ \A i \in 1 .. 1 + n : (a \o b)[i] = IF i <= 1 THEN a[i] ELSE b[i - 1]
  <2>1. /\ a \o b \in Seq(S) /\ Len(a \o b) = Len(a) + Len(b)
        /\ \A i \in 1 .. Len(a) + Len(b) : (a \o b)[i] = IF i <= Len(a) THEN a[i] ELSE b[i - Len(a)]
    BY <1>6, <1>7, ConcatProperties
  <2> QED  BY <1>6, <1>7, <2>1
<1> DEFINE d == a \o b
<1>11. d \in Seq(S) /\ Len(d) = 1 + n /\ \A i \in 1 .. 1 + n : d[i] = IF i <= 1 THEN a[i] ELSE b[i - 1]
  BY <1>10
<1> HIDE DEF d
<1>12. /\ d \o c \in Seq(S) /\ Len(d \o c) = 1 + n + 2
       /\ \A i \in 1 .. 1 + n + 2 : (d \o c)[i] = IF i <= 1 + n THEN d[i] ELSE c[i - (1 + n)]
  <2>1. /\ d \o c \in Seq(S) /\ Len(d \o c) = Len(d) + Len(c)
        /\ \A i \in 1 .. Len(d) + Len(c) : (d \o c)[i] = IF i <= Len(d) THEN d[i] ELSE c[i - Len(d)]
    BY <1>6, <1>11, ConcatProperties
  <2> QED  BY <1>6, <1>11, <2>1
<1>13. Lists = d \o c
  BY <1>9 DEF d
<1>14. DOMAIN Lists = 1 .. n + 3
  <2>1. Len(Lists) = n + 3
    BY <1>1, <1>12, <1>13
  <2> QED  BY <1>12, <1>13, <2>1, LenProperties
<1>15. \A i \in 1 .. n + 3 : Lists[i] = IF i <= 1 + n THEN d[i] ELSE c[i - (1 + n)]
  BY <1>1, <1>12, <1>13
<1>16. Lists[n + 3] = freeBindings
  <2>1. n + 3 \in 1 .. n + 3 /\ ~(n + 3 <= 1 + n) /\ (n + 3) - (1 + n) = 2
    BY <1>1
  <2> QED  BY <1>8, <1>15, <2>1
<1>17. ASSUME NEW i \in 1 .. n + 2 PROVE i - 1 \in 0 .. Depth /\ Lists[i] = Held[i - 1]
  <2>1. i \in 1 .. n + 3 /\ i - 1 \in 0 .. Depth
    BY <1>1, <1>2
  <2>2. CASE i = 1
    BY <1>1, <1>4, <1>8, <1>11, <1>15, <2>1, <2>2
  <2>3. CASE i = n + 2
    <3>1. ~(i <= 1 + n) /\ i - (1 + n) = 1 /\ i - 1 = n + 1
      BY <1>1, <2>3
    <3> QED  BY <1>4, <1>8, <1>15, <2>1, <3>1
  <2>4. CASE i # 1 /\ i # n + 2
    <3>1. i <= 1 + n /\ i \in 1 .. 1 + n /\ ~(i <= 1) /\ i - 1 \in 1..n
      BY <1>1, <2>4
    <3> QED  BY <1>4, <1>8, <1>11, <1>15, <2>1, <3>1
  <2> QED  BY <2>1, <2>2, <2>3, <2>4
<1>18. \A i \in 0 .. Depth : i + 1 \in 1 .. n + 2
  BY <1>1, <1>2
<1> QED  BY <1>1, <1>14, <1>16, <1>17, <1>18 DEF n

(* Every binding is on one list, at one place.                             *)
LEMMA OnceHolds == ContentInv => BindingsOnce
<1> SUFFICES ASSUME ContentInv PROVE BindingsOnce
  OBVIOUS
<1> DEFINE n == Len(tags)
           m == Len(cells)
<1>1. Parted(Held, Depth, freeBindings, m) /\ TypedTags
  BY DEF ContentInv, Bindings, Typed
<1>2. DOMAIN cells = 1..m
  BY AnySeq DEF ContentInv, Typed, TypedCells
<1>3. /\ DOMAIN Lists = 1 .. n + 3 /\ n \in Nat
      /\ \A i \in 1 .. n + 2 : i - 1 \in 0 .. Depth /\ Lists[i] = Held[i - 1]
      /\ \A i \in 0 .. Depth : i + 1 \in 1 .. n + 2
      /\ Lists[n + 3] = freeBindings
  BY <1>1, AllLists
<1> HIDE DEF Held, Depth, Lists, n, m
<1>4. /\ freeBindings \in Seq(1..m) /\ Once(freeBindings)
      /\ \A i \in 0 .. Depth : Held[i] \in Seq(1..m) /\ Once(Held[i]) /\ ToSet(Held[i]) \cap ToSet(freeBindings) = {}
      /\ \A i, j \in 0 .. Depth : i # j => ToSet(Held[i]) \cap ToSet(Held[j]) = {}
      /\ \A c \in 1..m : c \in ToSet(freeBindings) \/ \E i \in 0 .. Depth : c \in ToSet(Held[i])
  BY <1>1 DEF Parted
<1>5. \A i \in 1 .. n + 3 : i \in 1 .. n + 2 \/ i = n + 3
  BY <1>3
<1>6. \A i \in 1 .. n + 3 : Lists[i] \in Seq(1..m) /\ Once(Lists[i])
  BY <1>3, <1>4, <1>5
<1>7. ASSUME NEW i \in 1 .. n + 3, NEW j \in 1 .. n + 3, i # j PROVE ToSet(Lists[i]) \cap ToSet(Lists[j]) = {}
  <2>1. CASE i = n + 3
    BY <1>3, <1>4, <1>5, <1>7, <2>1
  <2>2. CASE j = n + 3
    BY <1>3, <1>4, <1>5, <1>7, <2>2
  <2>3. CASE i # n + 3 /\ j # n + 3
    <3>1. i \in 1 .. n + 2 /\ j \in 1 .. n + 2 /\ i - 1 # j - 1
      BY <1>5, <1>7, <2>3
    <3> QED  BY <1>3, <1>4, <3>1
  <2> QED  BY <2>1, <2>2, <2>3
<1>8. \A i \in 1 .. n + 3 : /\ DOMAIN Lists[i] = 1 .. Len(Lists[i])
                            /\ \A k \in DOMAIN Lists[i] : Lists[i][k] \in ToSet(Lists[i])
                            /\ ToSet(Lists[i]) \subseteq 1..m
  BY <1>6, SeqFacts
<1>9. ASSUME NEW i \in DOMAIN Lists, NEW j \in DOMAIN Lists, NEW k \in DOMAIN Lists[i], NEW l \in DOMAIN Lists[j],
             Lists[i][k] = Lists[j][l]
      PROVE  i = j /\ k = l
  <2>1. i = j
    <3>1. Lists[i][k] \in ToSet(Lists[i]) /\ Lists[j][l] \in ToSet(Lists[j])
      BY <1>3, <1>8
    <3> QED  BY <1>3, <1>7, <1>9, <3>1
  <2>2. Once(Lists[i]) /\ DOMAIN Lists[i] = 1 .. Len(Lists[i])
    BY <1>3, <1>6, <1>8
  <2>3. k \in 1 .. Len(Lists[i]) /\ l \in 1 .. Len(Lists[i]) /\ Lists[i][k] = Lists[i][l]
    BY <1>9, <2>1, <2>2
  <2>4. k = l
    BY <2>2, <2>3 DEF Once
  <2> QED  BY <2>1, <2>4
<1>10. UNION {ToSet(Lists[i]) : i \in DOMAIN Lists} = 1..m
  <2>1. ASSUME NEW c \in 1..m PROVE \E i \in DOMAIN Lists : c \in ToSet(Lists[i])
    <3>1. CASE c \in ToSet(freeBindings)
      <4>1. n + 3 \in 1 .. n + 3
        BY <1>3
      <4> QED  BY <1>3, <3>1, <4>1
    <3>2. CASE \E i \in 0 .. Depth : c \in ToSet(Held[i])
      <4>1. PICK i \in 0 .. Depth : c \in ToSet(Held[i])
        BY <3>2
      <4>2. Depth \in Nat
        BY <1>1 DEF Parted
      <4>3. i + 1 \in 1 .. n + 2 /\ (i + 1) - 1 = i
        BY <1>3, <4>1, <4>2
      <4>4. Lists[i + 1] = Held[i]
        BY <1>3, <4>3
      <4>5. i + 1 \in 1 .. n + 3
        BY <1>3, <4>3
      <4> QED  BY <1>3, <4>1, <4>4, <4>5
    <3> QED  BY <1>4, <3>1, <3>2
  <2>2. \A i \in DOMAIN Lists : ToSet(Lists[i]) \subseteq 1..m
    BY <1>3, <1>8
  <2> QED  BY <2>1, <2>2
<1> QED  BY <1>2, <1>9, <1>10 DEF BindingsOnce

(* No name of an open tag is in memory that is gone.                       *)
LEMMA AliveHolds == ContentInv => NamesAlive
<1> SUFFICES ASSUME ContentInv PROVE NamesAlive
  OBVIOUS
<1>1. ASSUME Between, NEW i \in DOMAIN tags
      PROVE  /\ tags[i].raw # "gone" /\ tags[i].local \in {Null, tags[i].gen}
             /\ IF tags[i].str.cell = 0 THEN tags[i].str.gen = tags[i].gen
                ELSE tags[i].str.gen = cells[tags[i].str.cell].gen /\ tags[i].str.cell \notin ToSet(freeBindings)
  <2>1. error = "NONE" /\ work.at = "token" /\ ~Handling
    BY <1>1 DEF Between, Handling, StoringAtts
  <2>2. i \in 1 .. Len(tags) /\ Len(tags) \in Nat
    BY <1>1, AnySeq DEF ContentInv, Typed, TypedTags
  <2>3. NameKept(i)
    BY <2>1, <2>2 DEF ContentInv, NamesKept, AllKept
  <2>4. tags[i].raw \in {"input", "own"}
    BY <2>1, <2>2 DEF ContentInv, RawKept
  <2>5. Reaches(i) = i + 1
    BY <2>1 DEF Reaches
  <2>6. Parted(Held, Depth, freeBindings, Len(cells)) /\ Depth = Len(tags) + 1
    BY DEF ContentInv, Bindings, Depth
  <2> HIDE DEF Held, Depth, Reaches
  <2>7. ASSUME NEW c \in Below(Held, Reaches(i)) PROVE c \notin ToSet(freeBindings)
    <3>1. PICK j \in 0 .. (i + 1) - 1 : c \in ToSet(Held[j])
      BY <2>5, <2>7 DEF Below
    <3>2. j \in 0 .. Depth
      BY <2>2, <2>6, <3>1
    <3>3. ToSet(Held[j]) \cap ToSet(freeBindings) = {}
      BY <2>6, <3>2 DEF Parted
    <3> QED  BY <3>1, <3>3
  <2> HIDE DEF Below
  <2> QED  BY <2>3, <2>4, <2>7 DEF NameKept
<1>2. error = "NONE" /\ work.at = "end" /\ work.str.cell # 0 => work.str.gen = cells[work.str.cell].gen
  BY DEF ContentInv, NamesKept, WorkName
<1> QED  BY <1>1, <1>2 DEF NamesAlive

(* However elements nest, tags are refused, buffers move and calls return: *)
(* no binding is lost or freed twice, and nothing that is kept of an open  *)
(* tag points into memory that is gone (addBinding, storeAtts, doContent,  *)
(* storeRawNames).                                                         *)
THEOREM MemoryInvHolds == Spec => []MemoryInv
<1>1. ContentInv => MemoryInv
  <2>1. ContentInv => TypeOK
    BY TypedIsTypeOK DEF ContentInv
  <2> QED  BY <2>1, OnceHolds, AliveHolds DEF MemoryInv
<1> QED  BY <1>1, Inductive, PTL

(* The marks before the attribute names are off whenever no start tag is   *)
(* being handled, whatever the tags and defaults are (storeAtts).          *)
THEOREM MarksOffHolds == Spec => []MarksOff
<1>1. ContentInv => MarksOff
  BY DEF ContentInv, MarksKept, MarksOff
<1> QED  BY <1>1, Inductive, PTL

-----------------------------------------------------------------------------
(* The calls the application sees.                                         *)
(* The elements the application has seen start.                            *)
Opened(i) == [name |-> tags[i].told, prefixes |-> PrefixesOf(tags[i].bindings)]
Count == IF Handling THEN Len(tags) - 1 ELSE Len(tags)
SameEvents ==
  /\ OpenNow' = OpenNow /\ DeclaredNow' = DeclaredNow /\ WithdrawnNow' = WithdrawnNow
  /\ over' = over /\ startLevel' = startLevel

(* A step without a call.                                                  *)
LEMMA SaysNothing ==
  ASSUME SameEvents, called' = <<"none">>
  PROVE  Events!EventsNext
<1>1. CalledNow' = <<"none">>
  BY DEF CalledNow
<1>2. Events!NoCall
  BY <1>1 DEF Events!NoCall, SameEvents
<1> QED  BY <1>2 DEF Events!EventsNext

(* Text, a reference, a comment or a mark of a CDATA section.              *)
LEMMA SaysOther ==
  ASSUME SameEvents, DeclaredNow = <<>>, WithdrawnNow = <<>>,
         NEW kind \in {"data", "openCdata", "closeCdata", "entity", "misc"}, over => kind = "misc",
         called' = <<kind>> \/ (called'[1] = "entity" /\ kind = "entity")
  PROVE  Events!EventsNext
<1>1. CalledNow' = <<kind>>
  <2>1. CASE called' = <<kind>>
    <3>1. called'[1] = kind
      BY <2>1
    <3> QED  BY <2>1, <3>1 DEF CalledNow
  <2>2. CASE called'[1] = "entity" /\ kind = "entity"
    BY <2>2 DEF CalledNow
  <2> QED  BY <2>1, <2>2
<1>2. Events!Other(kind)
  BY <1>1 DEF Events!Other, SameEvents
<1> QED  BY <1>2, Zenon DEF Events!EventsNext, Events!Other

(* A declaration.                                                          *)
LEMMA SaysDeclare ==
  ASSUME NEW prefix \in NsPrefixes, ~over, WithdrawnNow = <<>>, WithdrawnNow' = <<>>, OpenNow' = OpenNow,
         over' = over, startLevel' = startLevel,
         DeclaredNow' = <<prefix>> \o DeclaredNow, called' = <<"declare", prefix>>
  PROVE  Events!EventsNext
<1>1. CalledNow' = <<"declare", prefix>>
  BY DEF CalledNow
<1>2. Events!Declare(prefix)
  BY <1>1 DEF Events!Declare
<1> QED  BY <1>2, Zenon DEF Events!EventsNext, Events!Declare

(* A start tag is given up.                                                *)
LEMMA SaysGiveUp ==
  ASSUME DeclaredNow' = <<>>, WithdrawnNow' = WithdrawnNow, OpenNow' = OpenNow,
         over' = over, startLevel' = startLevel,
         called' = <<"none">> \/ (DeclaredNow # <<>> /\ called' = <<"withdraw">> \o DeclaredNow /\ called'[1] = "withdraw")
  PROVE  Events!EventsNext
<1>1. CASE DeclaredNow = <<>>
  BY <1>1, SaysNothing DEF SameEvents
<1>2. CASE DeclaredNow # <<>>
  <2>1. CalledNow' \in {<<"none">>, <<"withdraw">> \o DeclaredNow}
    BY DEF CalledNow
  <2>2. Events!GiveUp
    BY <1>2, <2>1 DEF Events!GiveUp
  <2> QED  BY <2>2 DEF Events!EventsNext
<1> QED  BY <1>1, <1>2

(* An element starts.                                                      *)
LEMMA SaysStart ==
  ASSUME NEW name \in Elements, ~over, WithdrawnNow = <<>>, WithdrawnNow' = <<>>,
         over' = over, startLevel' = startLevel,
         OpenNow' = Append(OpenNow, [name |-> name, prefixes |-> DeclaredNow]),
         DeclaredNow' = <<>>, called' = <<"start", name>>
  PROVE  Events!EventsNext
<1>1. CalledNow' = <<"start", name>>
  BY DEF CalledNow
<1>2. Events!Start(name)
  BY <1>1 DEF Events!Start
<1> QED  BY <1>2, Zenon DEF Events!EventsNext, Events!Start

(* An element ends.                                                        *)
LEMMA SaysEnd ==
  ASSUME NEW name, OpenNow # <<>>, DeclaredNow = <<>>, WithdrawnNow = <<>>, DeclaredNow' = <<>>,
         OpenNow' = Front(OpenNow), WithdrawnNow' = Last(OpenNow).prefixes, name = Last(OpenNow).name,
         over' = (startLevel = 0 /\ Len(OpenNow) = 1), startLevel' = startLevel, called' = <<"end", name>>
  PROVE  Events!EventsNext
<1>1. CalledNow' = <<"end", Last(OpenNow).name>>
  BY DEF CalledNow
<1>2. Events!End
  BY <1>1 DEF Events!End, Events!Front, Events!Last, Front, Last
<1> QED  BY <1>2 DEF Events!EventsNext

(* A declaration is withdrawn.                                             *)
LEMMA SaysWithdraw ==
  ASSUME WithdrawnNow # <<>>, WithdrawnNow' = Tail(WithdrawnNow), OpenNow' = OpenNow, DeclaredNow' = DeclaredNow,
         over' = over, startLevel' = startLevel, called' = <<"withdraw", Head(WithdrawnNow)>>
  PROVE  Events!EventsNext
<1>1. CalledNow' = <<"withdraw", Head(WithdrawnNow)>>
  BY DEF CalledNow
<1>2. Events!Withdraw
  BY <1>1 DEF Events!Withdraw
<1> QED  BY <1>2 DEF Events!EventsNext

(* The end of a sequence of which every element is known.                  *)
LEMMA FormSeq ==
  ASSUME NEW n \in Nat, NEW s, s = [i \in 1..n |-> s[i]]
  PROVE  IsSeq(s) /\ Len(s) = n /\ DOMAIN s = 1..n
<1> DEFINE S == {s[i] : i \in 1..n}
<1>1. s \in [1..n -> S]
  OBVIOUS
<1> HIDE DEF S
<1>2. s \in Seq(S)
  BY <1>1, SeqDef
<1>3. IsSeq(s) /\ DOMAIN s = 1 .. Len(s) /\ Len(s) \in Nat
  BY <1>2, SeqFacts
<1>4. Len(s) = n
  BY <1>1, <1>3
<1> QED  BY <1>3, <1>4

(* Sequences with the same elements are the same.                          *)
LEMMA FormEqual ==
  ASSUME NEW s, NEW t, IsSeq(s), IsSeq(t), Len(s) = Len(t), \A i \in 1 .. Len(s) : s[i] = t[i]
  PROVE  s = t
<1> DEFINE S == ToSet(s) \cup ToSet(t)
<1>1. s \in Seq(S) /\ t \in Seq(S)
  BY SeqMonotonic DEF IsSeq
<1> HIDE DEF S
<1> QED  BY <1>1, SeqEqual

(* A sequence with one more element.                                       *)
LEMMA FormAppend ==
  ASSUME NEW n \in Nat, NEW m, m = n + 1, NEW s, s = [i \in 1..n |-> s[i]], NEW t, t = [i \in 1..m |-> t[i]],
         \A i \in 1..n : t[i] = s[i]
  PROVE  t = Append(s, t[m])
<1>1. IsSeq(s) /\ Len(s) = n /\ IsSeq(t) /\ Len(t) = m
  BY FormSeq
<1> DEFINE a == Append(s, t[m])
<1>2. IsSeq(a) /\ Len(a) = m /\ a[m] = t[m] /\ \A i \in 1..n : a[i] = s[i]
  BY <1>1, AnyAppend
<1> HIDE DEF a
<1>3. \A i \in 1..m : i = m \/ i \in 1..n
  OBVIOUS
<1>4. \A i \in 1..m : t[i] = a[i]
  BY <1>2, <1>3
<1>5. t = a
  BY <1>1, <1>2, <1>4, FormEqual
<1> QED  BY <1>5 DEF a

Fronted(s, t, m) == s # <<>> /\ t = Front(s) /\ Last(s) = s[m]

(* A sequence without its last element.                                    *)
LEMMA FormFront ==
  ASSUME NEW n, NEW m, n \in Nat, m = n + 1, NEW s, IsSeq(s), Len(s) = m, NEW t, IsSeq(t), Len(t) = n,
         \A i \in 1..n : t[i] = s[i]
  PROVE  Fronted(s, t, m)
<1>1. IsSeq(s) /\ Len(s) = m /\ IsSeq(t) /\ Len(t) = n
  OBVIOUS
<1>2. s # <<>> /\ Len(s) - 1 = n
  BY <1>1, NoneSet
<1>3. IsSeq(Front(s)) /\ Len(Front(s)) = n /\ Last(s) = s[m] /\ \A i \in 1..n : Front(s)[i] = s[i]
  BY <1>1, <1>2, AnyFront
<1>4. \A i \in 1..n : t[i] = Front(s)[i]
  BY <1>3
<1>5. t = Front(s)
  BY <1>1, <1>3, <1>4, FormEqual
<1> QED  BY <1>2, <1>3, <1>5 DEF Fronted

(* The prefixes of a list of bindings.                                     *)
PrefixList(list, all) == [i \in DOMAIN list |-> all[list[i]].prefix]

(* No bindings have no prefixes.                                           *)
LEMMA PrefixNone == \A all : PrefixList(<<>>, all) = <<>>
<1> SUFFICES ASSUME NEW all PROVE PrefixList(<<>>, all) = <<>>
  OBVIOUS
<1> DEFINE s == PrefixList(<<>>, all)
<1>1. DOMAIN <<>> = 1..0
  BY NoneSet, AnySeq DEF IsSeq
<1>2. s = [i \in 1..0 |-> s[i]]
  BY <1>1 DEF PrefixList
<1> HIDE DEF s
<1>3. IsSeq(s) /\ Len(s) = 0
  BY <1>2, FormSeq
<1>4. IsSeq(<<>>) /\ Len(<<>>) = 0
  BY NoneSet DEF IsSeq
<1>5. s = <<>>
  BY <1>3, <1>4, FormEqual
<1> QED  BY <1>5 DEF s

(* The prefixes of a list depend on its own cells only.                    *)
LEMMA PrefixSame ==
  ASSUME NEW list, IsSeq(list), NEW all, NEW all2, \A c \in ToSet(list) : all2[c].prefix = all[c].prefix
  PROVE  PrefixList(list, all2) = PrefixList(list, all)
<1>1. DOMAIN list = 1 .. Len(list) /\ \A i \in 1 .. Len(list) : list[i] \in ToSet(list)
  BY AnySeq
<1> QED  BY <1>1 DEF PrefixList

(* The prefix of a new binding comes first.                                *)
LEMMA PrefixCons ==
  ASSUME NEW S, NEW s \in Seq(S), NEW c \in S, NEW all
  PROVE  PrefixList(<<c>> \o s, all) = <<all[c].prefix>> \o PrefixList(s, all)
<1> DEFINE n == Len(s)
           P == {all[x].prefix : x \in S}
           a == <<c>> \o s
           p == PrefixList(s, all)
           q == PrefixList(a, all)
<1>1. a \in Seq(S) /\ Len(a) = n + 1 /\ a[1] = c /\ (\A i \in 1..n : a[i + 1] = s[i]) /\ n \in Nat
  BY ConsSeq, SeqFacts
<1>2. DOMAIN a = 1 .. n + 1 /\ DOMAIN s = 1..n /\ (\A i \in 1..n : s[i] \in S) /\ (\A i \in 1 .. n + 1 : a[i] \in S)
  BY <1>1, SeqFacts
<1>3. p = [i \in 1..n |-> all[s[i]].prefix]
  BY <1>2 DEF PrefixList
<1> HIDE DEF a
<1>4. q = [i \in 1 .. n + 1 |-> all[a[i]].prefix]
  BY <1>2 DEF PrefixList
<1> HIDE DEF n, p, q
<1>5. p \in Seq(P) /\ Len(p) = n
  <2>1. p \in [1..n -> P] /\ p = [i \in 1..n |-> p[i]]
    BY <1>2, <1>3
  <2> HIDE DEF P
  <2>2. p \in Seq(P)
    BY <1>1, <2>1, SeqDef
  <2> QED  BY <1>1, <2>1, <2>2, FormSeq
<1>6. all[c].prefix \in P
  OBVIOUS
<1> HIDE DEF P
<1> DEFINE d == all[c].prefix
           r == <<d>> \o p
<1>7. r \in Seq(P) /\ Len(r) = n + 1 /\ r[1] = d /\ (\A i \in 1..n : r[i + 1] = p[i])
  BY <1>5, <1>6, ConsSeq
<1> HIDE DEF r
<1>8. IsSeq(r)
  BY <1>7, SeqFacts
<1>9. IsSeq(q) /\ Len(q) = n + 1
  <2> DEFINE m == n + 1
  <2>1. m \in Nat
    BY <1>1
  <2>2. q = [i \in 1..m |-> q[i]]
    BY <1>4
  <2> HIDE DEF m
  <2>3. IsSeq(q) /\ Len(q) = m
    BY <2>1, <2>2, FormSeq
  <2> QED  BY <2>3 DEF m
<1>10. ASSUME NEW i \in 1 .. n + 1 PROVE q[i] = r[i]
  <2>1. CASE i = 1
    BY <1>1, <1>4, <1>7, <2>1
  <2>2. CASE i # 1
    <3>1. i - 1 \in 1..n /\ (i - 1) + 1 = i
      BY <1>1, <2>2
    <3>2. a[i] = s[i - 1] /\ r[i] = p[i - 1]
      BY <1>1, <1>7, <3>1
    <3> QED  BY <1>3, <1>4, <3>1, <3>2
  <2> QED  BY <2>1, <2>2
<1>11. q = r
  BY <1>7, <1>8, <1>9, <1>10, FormEqual
<1> QED  BY <1>11 DEF q, r, d, p, a

(* The prefixes without the one of the first binding.                      *)
LEMMA PrefixUncons ==
  ASSUME NEW S, NEW s \in Seq(S), s # <<>>, NEW all
  PROVE  /\ PrefixList(s, all) # <<>> /\ Head(PrefixList(s, all)) = all[Head(s)].prefix
         /\ Tail(PrefixList(s, all)) = PrefixList(Tail(s), all)
<1> DEFINE n == Len(s)
           m == Len(s) - 1
           t == Tail(s)
           p == PrefixList(s, all)
           q == PrefixList(t, all)
<1>1. /\ n \in Nat \ {0} /\ m \in Nat /\ n = m + 1 /\ Head(s) = s[1] /\ t \in Seq(S) /\ Len(t) = m
      /\ \A i \in 1..m : t[i] = s[i + 1]
  <2>1. /\ n \in Nat \ {0} /\ Head(s) = s[1] /\ t \in Seq(S) /\ Len(t) = n - 1
        /\ \A i \in 1 .. n - 1 : t[i] = s[i + 1]
    BY Uncons
  <2> QED  BY <2>1
<1>2. DOMAIN s = 1..n /\ DOMAIN t = 1..m
  BY <1>1, SeqFacts
<1>3. p = [i \in 1..n |-> all[s[i]].prefix]
  BY <1>2 DEF PrefixList
<1> HIDE DEF t, n, m
<1>4. q = [i \in 1..m |-> all[t[i]].prefix]
  BY <1>2 DEF PrefixList
<1> HIDE DEF p, q
<1>5. IsSeq(p) /\ Len(p) = n
  <2>1. p = [i \in 1..n |-> p[i]]
    BY <1>3
  <2> QED  BY <1>1, <2>1, FormSeq
<1>6. IsSeq(q) /\ Len(q) = m
  <2>1. q = [i \in 1..m |-> q[i]]
    BY <1>4
  <2> QED  BY <1>1, <2>1, FormSeq
<1>7. p # <<>>
  BY <1>1, <1>5, NoneSet
<1> DEFINE P == ToSet(p)
           r == Tail(p)
<1>8. p \in Seq(P)
  BY <1>5 DEF IsSeq
<1> HIDE DEF P
<1>9. Head(p) = p[1] /\ r \in Seq(P) /\ Len(r) = n - 1 /\ \A i \in 1 .. n - 1 : r[i] = p[i + 1]
  BY <1>5, <1>7, <1>8, Uncons
<1>10. p[1] = all[s[1]].prefix
  <2>1. 1 \in 1..n
    BY <1>1
  <2> QED  BY <1>3, <2>1
<1> HIDE DEF r
<1>11. n - 1 = m
  BY <1>1
<1>12. \A i \in 1..m : r[i] = q[i]
  <2> TAKE i \in 1..m
  <2>1. i + 1 \in 1..n
    BY <1>1
  <2>2. r[i] = p[i + 1]
    BY <1>9, <1>11
  <2>3. p[i + 1] = all[s[i + 1]].prefix
    BY <1>3, <2>1
  <2>4. q[i] = all[t[i]].prefix /\ t[i] = s[i + 1]
    BY <1>1, <1>4
  <2> QED  BY <2>2, <2>3, <2>4
<1>13. IsSeq(r)
  BY <1>9, SeqFacts
<1>14. r = q
  BY <1>6, <1>9, <1>11, <1>12, <1>13, FormEqual
<1> QED  BY <1>1, <1>7, <1>9, <1>10, <1>14 DEF p, q, r, t

(* The elements started, one for every tag that is not being handled.      *)
Formed ==
  /\ Count \in Nat /\ Len(tags) \in Nat /\ Count <= Len(tags)
  /\ DOMAIN TagsTold = 1..Count
  /\ TagsTold = [i \in 1..Count |-> TagsTold[i]]
  /\ \A i \in 1..Count : i \in 1 .. Len(tags) /\ TagsTold[i] = Opened(i)

(* What the application knows of the stack of tags.                        *)
LEMMA Form == ContentInv => Formed
<1> SUFFICES ASSUME ContentInv PROVE Formed
  OBVIOUS
<1> DEFINE n == Len(tags)
<1>1. IsSeq(tags) /\ n \in Nat
  BY AnySeq DEF ContentInv, Typed, TypedTags
<1>2. Handling => tags # <<>>
  BY DEF ContentInv, Control
<1>3. IsSeq(Told) /\ Len(Told) = Count /\ Count \in Nat /\ Count <= n
  <2>1. CASE Handling
    <3>1. Told = Front(tags)
      BY <2>1 DEF Told, Handling
    <3>2. n \in Nat \ {0} /\ IsSeq(Front(tags)) /\ Len(Front(tags)) = n - 1
      BY <1>1, <1>2, <2>1, AnyFront
    <3>3. Count = n - 1
      BY <2>1 DEF Count
    <3> HIDE DEF n
    <3>4. n - 1 \in Nat /\ n - 1 <= n
      BY <3>2
    <3> QED  BY <3>1, <3>2, <3>3, <3>4
  <2>2. CASE ~Handling
    <3>1. Told = tags /\ Count = n
      BY <2>2 DEF Told, Handling, Count
    <3> HIDE DEF n
    <3>2. n <= n
      BY <1>1
    <3> QED  BY <1>1, <3>1, <3>2 DEF n
  <2> QED  BY <2>1, <2>2
<1>4. DOMAIN Told = 1..Count
  BY <1>3, AnySeq
<1> HIDE DEF Told, Count, n
<1>5. TagsTold = [i \in 1..Count |-> Opened(i)]
  BY <1>4 DEF TagsTold, Opened
<1>6. \A i \in 1..Count : i \in 1..n
  BY <1>1, <1>3
<1> HIDE DEF Opened
<1> QED  BY <1>1, <1>3, <1>5, <1>6 DEF Formed, n

(* They stay.                                                              *)
KeptTags ==
  /\ Count' = Count
  /\ \A i \in 1..Count :
       /\ tags'[i].told = tags[i].told /\ tags'[i].bindings = tags[i].bindings
       /\ \A c \in ToSet(tags[i].bindings) : cells'[c].prefix = cells[c].prefix

(* A tag that keeps its name and bindings is the same to the application.  *)
LEMMA SameOpened ==
  ASSUME ContentInv, NEW i \in 1 .. Len(tags), tags'[i].told = tags[i].told, tags'[i].bindings = tags[i].bindings,
         \A c \in ToSet(tags[i].bindings) : cells'[c].prefix = cells[c].prefix
  PROVE  Opened(i)' = Opened(i)
<1>1. IsSeq(tags[i].bindings)
  <2>1. Parted(Held, Depth, freeBindings, Len(cells))
    BY DEF ContentInv, Bindings
  <2>2. Len(tags) \in Nat
    BY AnySeq DEF ContentInv, Typed, TypedTags
  <2>3. i \in 0 .. Depth /\ i # 0 /\ i # Depth
    BY <2>2 DEF Depth
  <2>4. Held[i] = tags[i].bindings
    BY <2>3 DEF Held
  <2> HIDE DEF Held, Depth
  <2>5. Held[i] \in Seq(1 .. Len(cells))
    BY <2>1, <2>3, HeldCells
  <2> QED  BY <2>4, <2>5, SeqFacts
<1> DEFINE list == tags[i].bindings
<1>2. PrefixesOf(list) = PrefixList(list, cells)
  BY DEF PrefixesOf, PrefixList
<1>3. PrefixesOf(tags[i].bindings)' = PrefixList(list, cells')
  BY DEF PrefixesOf, PrefixList
<1>4. PrefixList(list, cells') = PrefixList(list, cells)
  <2>1. IsSeq(list) /\ \A c \in ToSet(list) : cells'[c].prefix = cells[c].prefix
    BY <1>1
  <2> HIDE DEF list
  <2> QED  BY <2>1, PrefixSame
<1>5. PrefixesOf(tags[i].bindings)' = PrefixesOf(tags[i].bindings)
  BY <1>2, <1>3, <1>4
<1> HIDE DEF PrefixesOf
<1> QED  BY <1>5 DEF Opened

(* Tags that keep theirs are the same elements.                            *)
LEMMA SameTold ==
  ASSUME ContentInv, ContentInv', KeptTags
  PROVE  TagsTold' = TagsTold
<1>1. Formed
  BY Form
<1>2. Formed'
  BY Form, PTL
<1>3. \A i \in 1..Count : Opened(i)' = Opened(i)
  BY <1>1, SameOpened DEF Formed, KeptTags
<1>4. Count' = Count
  BY DEF KeptTags
<1>5. \A i \in 1..Count : TagsTold'[i] = TagsTold[i]
  BY <1>1, <1>2, <1>3, <1>4 DEF Formed
<1>6. TagsTold = [i \in 1..Count |-> TagsTold[i]] /\ TagsTold' = [i \in 1..Count |-> TagsTold'[i]]
  BY <1>1, <1>2, <1>4 DEF Formed
<1> QED  BY <1>5, <1>6

(* A step between tags, or the first or last one of a tag.                 *)
LEMMA Silent ==
  ASSUME ContentInv, ContentInv', KeptTags, work.at # "end", work'.at # "end", UNCHANGED <<over, startLevel>>,
         work.bindings = <<>>, work'.bindings = <<>>
  PROVE  SameEvents /\ DeclaredNow = <<>> /\ WithdrawnNow = <<>>
<1>1. TagsTold' = TagsTold
  BY SameTold
<1>2. PrefixesOf(work.bindings) = <<>> /\ PrefixesOf(work.bindings)' = <<>>
  BY PrefixNone DEF PrefixesOf, PrefixList
<1>3. DeclaredNow = <<>> /\ DeclaredNow' = <<>> /\ WithdrawnNow = <<>> /\ WithdrawnNow' = <<>>
  <2> HIDE DEF PrefixesOf
  <2> QED  BY <1>2 DEF DeclaredNow, WithdrawnNow
<1>4. OpenNow' = OpenNow
  BY <1>1 DEF OpenNow
<1> QED  BY <1>3, <1>4 DEF SameEvents

(* A step that leaves tags and cells alone.                                *)
LEMMA SilentStill ==
  ASSUME ContentInv, ContentInv', UNCHANGED <<tags, cells, over, startLevel>>, work.at # "end", work'.at # "end",
         ~Handling, ~Handling', work.bindings = <<>>, work'.bindings = <<>>
  PROVE  SameEvents /\ DeclaredNow = <<>> /\ WithdrawnNow = <<>>
<1>1. KeptTags
  BY DEF KeptTags, Count
<1> QED  BY <1>1, Silent

(* A step inside a start tag, without a declaration.                       *)
LEMMA TagSame ==
  ASSUME ContentInv, ContentInv', KeptTags, StoringAtts \/ work.at = "start", StoringAtts' \/ work'.at = "start",
         UNCHANGED <<over, startLevel>>, work'.bindings = work.bindings,
         \A c \in ToSet(work.bindings) : cells'[c].prefix = cells[c].prefix
  PROVE  SameEvents
<1>1. TagsTold' = TagsTold
  BY SameTold
<1>2. work.at \notin {"end", "withdraw"} /\ work'.at \notin {"end", "withdraw"}
  BY DEF StoringAtts
<1>3. IsSeq(work.bindings)
  <2>1. Parted(Held, Depth, freeBindings, Len(cells))
    BY DEF ContentInv, Bindings
  <2>2. Held[Depth] = work.bindings
    <3>1. Depth \in 0 .. Depth /\ Depth # 0
      <4>1. Len(tags) \in Nat
        BY AnySeq DEF ContentInv, Typed, TypedTags
      <4> QED  BY <4>1 DEF Depth
    <3> QED  BY <3>1 DEF Held
  <2> HIDE DEF Held, Depth
  <2>3. Held[Depth] \in Seq(1 .. Len(cells))
    BY <2>1, HeldCells
  <2> QED  BY <2>2, <2>3, SeqFacts
<1> DEFINE list == work.bindings
<1>4. PrefixesOf(work.bindings) = PrefixList(list, cells) /\ PrefixesOf(work.bindings)' = PrefixList(list, cells')
  BY DEF PrefixesOf, PrefixList
<1>5. PrefixList(list, cells') = PrefixList(list, cells)
  <2>1. IsSeq(list) /\ \A c \in ToSet(list) : cells'[c].prefix = cells[c].prefix
    BY <1>3
  <2> HIDE DEF list
  <2> QED  BY <2>1, PrefixSame
<1>6. PrefixesOf(work.bindings)' = PrefixesOf(work.bindings)
  BY <1>4, <1>5
<1> HIDE DEF PrefixesOf, list
<1>7. DeclaredNow' = DeclaredNow /\ WithdrawnNow' = WithdrawnNow /\ OpenNow' = OpenNow
  BY <1>1, <1>2, <1>6 DEF DeclaredNow, WithdrawnNow, OpenNow
<1> QED  BY <1>7 DEF SameEvents

(* Steps between tags and inside CDATA sections.                           *)
LEMMA ContentSays ==
  ASSUME ContentInv, ContentInv', Content \/ ExternalEntity \/ OpenCdata \/ Misc
  PROVE  Events!EventsNext
<1>1. /\ error = "NONE" /\ work.at = "token" /\ UNCHANGED <<tags, cells, over, startLevel>>
      /\ work'.at \in {"check", "cdata"} /\ work'.bindings = <<>>
  BY DEF Content, ExternalEntity, OpenCdata, Misc, Token, At, Quiet, setup, bindingVars, Goto, NoWork
<1>2. work.bindings = <<>> /\ (over => processor = "epilog")
  BY <1>1 DEF ContentInv, Control
<1>3. ~Handling /\ ~Handling'
  BY <1>1 DEF Handling, StoringAtts
<1>4. SameEvents /\ DeclaredNow = <<>> /\ WithdrawnNow = <<>>
  BY <1>1, <1>2, <1>3, SilentStill
<1>5. CASE Content
  <2>1. called' = <<"data">> /\ ~over
    BY <1>2, <1>5 DEF Content, Handler
  <2> QED  BY <1>4, <2>1, SaysOther
<1>6. CASE ExternalEntity
  <2>1. called'[1] = "entity" /\ ~over
    BY <1>2, <1>6 DEF ExternalEntity, Handler
  <2> QED  BY <1>4, <2>1, SaysOther
<1>7. CASE OpenCdata
  <2>1. called' = <<"openCdata">> /\ ~over
    BY <1>2, <1>7 DEF OpenCdata, Handler
  <2> QED  BY <1>4, <2>1, SaysOther
<1>8. CASE Misc
  <2>1. called' = <<"misc">>
    BY <1>8 DEF Misc, Handler
  <2> QED  BY <1>4, <2>1, SaysOther
<1> QED  BY <1>5, <1>6, <1>7, <1>8

(* Steps inside a CDATA section say text and its end.                      *)
LEMMA CdataSays ==
  ASSUME ContentInv, ContentInv', CdataText \/ CloseCdata \/ CdataEnds
  PROVE  Events!EventsNext
<1>1. /\ error = "NONE" /\ work.at = "cdata" /\ UNCHANGED <<tags, cells, over, startLevel>>
      /\ work' = work \/ \E p \in {"return", "cdata", "token", "check"} : Goto(p)
  BY DEF CdataText, CloseCdata, CdataEnds, At, Quiet, Refuse, Fail, setup, bindingVars
<1>2. work.bindings = <<>> /\ ~over
  BY <1>1 DEF ContentInv, Control
<1>3. work'.at \in {"return", "cdata", "token", "check"} /\ work'.bindings = <<>>
  BY <1>1, <1>2 DEF Goto, NoWork
<1>4. ~Handling /\ ~Handling'
  BY <1>1, <1>3 DEF Handling, StoringAtts
<1>5. SameEvents /\ DeclaredNow = <<>> /\ WithdrawnNow = <<>>
  BY <1>1, <1>2, <1>3, <1>4, SilentStill
<1>6. CASE CdataText
  <2>1. called' = <<"data">>
    BY <1>6 DEF CdataText, Handler
  <2> QED  BY <1>2, <1>5, <2>1, SaysOther
<1>7. CASE CloseCdata
  <2>1. called' = <<"closeCdata">>
    BY <1>7 DEF CloseCdata, Handler
  <2> QED  BY <1>2, <1>5, <2>1, SaysOther
<1>8. CASE CdataEnds
  <2>1. called' = <<"none">>
    BY <1>8 DEF CdataEnds, Refuse, NoHandler
  <2> QED  BY <1>5, <2>1, SaysNothing
<1> QED  BY <1>6, <1>7, <1>8

(* The end of a piece, errors and trailing text.                           *)
LEMMA PieceSays ==
  ASSUME ContentInv, ContentInv', InvalidToken \/ Junk \/ PieceEnds \/ TrailingText \/ Check \/ Left
  PROVE  Events!EventsNext
<1>1. /\ error = "NONE" /\ UNCHANGED <<tags, cells, over, startLevel>>
      /\ work.at \in {"token", "cdata", "check"} \/ (work.at = "withdraw" /\ work.bindings = <<>>)
      /\ work' = work \/ \E p \in {"return", "token", "check"} : Goto(p)
  BY DEF InvalidToken, Junk, PieceEnds, TrailingText, Check, Left, Token, At, Quiet, Finish, Refuse, Fail, setup, bindingVars
<1>2. work.bindings = <<>> /\ (over /\ work.at = "token" => processor = "epilog")
  BY <1>1 DEF ContentInv, Control
<1>3. work'.at \in {"return", "cdata", "token", "check", "withdraw"} /\ work'.bindings = <<>>
  BY <1>1, <1>2 DEF Goto, NoWork
<1>4. ~Handling /\ ~Handling' /\ work.at # "end"
  BY <1>1, <1>3 DEF Handling, StoringAtts
<1>5. SameEvents /\ DeclaredNow = <<>> /\ WithdrawnNow = <<>>
  BY <1>1, <1>2, <1>3, <1>4, SilentStill
<1>6. CASE TrailingText
  <2>1. called' = <<"data">> /\ ~over
    BY <1>2, <1>6 DEF TrailingText, Handler, Token, At
  <2> QED  BY <1>5, <2>1, SaysOther
<1>7. CASE ~TrailingText
  <2>1. called' = <<"none">>
    BY <1>7 DEF InvalidToken, Junk, PieceEnds, Check, Left, Refuse, NoHandler
  <2> QED  BY <1>5, <2>1, SaysNothing
<1> QED  BY <1>6, <1>7

(* The beginning and the end of a call say nothing.                        *)
LEMMA CallSays ==
  ASSUME ContentInv, ContentInv', Parse \/ Resume \/ Return
  PROVE  Events!EventsNext
<1>1. /\ error = "NONE" /\ UNCHANGED <<cells, over, startLevel>> /\ called' = <<"none">>
      /\ work.at \in {"token", "return"}
      /\ work' = work \/ work' = NoWork \/ \E p \in {"token", "cdata"} : Goto(p)
  BY DEF Parse, Resume, Enter, Return, At, Refuse, Fail, NoHandler, setup, bindingVars, ContentInv, Control
<1>2. work.bindings = <<>>
  BY <1>1 DEF ContentInv, Control
<1>3. work'.at \in {"return", "cdata", "token"} /\ work'.bindings = <<>>
  BY <1>1, <1>2 DEF Goto, NoWork
<1>4. ~Handling /\ ~Handling' /\ work.at # "end"
  BY <1>1, <1>3 DEF Handling, StoringAtts
<1>5. /\ Len(tags) \in Nat /\ DOMAIN tags = 1 .. Len(tags) /\ Len(tags') \in Nat /\ DOMAIN tags' = 1 .. Len(tags')
      /\ \A i \in 1 .. Len(tags) : DOMAIN tags[i] = TagFields
  <2>1. TypedTags /\ TypedTags'
    BY DEF ContentInv, Typed
  <2>2. IsSeq(tags) /\ IsSeq(tags')
    BY <2>1 DEF TypedTags
  <2> QED  BY <2>1, <2>2, AnySeq DEF TypedTags, IsTag
<1>6. \A i \in 1 .. Len(tags) : Stored(tags[i]).told = tags[i].told /\ Stored(tags[i]).bindings = tags[i].bindings
  <2> TAKE i \in 1 .. Len(tags)
  <2> DEFINE t == tags[i]
  <2>1. DOMAIN t = TagFields
    BY <1>5
  <2> HIDE DEF t
  <2>2. Stored(t).told = t.told /\ Stored(t).bindings = t.bindings
    BY <2>1 DEF Stored, TagFields
  <2> QED  BY <2>2 DEF t
<1>7. ASSUME NEW i \in 1 .. Len(tags)
      PROVE  DOMAIN tags' = DOMAIN tags /\ tags'[i].told = tags[i].told /\ tags'[i].bindings = tags[i].bindings
  <2>1. CASE tags' = tags
    BY <2>1
  <2>2. CASE tags' = StoreRawNames
    BY <1>5, <1>6, <2>2 DEF StoreRawNames
  <2>3. CASE Parse
    <3>1. tags' = [j \in DOMAIN tags |-> IF tags[j].raw = "input" THEN [tags[j] EXCEPT !.raw = "gone"] ELSE tags[j]]
      BY <2>3 DEF Parse
    <3> DEFINE t == tags[i]
    <3>2. DOMAIN t = TagFields
      BY <1>5
    <3>3. tags'[i] = t \/ tags'[i] = [t EXCEPT !.raw = "gone"]
      BY <1>5, <3>1
    <3> HIDE DEF t
    <3>4. tags'[i].told = t.told /\ tags'[i].bindings = t.bindings
      BY <3>2, <3>3 DEF TagFields
    <3> QED  BY <3>1, <3>4 DEF t
  <2> QED  BY <2>1, <2>2, <2>3 DEF Resume, Return, Refuse, Fail
<1>8. Count = Len(tags) /\ Count' = Len(tags)
  <2>1. DOMAIN tags' = DOMAIN tags
    BY DEF Parse, Resume, Return, Refuse, Fail, StoreRawNames
  <2> DEFINE m == Len(tags)
             k == Len(tags')
  <2>2. m \in Nat /\ k \in Nat /\ 1..m = 1..k
    BY <1>5, <2>1
  <2> HIDE DEF m, k
  <2>3. k = m
    BY <2>2
  <2> QED  BY <1>4, <2>3 DEF Count, m, k
<1>9. KeptTags
  BY <1>1, <1>7, <1>8 DEF KeptTags
<1> QED  BY <1>1, <1>2, <1>3, <1>4, <1>9, Silent, SaysNothing

(* A step inside a start tag that declares nothing says nothing.           *)
LEMMA StillInTag ==
  ASSUME ContentInv, ContentInv', UNCHANGED <<tags, cells, over, startLevel>>, called' = <<"none">>,
         StoringAtts \/ work.at = "start", StoringAtts' \/ work'.at = "start",
         work'.bindings = work.bindings, work'.empty = work.empty
  PROVE  Events!EventsNext
<1>1. Handling' <=> Handling
  BY DEF Handling
<1>2. KeptTags
  BY <1>1 DEF KeptTags, Count
<1>3. SameEvents
  BY <1>2, TagSame
<1> QED  BY <1>3, SaysNothing

(* Attributes that declare nothing.                                        *)
LEMMA PlainSays ==
  ASSUME ContentInv, ContentInv',
         \/ \E att, marked : work.at \in {"attributes", "defaults"} /\ Listed(att, marked)
         \/ work.at = "defaults" /\ Skip
         \/ AttributesDone \/ DefaultsDone
  PROVE  Events!EventsNext
<1>1. work.at \in {"attributes", "defaults"}
  BY DEF AttributesDone, DefaultsDone, At
<1>2. UNCHANGED <<tags, cells, over, startLevel>> /\ called' = <<"none">>
  BY DEF Listed, Skip, AttributesDone, DefaultsDone, NoHandler, setup, bindingVars
<1>3. DOMAIN work = WorkFields
  BY DEF ContentInv, Typed, TypedWork
<1>4. work'.bindings = work.bindings /\ work'.empty = work.empty
      /\ work'.at \in {"attributes", "defaults", "expand", "element"}
  BY <1>1, <1>3 DEF Listed, Skip, AttributesDone, DefaultsDone, WorkFields
<1> QED  BY <1>1, <1>2, <1>4, StillInTag DEF StoringAtts

(* The lists of bindings are sequences of cells.                           *)
LEMMA ListsTyped ==
  ASSUME ContentInv
  PROVE  /\ work.bindings \in Seq(1 .. Len(cells)) /\ ToSet(work.bindings) \subseteq 1 .. Len(cells)
         /\ \A i \in 1 .. Len(tags) : /\ tags[i].bindings \in Seq(1 .. Len(cells))
                                      /\ ToSet(tags[i].bindings) \subseteq 1 .. Len(cells)
                                      /\ ToSet(tags[i].bindings) \cap ToSet(work.bindings) = {}
                                      /\ ToSet(tags[i].bindings) \cap ToSet(freeBindings) = {}
<1> DEFINE n == Len(tags)
<1>1. Parted(Held, Depth, freeBindings, Len(cells))
  BY DEF ContentInv, Bindings
<1>2. n \in Nat
  BY AnySeq DEF ContentInv, Typed, TypedTags
<1>3. Depth \in 0 .. Depth /\ Held[Depth] = work.bindings
  <2>1. Depth \in 0 .. Depth /\ Depth # 0
    BY <1>2 DEF Depth
  <2> QED  BY <2>1 DEF Held
<1>4. ASSUME NEW i \in 1..n PROVE i \in 0 .. Depth /\ i # Depth /\ Held[i] = tags[i].bindings
  <2>1. i \in 0 .. Depth /\ i # 0 /\ i # Depth
    BY <1>2 DEF Depth
  <2> QED  BY <2>1 DEF Held
<1> HIDE DEF Held, Depth
<1>5. \A i \in 0 .. Depth : Held[i] \in Seq(1 .. Len(cells)) /\ ToSet(Held[i]) \subseteq 1 .. Len(cells)
  <2> TAKE i \in 0 .. Depth
  <2>1. Held[i] \in Seq(1 .. Len(cells))
    BY <1>1 DEF Parted
  <2> QED  BY <2>1, SeqFacts
<1>6. \A i \in 0 .. Depth : /\ ToSet(Held[i]) \cap ToSet(freeBindings) = {}
                            /\ i # Depth => ToSet(Held[i]) \cap ToSet(Held[Depth]) = {}
  BY <1>1, <1>3 DEF Parted
<1>7. work.bindings \in Seq(1 .. Len(cells)) /\ ToSet(work.bindings) \subseteq 1 .. Len(cells)
  BY <1>3, <1>5
<1> HIDE DEF n
<1>8. ASSUME NEW i \in 1..n PROVE /\ tags[i].bindings \in Seq(1 .. Len(cells))
                                  /\ ToSet(tags[i].bindings) \subseteq 1 .. Len(cells)
                                  /\ ToSet(tags[i].bindings) \cap ToSet(work.bindings) = {}
                                  /\ ToSet(tags[i].bindings) \cap ToSet(freeBindings) = {}
  BY <1>3, <1>4, <1>5, <1>6
<1> QED  BY <1>7, <1>8 DEF n

(* The prefixes of a list that is not empty.                               *)
LEMMA PrefixSome ==
  ASSUME NEW S, NEW list \in Seq(S), NEW all
  PROVE  /\ IsSeq(PrefixList(list, all))
         /\ list # <<>> => PrefixList(list, all) # <<>>
<1>1. DOMAIN list = 1 .. Len(list) /\ Len(list) \in Nat
  BY SeqFacts
<1> DEFINE p == PrefixList(list, all)
<1>2. p = [i \in 1 .. Len(list) |-> all[list[i]].prefix]
  BY <1>1 DEF PrefixList
<1>3. p = [i \in 1 .. Len(list) |-> p[i]]
  BY <1>2
<1> HIDE DEF p
<1>4. IsSeq(p)
  BY <1>1, <1>3, FormSeq
<1>5. list # <<>> => p # <<>>
  BY PrefixUncons DEF p
<1> QED  BY <1>4, <1>5 DEF p

(* A start tag is given up.                                                *)
LEMMA GiveUpSays ==
  ASSUME ContentInv, ContentInv', error = "NONE", StoringAtts, NEW code, FailInTag(code)
  PROVE  Events!EventsNext
<1>1. work' = [work EXCEPT !.bindings = <<>>] /\ UNCHANGED <<cells, over, startLevel>>
  BY DEF FailInTag, setup
<1>2. work'.bindings = <<>> /\ work'.at = work.at /\ work'.empty = work.empty
  <2>1. DOMAIN work = WorkFields
    BY DEF ContentInv, Typed, TypedWork
  <2> QED  BY <1>1, <2>1 DEF WorkFields
<1>3. StoringAtts' /\ work.at \notin {"end", "withdraw"}
  BY <1>2 DEF StoringAtts
<1>4. Handling' <=> Handling
  BY <1>2, <1>3 DEF Handling
<1>5. /\ Len(tags) \in Nat /\ Len(tags') = Len(tags)
      /\ \A i \in 1 .. Len(tags) : (i = Len(tags) /\ Handling) \/ tags'[i] = tags[i]
  <2>1. IsSeq(tags) /\ Len(tags) \in Nat
    BY AnySeq DEF ContentInv, Typed, TypedTags
  <2>2. CASE work.empty
    BY <2>1, <2>2 DEF FailInTag
  <2>3. CASE ~work.empty
    <3> DEFINE t == [tags[Len(tags)] EXCEPT !.bindings = work.bindings]
    <3>1. Handling /\ tags # <<>>
      BY <2>3 DEF Handling, ContentInv, Control
    <3>2. tags' = [tags EXCEPT ![Len(tags)] = t]
      BY <2>3 DEF FailInTag
    <3> HIDE DEF t
    <3>3. Topped(tags, tags', t)
      BY <2>1, <3>1, <3>2, TopSet
    <3> DEFINE n == Len(tags)
    <3>4. \A i \in 1..n : i = n \/ i \in 1 .. n - 1
      BY <2>1
    <3>5. Len(tags') = n /\ \A i \in 1 .. n - 1 : tags'[i] = tags[i]
      BY <3>3 DEF Topped
    <3> QED  BY <2>1, <3>1, <3>4, <3>5
  <2> QED  BY <2>2, <2>3
<1>6. KeptTags
  <2>1. Count' = Count
    BY <1>4, <1>5 DEF Count
  <2>2. Formed
    BY Form
  <2>3. \A i \in 1..Count : i \in 1 .. Len(tags) /\ (Handling => i # Len(tags))
    BY <2>2 DEF Formed, Count
  <2> QED  BY <1>1, <1>5, <2>1, <2>3 DEF KeptTags
<1>7. OpenNow' = OpenNow /\ WithdrawnNow' = WithdrawnNow
  <2>1. TagsTold' = TagsTold
    BY <1>6, SameTold
  <2> QED  BY <1>2, <1>3, <2>1 DEF OpenNow, WithdrawnNow
<1>8. DeclaredNow' = <<>>
  <2>1. PrefixesOf(work.bindings)' = <<>>
    BY <1>2, PrefixNone DEF PrefixesOf, PrefixList
  <2> HIDE DEF PrefixesOf
  <2> QED  BY <1>3, <2>1 DEF DeclaredNow
<1>9. DeclaredNow = PrefixList(work.bindings, cells) /\ PrefixesOf(work.bindings) = PrefixList(work.bindings, cells)
  BY DEF DeclaredNow, PrefixesOf, PrefixList
<1> DEFINE p == PrefixList(work.bindings, cells)
           whole == <<"withdraw">> \o p
<1>10. IsSeq(p) /\ (work.bindings # <<>> => p # <<>>)
  BY ListsTyped, PrefixSome
<1>11. called' = <<"none">> \/ (work.bindings # <<>> /\ called' = <<"withdraw">> \o PrefixesOf(work.bindings))
  BY DEF FailInTag, Handler, NoHandler
<1> HIDE DEF p
<1>12. whole[1] = "withdraw"
  <2> DEFINE S == ToSet(p) \cup {"withdraw"}
  <2>1. p \in Seq(S) /\ "withdraw" \in S
    BY <1>10, SeqMonotonic DEF IsSeq
  <2> HIDE DEF S
  <2> QED  BY <2>1, ConsSeq
<1>13. called' = <<"none">> \/ (DeclaredNow # <<>> /\ called' = <<"withdraw">> \o DeclaredNow /\ called'[1] = "withdraw")
  <2>1. DeclaredNow = p /\ PrefixesOf(work.bindings) = p
    BY <1>9 DEF p
  <2> HIDE DEF PrefixesOf, DeclaredNow
  <2>2. CASE called' = <<"none">>
    BY <2>2
  <2>3. CASE called' # <<"none">>
    <3>1. called' = whole /\ p # <<>>
      BY <1>10, <1>11, <2>1, <2>3
    <3> QED  BY <1>12, <2>1, <3>1
  <2> QED  BY <2>2, <2>3
<1> QED  BY <1>1, <1>7, <1>8, <1>13, SaysGiveUp

(* A name goes into the buffer of its binding: prefixes and tags stay.     *)
LEMMA NamedKeeps ==
  ASSUME ContentInv, Named, bound[work.tag.name[1]] # 0, Expanded(bound[work.tag.name[1]])
  PROVE  /\ \A x \in 1 .. Len(cells) : cells'[x].prefix = cells[x].prefix
         /\ Len(tags) \in Nat /\ Len(tags') = Len(tags)
         /\ \A i \in 1 .. Len(tags) : tags'[i].told = tags[i].told /\ tags'[i].bindings = tags[i].bindings
<1> DEFINE p == work.tag.name[1]
           cell == bound[p]
           n == Len(tags)
<1>1. Typed /\ Control /\ error = "NONE" /\ work.at = "element" /\ ContentInv
  BY DEF ContentInv, Named
<1>2. p \in NsPrefixes
  <2>1. work.tag \in StartTags
    BY <1>1 DEF Typed, TypedWork, StoringAtts
  <2> QED  BY <2>1, ContentAssumption
<1>3. cell \in 1 .. Len(cells) /\ cells[cell].prefix = p
  BY <1>1, <1>2, BoundCell
<1>4. IsSeq(cells) /\ IsCell(cells[cell]) /\ n \in Nat
  BY <1>1, <1>3, AnySeq DEF Typed, TypedCells, TypedTags
<1>5. ~work.empty => tags # <<>>
  BY <1>1 DEF Control, Handling, StoringAtts
<1> HIDE DEF cell, p
<1>6. PICK gen, tail, moved, str : Placed(cell, gen, tail, moved, str)
  <2>1. Expanded(cell)
    BY DEF cell, p
  <2> QED  BY <1>1, <1>3, <1>5, <2>1, ExpandedPlaces
<1>7. TagsPlaced(cell, gen)
  BY <1>1, <1>3, <1>6, PlacedTags DEF p
<1>8. Refilled(cells, cells', cell, gen, tail)
  <2>1. gen \in Nat
    <3>1. cells[cell].gen \in Nat
      BY <1>4 DEF IsCell
    <3> QED  BY <1>6, <3>1 DEF Placed
  <2>2. PICK alloc : cells' = [cells EXCEPT ![cell] = [cells[cell] EXCEPT !.gen = gen, !.tail = tail, !.alloc = alloc]]
    BY <1>6 DEF Placed
  <2> QED  BY <1>3, <1>4, <2>1, <2>2, Refill
<1>9. \A x \in 1 .. Len(cells) : cells'[x].prefix = cells[x].prefix
  BY <1>3, <1>4, <1>8, RefillKeeps
<1>10. Len(tags') = n
  BY <1>7 DEF TagsPlaced
<1>11. ASSUME NEW i \in 1..n PROVE tags'[i].told = tags[i].told /\ tags'[i].bindings = tags[i].bindings
  <2>1. CASE i = n /\ ~work.empty
    <3>1. TopNamed(tags[n], tags'[n], cell, gen, work.tag.name[1])
      BY <1>7, <2>1 DEF TagsPlaced
    <3> QED  BY <2>1, <3>1 DEF TopNamed
  <2>2. CASE ~(i = n /\ ~work.empty)
    <3>1. Follows(tags[i], tags'[i], cell, gen)
      BY <1>7, <2>2 DEF TagsPlaced
    <3> QED  BY <3>1 DEF Follows
  <2> QED  BY <2>1, <2>2
<1> QED  BY <1>4, <1>9, <1>10, <1>11

(* The name of the element is found.                                       *)
LEMMA NameSays ==
  ASSUME ContentInv, ContentInv', ElementName
  PROVE  Events!EventsNext
<1> DEFINE prefix == work.tag.name[1]
<1>1. work.at = "element" /\ error = "NONE" /\ call = "running" /\ flags' = Cleared /\ nsAtts' = nsAtts /\ idIndex' = idIndex
  BY DEF ElementName, At
<1>2. DOMAIN work = WorkFields /\ StoringAtts
  BY <1>1 DEF ContentInv, Typed, TypedWork, StoringAtts
<1>3. CASE FailInTag("UNBOUND_PREFIX")
  BY <1>1, <1>2, <1>3, GiveUpSays
<1>4. CASE bound[prefix] # 0 /\ Expanded(bound[prefix]) /\ NoHandler
           /\ UNCHANGED <<setup, processor, callVars, error, bound, freeBindings, inherited, freeTags, over>>
  <2>1. \E str : work' = [work EXCEPT !.at = "start", !.str = str]
    BY <1>4 DEF Expanded
  <2>2. /\ DOMAIN work' = WorkFields /\ work'.at = "start" /\ work'.tag = work.tag /\ work'.empty = work.empty
        /\ work'.bindings = work.bindings /\ work'.atts = work.atts /\ work'.i = work.i
    BY <1>2, <2>1 DEF WorkFields
  <2>3. Named
    BY <1>1, <1>4, <2>2 DEF Named, NoHandler, setup, callVars
  <2>4. /\ \A x \in 1 .. Len(cells) : cells'[x].prefix = cells[x].prefix
        /\ Len(tags) \in Nat /\ Len(tags') = Len(tags)
        /\ \A i \in 1 .. Len(tags) : tags'[i].told = tags[i].told /\ tags'[i].bindings = tags[i].bindings
    BY <1>4, <2>3, NamedKeeps
  <2>5. KeptTags
    <3>1. Count' = Count
      BY <1>2, <2>2, <2>4 DEF Count, Handling
    <3>2. \A i \in 1..Count : i \in 1 .. Len(tags)
      BY Form DEF Formed
    <3>3. \A i \in 1 .. Len(tags) : ToSet(tags[i].bindings) \subseteq 1 .. Len(cells)
      BY ListsTyped
    <3> QED  BY <2>4, <3>1, <3>2, <3>3 DEF KeptTags
  <2>6. \A c \in ToSet(work.bindings) : cells'[c].prefix = cells[c].prefix
    BY <2>4, ListsTyped
  <2>7. UNCHANGED <<over, startLevel>> /\ called' = <<"none">>
    BY <1>4 DEF NoHandler, setup
  <2>8. SameEvents
    BY <1>2, <2>2, <2>5, <2>6, <2>7, TagSame
  <2> QED  BY <2>7, <2>8, SaysNothing
<1>5. CASE /\ work' = [work EXCEPT !.at = "start", !.str = OwnName] /\ NoHandler
           /\ UNCHANGED <<setup, processor, callVars, error, bindingVars, tags, freeTags, over>>
  <2>1. work'.at = "start" /\ work'.empty = work.empty /\ work'.bindings = work.bindings
    BY <1>2, <1>5 DEF WorkFields
  <2>2. UNCHANGED <<tags, cells, over, startLevel>> /\ called' = <<"none">>
    BY <1>5 DEF NoHandler, setup, bindingVars
  <2> QED  BY <1>2, <2>1, <2>2, StillInTag
<1> QED  BY <1>3, <1>4, <1>5 DEF ElementName

(* Names are expanded.                                                     *)
LEMMA ExpandSays ==
  ASSUME ContentInv, ContentInv', Expand
  PROVE  Events!EventsNext
<1>1. work.at = "expand" /\ error = "NONE" /\ StoringAtts
  BY DEF Expand, At, StoringAtts
<1>2. PICK code, shown, left, at :
        \/ FailInTag(code)
        \/ /\ UNCHANGED <<tags, cells, over, startLevel>> /\ called' = <<"none">> /\ at \in {"expand", "element"}
           /\ \/ work' = [work EXCEPT !.i = @ + 1]
              \/ work' = [work EXCEPT !.atts[work.i].name = shown, !.i = @ + 1, !.prefixed = left, !.at = at]
  <2> DEFINE name == work.atts[work.i].name
             b    == bound[name[1]]
             full == <<cells[b].uri, name[2]>>
             left == work.prefixed - 1
             shown == IF triplets THEN Append(full, cells[b].prefix) ELSE full
             at == IF left = 0 THEN "element" ELSE "expand"
             code == IF b = 0 THEN "UNBOUND_PREFIX" ELSE "DUPLICATE_ATTRIBUTE"
  <2>1. \/ FailInTag(code)
        \/ /\ UNCHANGED <<tags, cells, over, startLevel>> /\ called' = <<"none">>
           /\ \/ work' = [work EXCEPT !.i = @ + 1]
              \/ work' = [work EXCEPT !.atts[work.i].name = shown, !.i = @ + 1, !.prefixed = left, !.at = at]
    BY DEF Expand, NoHandler, setup, bindingVars
  <2>2. at \in {"expand", "element"}
    OBVIOUS
  <2> HIDE DEF code, shown, left, at
  <2> QED  BY <2>1, <2>2
<1>3. CASE FailInTag(code)
  BY <1>1, <1>3, GiveUpSays
<1>4. CASE ~FailInTag(code)
  <2>1. DOMAIN work = WorkFields
    BY DEF ContentInv, Typed, TypedWork
  <2>2. work'.at \in {"expand", "element"} /\ work'.bindings = work.bindings /\ work'.empty = work.empty
    BY <1>1, <1>2, <1>4, <2>1 DEF WorkFields
  <2> QED  BY <1>1, <1>2, <1>4, <2>2, StillInTag DEF StoringAtts
<1> QED  BY <1>3, <1>4

(* A start tag begins.                                                     *)
LEMMA StartTagSays ==
  ASSUME ContentInv, ContentInv', NEW tag \in StartTags, NEW empty \in BOOLEAN, StartTag(tag, empty)
  PROVE  Events!EventsNext
<1>1. /\ work.at = "token" /\ Len(tags) \in Nat /\ ~Handling /\ work.bindings = <<>>
      /\ UNCHANGED <<over, startLevel, cells>> /\ work'.at = "attributes" /\ work'.empty = empty
      /\ work'.bindings = <<>>
  BY StartTagged
<1>2. called' = <<"none">>
  BY DEF StartTag, NoHandler
<1>3. KeptTags
  <2>1. CASE empty
    <3>1. tags' = tags /\ ~Handling'
      BY <1>1, <2>1 DEF StartTag, Handling
    <3> QED  BY <1>1, <3>1 DEF KeptTags, Count
  <2>2. CASE ~empty
    <3> DEFINE n == Len(tags)
    <3>1. PICK t : tags' = Append(tags, t)
      BY <2>2 DEF StartTag
    <3>2. IsSeq(tags)
      BY DEF ContentInv, Typed, TypedTags
    <3>3. Len(tags') = n + 1 /\ \A i \in 1..n : tags'[i] = tags[i]
      BY <3>1, <3>2, AnyAppend
    <3>4. Handling'
      BY <1>1, <2>2 DEF Handling, StoringAtts
    <3>5. Count = n /\ Count' = (n + 1) - 1
      BY <1>1, <3>3, <3>4 DEF Count
    <3>6. Count' = Count
      <4> HIDE DEF n, Count
      <4>1. n \in Nat
        BY <1>1 DEF n
      <4> QED  BY <3>5, <4>1
    <3> QED  BY <1>1, <3>3, <3>5, <3>6 DEF KeptTags
  <2> QED  BY <2>1, <2>2
<1>4. SameEvents
  BY <1>1, <1>3, Silent
<1> QED  BY <1>2, <1>4, SaysNothing

(* A declaration is reported: the other lists stay as they are.            *)
LEMMA DeclaredSays ==
  ASSUME ContentInv, ContentInv', error = "NONE", work.at \in {"attributes", "defaults"}, NEW c, NEW name,
         NEW p \in NsPrefixes, Declared(c, name), cells'[c].prefix = p, UNCHANGED <<tags, over, startLevel>>,
         work'.at = work.at, work'.empty = work.empty, called' = <<"declare", p>>
  PROVE  Events!EventsNext
<1> DEFINE m == Len(cells)
<1>1. /\ (\A x \in 1..m : x # c => cells'[x] = cells[x]) /\ work'.bindings = <<c>> \o work.bindings
      /\ c \notin Below(Held, Depth + 1)
  BY DEF Declared
<1>2. /\ work.bindings \in Seq(1..m) /\ ToSet(work.bindings) \subseteq 1..m
      /\ \A i \in 1 .. Len(tags) : tags[i].bindings \in Seq(1..m) /\ ToSet(tags[i].bindings) \subseteq 1..m
  BY ListsTyped
<1>3. c \notin ToSet(work.bindings) /\ \A i \in 1 .. Len(tags) : c \notin ToSet(tags[i].bindings)
  <2>1. Held[Depth] = work.bindings /\ Len(tags) \in Nat /\ Depth \in Nat /\ Depth \in 0 .. Depth
    BY NowLinked
  <2>2. \A i \in 1 .. Len(tags) : i \in 0 .. Depth /\ Held[i] = tags[i].bindings
    <3> TAKE i \in 1 .. Len(tags)
    <3>1. i \in 0 .. Depth /\ i # 0 /\ i # Depth
      BY <2>1 DEF Depth
    <3> QED  BY <3>1 DEF Held
  <2> HIDE DEF Held, Depth
  <2>3. \A i \in 0 .. Depth : ToSet(Held[i]) \subseteq Below(Held, Depth + 1)
    BY <2>1, BelowFacts
  <2> QED  BY <1>1, <2>1, <2>2, <2>3
<1>4. StoringAtts /\ StoringAtts' /\ work.at \notin {"end", "withdraw"} /\ (Handling' <=> Handling)
  BY DEF StoringAtts, Handling
<1>5. ~over
  BY <1>4 DEF ContentInv, Control
<1>6. KeptTags
  <2>1. Count' = Count
    BY <1>4 DEF Count
  <2>2. \A i \in 1..Count : i \in 1 .. Len(tags)
    BY Form DEF Formed
  <2> HIDE DEF m
  <2> QED  BY <1>1, <1>2, <1>3, <2>1, <2>2 DEF KeptTags
<1>7. OpenNow' = OpenNow /\ WithdrawnNow = <<>> /\ WithdrawnNow' = <<>>
  <2>1. TagsTold' = TagsTold
    BY <1>6, SameTold
  <2> QED  BY <1>4, <2>1 DEF OpenNow, WithdrawnNow
<1>8. DeclaredNow = PrefixList(work.bindings, cells) /\ DeclaredNow' = PrefixList(work'.bindings, cells')
  BY <1>4 DEF DeclaredNow, PrefixesOf, PrefixList
<1>9. DeclaredNow' = <<p>> \o DeclaredNow
  <2> DEFINE list == work.bindings
             S == (1..m) \cup {c}
  <2>1. list \in Seq(1..m) /\ ToSet(list) \subseteq 1..m /\ c \notin ToSet(list)
    BY <1>2, <1>3
  <2> HIDE DEF list, m
  <2>2. list \in Seq(S) /\ c \in S
    BY <2>1, SeqMonotonic
  <2>3. IsSeq(list)
    BY <2>1, SeqFacts
  <2>4. IsSeq(list) /\ \A x \in ToSet(list) : cells'[x].prefix = cells[x].prefix
    BY <1>1, <2>1, <2>3
  <2> HIDE DEF S
  <2>5. PrefixList(<<c>> \o list, cells') = <<cells'[c].prefix>> \o PrefixList(list, cells')
    BY <2>2, PrefixCons
  <2>6. PrefixList(list, cells') = PrefixList(list, cells)
    BY <2>4, PrefixSame
  <2> QED  BY <1>1, <1>8, <2>5, <2>6 DEF list
<1> QED  BY <1>5, <1>7, <1>9, SaysDeclare

(* An attribute, specified or by default.                                  *)
LEMMA BindSays ==
  ASSUME ContentInv, ContentInv', error = "NONE", call = "running", work.at \in {"attributes", "defaults"}, NEW att,
         DeclaredPrefix(att.name) \in NsPrefixes, att.value \in Uris, NEW mark, BindPrefix(att, mark)
  PROVE  Events!EventsNext
<1> DEFINE prefix == DeclaredPrefix(att.name)
           bad == BindingError(prefix, att.value)
           code == IF bad = "NONE" THEN "NO_MEMORY" ELSE bad
           b == AddBinding(Bound4, prefix, att.name, att.value)
<1>1. CASE FailInTag(code)
  <2> HIDE DEF code
  <2> QED  BY <1>1, GiveUpSays DEF StoringAtts
<1>2. CASE ~FailInTag(code)
  <2>1. /\ bound' = b.bound /\ cells' = b.cells /\ freeBindings' = b.free
        /\ work' = [work EXCEPT !.bindings = b.list, !.i = @ + 1]
        /\ UNCHANGED <<tags, inherited, over, startLevel>> /\ called' = <<"declare", prefix>>
    BY <1>2 DEF BindPrefix, Bound4, Handler, setup
  <2>2. DOMAIN work = WorkFields
    BY DEF ContentInv, Typed, TypedWork
  <2> HIDE DEF prefix
  <2>3. b = [bound |-> b.bound, cells |-> b.cells, free |-> b.free, list |-> b.list]
    BY DEF AddBinding
  <2> HIDE DEF b
  <2>4. work'.at = work.at /\ work'.empty = work.empty /\ work'.bindings = b.list
    BY <2>1, <2>2 DEF WorkFields
  <2>5. Bound4' = b
    BY <2>1, <2>3, <2>4 DEF Bound4
  <2>6. PICK c : Declared(c, att.name) /\ cells'[c].prefix = prefix
    BY <2>1, <2>5, BindDeclares DEF b, prefix
  <2>7. prefix \in NsPrefixes
    BY DEF prefix
  <2> QED  BY <2>1, <2>4, <2>6, <2>7, DeclaredSays
<1> QED  BY <1>1, <1>2

(* An attribute of the tag or a default, which may be a declaration.       *)
LEMMA AttributeSays ==
  ASSUME ContentInv, ContentInv', Attribute \/ Default
  PROVE  Events!EventsNext
<1> DEFINE tag == work.tag
<1>1. error = "NONE" /\ call = "running" /\ work.at \in {"attributes", "defaults"}
  BY DEF Attribute, Default, At
<1>2. StoringAtts /\ work.tag \in StartTags /\ work.i \in Nat \ {0}
  BY <1>1 DEF ContentInv, Typed, TypedWork, StoringAtts
<1>3. PICK list \in {tag.atts, Defaults(tag.name)} :
        /\ work.i <= Len(list)
        /\ \/ FailInTag("DUPLICATE_ATTRIBUTE")
           \/ \E mark \in {flags, Marked(list[work.i].name)} : BindPrefix(list[work.i], mark)
           \/ Listed(list[work.i], Marked(list[work.i].name))
           \/ work.at = "defaults" /\ Skip
  <2>1. CASE Attribute
    <3> DEFINE att == tag.atts[work.i]
    <3>1. /\ work.i <= Len(tag.atts)
          /\ \/ FailInTag("DUPLICATE_ATTRIBUTE")
             \/ BindPrefix(att, Marked(att.name))
             \/ Listed(att, Marked(att.name))
      BY <2>1 DEF Attribute
    <3> QED  BY <3>1
  <2>2. CASE Default
    <3> DEFINE att == Defaults(tag.name)[work.i]
    <3>1. /\ work.i <= Len(Defaults(tag.name)) /\ work.at = "defaults"
          /\ Skip \/ BindPrefix(att, flags) \/ Listed(att, Marked(att.name))
      BY <2>2 DEF Default, At
    <3> QED  BY <3>1
  <2> QED  BY <2>1, <2>2
<1> DEFINE att == list[work.i]
<1>4. DeclaredPrefix(att.name) \in NsPrefixes /\ att.value \in Uris
  BY <1>2, <1>3, AttFacts
<1> HIDE DEF att
<1>5. CASE FailInTag("DUPLICATE_ATTRIBUTE")
  BY <1>1, <1>2, <1>5, GiveUpSays
<1>6. CASE \E mark \in {flags, Marked(att.name)} : BindPrefix(att, mark)
  BY <1>1, <1>4, <1>6, BindSays
<1>7. CASE Listed(att, Marked(att.name))
  BY <1>1, <1>7, PlainSays
<1>8. CASE work.at = "defaults" /\ Skip
  BY <1>8, PlainSays
<1> QED  BY <1>3, <1>5, <1>6, <1>7, <1>8 DEF att

(* Short sequences put together.                                           *)
LEMMA Joined ==
  ASSUME NEW a, NEW b, NEW c
  PROVE  <<a>> \o <<b>> = <<a, b>> /\ <<a>> \o <<b, c>> = <<a, b, c>>
<1> DEFINE S == {a, b, c}
           r == <<a>> \o <<b>>
           t == <<a>> \o <<b, c>>
<1>1. <<b>> \in Seq(S) /\ <<b, c>> \in Seq(S) /\ a \in S
  OBVIOUS
<1>2. Len(<<b>>) = 1 /\ Len(<<b, c>>) = 2
  OBVIOUS
<1> HIDE DEF S
<1>3. r \in Seq(S) /\ Len(r) = 1 + 1 /\ r[1] = a /\ r[1 + 1] = b
  BY <1>1, <1>2, ConsSeq
<1>4. t \in Seq(S) /\ Len(t) = 2 + 1 /\ t[1] = a /\ t[1 + 1] = b /\ t[2 + 1] = c
  BY <1>1, <1>2, ConsSeq
<1> HIDE DEF r, t
<1>5. r = <<a, b>>
  BY <1>3
<1>6. t = <<a, b, c>>
  BY <1>4
<1> QED  BY <1>5, <1>6 DEF r, t

(* The name the application is told is that of an element.                 *)
LEMMA ToldElement ==
  ASSUME ContentInv, error = "NONE", work.at = "start"
  PROVE  Name(work.str, work.tag.name) \in Elements
<1> DEFINE c == work.str.cell
           name == work.tag.name
<1>1. name \in Names
  BY DEF ContentInv, Typed, TypedWork, Names
<1>2. CASE c = 0
  <2>1. Name(work.str, name) = <<name>>
    BY <1>2 DEF Name
  <2>2. <<name>> \in Elements
    <3> HIDE DEF name
    <3> QED  BY <1>1 DEF Elements
  <2> QED  BY <2>1, <2>2
<1>3. CASE c # 0
  <2>1. /\ c \in Below(Held, Depth + 1) /\ cells[c].prefix = name[1]
        /\ cells[c].tail = NameEnd(name, cells[c].prefix, triplets)
    BY <1>3 DEF ContentInv, NamesKept, WorkName
  <2>2. cells[c].uri \in Uris
    BY <2>1 DEF ContentInv, Bindings
  <2>3. Name(work.str, name) = <<cells[c].uri>> \o cells[c].tail
    BY <1>3 DEF Name
  <2> DEFINE uri == cells[c].uri
  <2>4. Name(work.str, name) \in {<<uri>> \o <<name[2]>>, <<uri>> \o <<name[2], name[1]>>}
    BY <2>1, <2>3 DEF NameEnd
  <2> DEFINE both(a, b) == {<<a, b[2]>>, <<a, b[2], b[1]>>}
             all == {both(a, b) : a \in Uris, b \in Names}
  <2>5. <<uri>> \o <<name[2]>> = <<uri, name[2]>> /\ <<uri>> \o <<name[2], name[1]>> = <<uri, name[2], name[1]>>
    BY Joined
  <2> HIDE DEF name, uri, c
  <2>6. both(uri, name) \in all
    BY <1>1, <2>2 DEF uri
  <2>7. all \subseteq SUBSET Elements
    BY DEF Elements
  <2> HIDE DEF all
  <2> QED  BY <2>4, <2>5, <2>6, <2>7 DEF name
<1> QED  BY <1>2, <1>3

(* The start of an empty element is told.                                  *)
LEMMA StartEmptySays ==
  ASSUME ContentInv, ContentInv', StartCall, work.empty
  PROVE  Events!EventsNext
<1> DEFINE name == Name(work.str, work.tag.name)
<1>1. /\ error = "NONE" /\ work.at = "start" /\ UNCHANGED <<tags, cells, over, startLevel>>
      /\ work' = [work EXCEPT !.at = "end"] /\ called' = <<"start", name>>
  BY DEF StartCall, At, Handler, setup, bindingVars
<1>2. /\ work'.at = "end" /\ work'.tag = work.tag /\ work'.bindings = work.bindings /\ work'.str = work.str
      /\ work'.empty = work.empty
  <2>1. DOMAIN work = WorkFields
    BY DEF ContentInv, Typed, TypedWork
  <2> QED  BY <1>1, <2>1 DEF WorkFields
<1>3. name \in Elements /\ ~over
  <2>1. name \in Elements
    BY <1>1, ToldElement
  <2>2. ~over
    BY <1>1 DEF ContentInv, Control
  <2> QED  BY <2>1, <2>2
<1>4. TagsTold' = TagsTold
  <2>1. KeptTags
    BY <1>1, <1>2 DEF KeptTags, Count, Handling
  <2> QED  BY <2>1, SameTold
<1>5. Empties' = [name |-> name, prefixes |-> PrefixesOf(work.bindings)]
  <2>1. Name(work.str, work.tag.name)' = name
    BY <1>1, <1>2 DEF Name
  <2>2. PrefixesOf(work.bindings)' = PrefixesOf(work.bindings)
    BY <1>1, <1>2 DEF PrefixesOf
  <2> HIDE DEF Name, PrefixesOf
  <2> QED  BY <2>1, <2>2 DEF Empties
<1> HIDE DEF name
<1>6. OpenNow = TagsTold /\ DeclaredNow = PrefixesOf(work.bindings) /\ WithdrawnNow = <<>>
  BY <1>1 DEF OpenNow, DeclaredNow, WithdrawnNow
<1>7. OpenNow' = Append(TagsTold', Empties') /\ DeclaredNow' = <<>> /\ WithdrawnNow' = <<>>
  BY <1>2 DEF OpenNow, DeclaredNow, WithdrawnNow, StoringAtts
<1>8. OpenNow' = Append(OpenNow, [name |-> name, prefixes |-> DeclaredNow])
  BY <1>4, <1>5, <1>6, <1>7
<1> QED  BY <1>1, <1>3, <1>6, <1>7, <1>8, SaysStart

(* The start of an element is told.                                        *)
LEMMA StartOpenSays ==
  ASSUME ContentInv, ContentInv', StartCall, ~work.empty
  PROVE  Events!EventsNext
<1> DEFINE n == Len(tags)
           t == tags[n]
           name == Name(work.str, work.tag.name)
           u == [t EXCEPT !.bindings = work.bindings, !.told = name]
<1>1. /\ error = "NONE" /\ work.at = "start" /\ UNCHANGED <<cells, over, startLevel>>
      /\ work' = [NoWork EXCEPT !.at = "check"] /\ called' = <<"start", name>>
      /\ tags' = [tags EXCEPT ![Len(tags)].bindings = work.bindings, ![Len(tags)].told = name]
  BY DEF StartCall, At, Handler, setup, bindingVars
<1>2. Handling /\ tags # <<>> /\ ~over
  BY <1>1 DEF Handling, ContentInv, Control
<1>3. name \in Elements
  BY <1>1, ToldElement
<1>4. IsSeq(tags) /\ n \in Nat \ {0} /\ DOMAIN tags = 1..n /\ n \in 1..n /\ IsTag(t)
  <2>1. IsSeq(tags) /\ n \in Nat \ {0} /\ DOMAIN tags = 1..n /\ \A i \in 1..n : IsTag(tags[i])
    BY <1>2, AnySeq, AnyFront DEF ContentInv, Typed, TypedTags
  <2>2. n \in 1..n
    BY <2>1
  <2> QED  BY <2>1, <2>2
<1>5. tags' = [tags EXCEPT ![n] = u]
  <2> HIDE DEF name, n
  <2> QED  BY <1>1, <1>4 DEF n
<1>6. DOMAIN t = TagFields
  BY <1>4 DEF IsTag
<1> HIDE DEF t, name
<1>7. u.bindings = work.bindings /\ u.told = name
  BY <1>6 DEF TagFields
<1> HIDE DEF u
<1>8. Topped(tags, tags', u)
  BY <1>2, <1>4, <1>5, TopSet
<1>9. Len(tags') = n /\ tags'[n] = u /\ \A i \in 1 .. n - 1 : tags'[i] = tags[i]
  BY <1>8 DEF Topped
<1>10. work'.at = "check"
  BY <1>1 DEF NoWork
<1>11. Count = n - 1 /\ Count' = n
  <2>1. ~Handling'
    BY <1>10 DEF Handling, StoringAtts
  <2> QED  BY <1>2, <1>9, <2>1 DEF Count
<1>12. Formed
  BY Form
<1>13. Formed'
  BY Form, PTL
<1> DEFINE k == Count
<1>14. k \in Nat /\ n = k + 1 /\ \A i \in 1..k : i \in 1..n /\ i \in 1 .. n - 1
  <2> HIDE DEF n, Count
  <2>1. n \in Nat \ {0} /\ k = n - 1
    BY <1>4, <1>11
  <2> QED  BY <2>1
<1>15. \A i \in 1..k : Opened(i)' = Opened(i)
  <2> TAKE i \in 1..k
  <2>1. i \in 1 .. Len(tags) /\ tags'[i] = tags[i]
    BY <1>9, <1>14
  <2> QED  BY <1>1, <2>1, SameOpened
<1>16. \A i \in 1..k : TagsTold'[i] = TagsTold[i]
  BY <1>11, <1>12, <1>13, <1>14, <1>15 DEF Formed
<1>17. TagsTold = [i \in 1..k |-> TagsTold[i]] /\ TagsTold' = [i \in 1..n |-> TagsTold'[i]]
  BY <1>11, <1>12, <1>13 DEF Formed
<1>18. ASSUME NEW i, i = n PROVE TagsTold'[i] = [name |-> name, prefixes |-> PrefixesOf(work.bindings)]
  <2>1. TagsTold'[i] = Opened(i)'
    BY <1>4, <1>11, <1>13, <1>18 DEF Formed
  <2>2. Opened(i)' = [name |-> tags'[i].told, prefixes |-> PrefixesOf(tags[i].bindings)']
    BY DEF Opened
  <2>3. tags'[i].told = name /\ tags'[i].bindings = work.bindings
    BY <1>7, <1>9, <1>18
  <2>4. PrefixesOf(tags[i].bindings)' = PrefixList(tags'[i].bindings, cells')
    BY DEF PrefixesOf, PrefixList
  <2>5. PrefixesOf(work.bindings) = PrefixList(work.bindings, cells)
    BY DEF PrefixesOf, PrefixList
  <2>6. PrefixesOf(tags[i].bindings)' = PrefixesOf(work.bindings)
    BY <1>1, <2>3, <2>4, <2>5
  <2> HIDE DEF PrefixesOf
  <2> QED  BY <2>1, <2>2, <2>3, <2>6
<1> HIDE DEF n, k
<1>19. TagsTold' = Append(TagsTold, TagsTold'[n])
  BY <1>14, <1>16, <1>17, FormAppend
<1>20. OpenNow = TagsTold /\ DeclaredNow = PrefixesOf(work.bindings) /\ WithdrawnNow = <<>>
  BY <1>1 DEF OpenNow, DeclaredNow, WithdrawnNow
<1>21. OpenNow' = TagsTold' /\ DeclaredNow' = <<>> /\ WithdrawnNow' = <<>>
  BY <1>10 DEF OpenNow, DeclaredNow, WithdrawnNow, StoringAtts
<1>22. OpenNow' = Append(OpenNow, [name |-> name, prefixes |-> DeclaredNow])
  BY <1>18, <1>19, <1>20, <1>21
<1> QED  BY <1>1, <1>2, <1>3, <1>20, <1>21, <1>22, SaysStart

(* One more element at the end, and the sequence before it.                *)
LEMMA Appended ==
  ASSUME NEW n \in Nat, NEW s, s = [i \in 1..n |-> s[i]], NEW e
  PROVE  LET a == Append(s, e) IN a # <<>> /\ Front(a) = s /\ Last(a) = e /\ Len(a) = n + 1
<1> DEFINE a == Append(s, e)
           m == n + 1
<1>1. IsSeq(s) /\ Len(s) = n
  BY FormSeq
<1>2. IsSeq(a) /\ Len(a) = m /\ a[m] = e /\ \A i \in 1..n : a[i] = s[i]
  BY <1>1, AnyAppend
<1>3. m \in Nat /\ m # 0
  OBVIOUS
<1> HIDE DEF a, m
<1>4. a # <<>>
  BY <1>2, <1>3, NoneSet
<1>5. m - 1 = n
  BY DEF m
<1>6. IsSeq(Front(a)) /\ Len(Front(a)) = n /\ Last(a) = a[m] /\ \A i \in 1..n : Front(a)[i] = a[i]
  BY <1>2, <1>4, <1>5, AnyFront
<1>7. Front(a) = s
  BY <1>1, <1>2, <1>6, FormEqual
<1> QED  BY <1>2, <1>4, <1>6, <1>7 DEF a, m

(* The end of an empty element is told.                                    *)
LEMMA EmptyEndSays ==
  ASSUME ContentInv, ContentInv', EmptyEnd
  PROVE  Events!EventsNext
<1> DEFINE name == Name(work.str, work.tag.name)
<1>1. /\ error = "NONE" /\ work.at = "end" /\ UNCHANGED <<tags, cells, startLevel>> /\ over' = (Level = 0)
      /\ work' = [NoWork EXCEPT !.at = "withdraw", !.bindings = work.bindings] /\ called' = <<"end", name>>
  BY DEF EmptyEnd, At, Handler, setup, bindingVars
<1>2. work'.at = "withdraw" /\ work'.bindings = work.bindings
  BY <1>1 DEF NoWork
<1>3. ~Handling /\ ~Handling'
  BY <1>1, <1>2 DEF Handling, StoringAtts
<1>4. TagsTold' = TagsTold
  <2>1. KeptTags
    BY <1>1, <1>3 DEF KeptTags, Count
  <2> QED  BY <2>1, SameTold
<1>5. Formed
  BY Form
<1>6. Count = Len(tags) /\ Len(tags) \in Nat /\ TagsTold = [i \in 1..Count |-> TagsTold[i]]
  BY <1>3, <1>5 DEF Formed, Count
<1>7. OpenNow = Append(TagsTold, Empties) /\ DeclaredNow = <<>> /\ WithdrawnNow = <<>>
  BY <1>1 DEF OpenNow, DeclaredNow, WithdrawnNow, StoringAtts
<1>8. OpenNow' = TagsTold' /\ DeclaredNow' = <<>> /\ WithdrawnNow' = PrefixesOf(work.bindings)'
  BY <1>2 DEF OpenNow, DeclaredNow, WithdrawnNow, StoringAtts
<1>9. PrefixesOf(work.bindings)' = PrefixesOf(work.bindings)
  BY <1>1, <1>2 DEF PrefixesOf
<1>10. Empties.name = name /\ Empties.prefixes = PrefixesOf(work.bindings)
  BY DEF Empties
<1> HIDE DEF name
<1>11. OpenNow # <<>> /\ Front(OpenNow) = TagsTold /\ Last(OpenNow) = Empties /\ Len(OpenNow) = Count + 1
  BY <1>6, <1>7, Appended
<1>12. over' = (startLevel = 0 /\ Len(OpenNow) = 1)
  <2> DEFINE n == Len(tags)
             k == Len(OpenNow)
  <2>1. n \in Nat /\ k = n + 1 /\ startLevel \in {0, 1} /\ Level = n + startLevel
    BY <1>6, <1>11 DEF Level, ContentInv, Typed, TypedFlow
  <2> HIDE DEF n, k, Level
  <2>2. (Level = 0) <=> (startLevel = 0 /\ k = 1)
    BY <2>1
  <2>3. (Level = 0) = (startLevel = 0 /\ k = 1)
    BY <2>2, Zenon
  <2> QED  BY <1>1, <2>3 DEF k
<1> QED  BY <1>1, <1>4, <1>7, <1>8, <1>9, <1>10, <1>11, <1>12, SaysEnd

(* What the name is at the end of an element.                              *)
LEMMA EndName ==
  ASSUME ContentInv, Ended, tags # <<>>
  PROVE  /\ Len(tags) \in Nat \ {0} /\ Last(tags) = tags[Len(tags)]
         /\ LET t == tags[Len(tags)]
            IN t.told = IF t.str.cell = 0 THEN <<t.name>> ELSE <<cells'[t.str.cell].uri>> \o cells'[t.str.cell].tail
<1> DEFINE n == Len(tags)
           t == tags[n]
           c == t.str.cell
           m == Len(cells)
           tail == NameEnd(t.name, t.prefix, triplets)
<1>1. IsSeq(cells) /\ m \in Nat /\ (\A x \in 1..m : IsCell(cells[x])) /\ n \in Nat \ {0} /\ n \in 1..n /\ Last(tags) = t
  <2>1. IsSeq(cells) /\ m \in Nat /\ (\A x \in 1..m : IsCell(cells[x])) /\ IsSeq(tags)
    BY AnySeq DEF ContentInv, Typed, TypedCells, TypedTags
  <2>2. n \in Nat \ {0} /\ Last(tags) = t
    BY <2>1, AnyFront
  <2> QED  BY <2>1, <2>2
<1>2. ~Handling
  BY DEF Handling, StoringAtts, Ended
<1>3. NameKept(n) /\ ToldRight(n)
  BY <1>1, <1>2 DEF ContentInv, NamesKept, AllKept, AllTold, Ended
<1>4. CASE c = 0
  BY <1>1, <1>3, <1>4 DEF ToldRight, ToldAs
<1>5. CASE c # 0
  <2>1. t.local # Null /\ c \in Below(Held, Reaches(n))
    BY <1>3, <1>5 DEF NameKept
  <2>2. Reaches(n) = n + 1
    BY <1>2 DEF Reaches
  <2>3. Depth = n + 1 /\ Depth \in Nat /\ n + 1 \in 0 .. Depth + 1
    <3>1. Depth = n + 1
      BY DEF Depth
    <3> HIDE DEF Depth
    <3> QED  BY <1>1, <3>1
  <2>4. Parted(Held, Depth, freeBindings, m)
    BY DEF ContentInv, Bindings
  <2>5. t.told = <<cells[c].uri>> \o tail
    BY <1>3, <1>5 DEF ToldRight, ToldAs
  <2>6. cells' = [cells EXCEPT ![c].tail = tail]
    BY <1>1, <2>1 DEF Ended, Rewritten, NameEnd
  <2>7. \A x \in 1..m : cells'[x].uri = cells[x].uri
    BY EndCells
  <2> HIDE DEF Held, Depth, Below, Reaches, c, m, tail
  <2>8. c \in 1..m
    BY <2>1, <2>2, <2>3, <2>4, HeldCells, BelowFacts
  <2>9. Refilled(cells, cells', c, cells[c].gen, tail)
    BY <1>1, <2>6, <2>8, Rewrite DEF m
  <2>10. cells'[c].tail = tail /\ cells'[c].uri = cells[c].uri
    BY <2>7, <2>8, <2>9 DEF Refilled
  <2>11. t.told = <<cells'[c].uri>> \o cells'[c].tail
    BY <2>5, <2>10
  <2> QED  BY <1>1, <1>5, <2>11 DEF c
<1> QED  BY <1>4, <1>5

(* The end of an element is told.                                          *)
LEMMA EndedSays ==
  ASSUME ContentInv, ContentInv', Ended, Level > startLevel,
         LET t == Last(tags)
         IN called' = <<"end", IF t.str.cell = 0 THEN <<t.name>>
                               ELSE <<cells'[t.str.cell].uri>> \o cells'[t.str.cell].tail>>
  PROVE  Events!EventsNext
<1> DEFINE n == Len(tags)
           m == Len(cells)
<1>1. IsSeq(tags) /\ tags # <<>> /\ startLevel \in {0, 1}
  <2>1. n \in Nat /\ IsSeq(tags) /\ startLevel \in {0, 1}
    BY AnySeq DEF ContentInv, Typed, TypedTags, TypedFlow
  <2>2. n # 0
    BY <2>1 DEF Level
  <2> QED  BY <2>1, <2>2, NoneSet
<1>2. /\ n \in Nat \ {0} /\ Last(tags) = tags[n] /\ called' = <<"end", tags[n].told>>
  <2>1. /\ n \in Nat \ {0} /\ Last(tags) = tags[n]
        /\ LET t == tags[n]
           IN t.told = IF t.str.cell = 0 THEN <<t.name>> ELSE <<cells'[t.str.cell].uri>> \o cells'[t.str.cell].tail
    BY <1>1, EndName
  <2> QED  BY <2>1
<1>3. /\ work.at = "token" /\ work'.at = "withdraw" /\ work'.bindings = tags[n].bindings
      /\ startLevel' = startLevel /\ over' = (Level = 1)
  BY <1>2 DEF Ended, NoWork
<1>4. ~Handling /\ ~Handling'
  BY <1>3 DEF Handling, StoringAtts
<1>5. Len(tags') = n - 1 /\ \A i \in 1 .. n - 1 : tags'[i] = tags[i]
  BY <1>1, AnyFront DEF Ended
<1>6. \A x \in 1..m : cells'[x].prefix = cells[x].prefix
  <2>1. Prefix(cells') = Prefix(cells) /\ Len(cells') = m
    BY <1>1, EndCells
  <2> TAKE x \in 1..m
  <2>2. Prefix(cells)[x] = cells[x].prefix /\ Prefix(cells')[x] = cells'[x].prefix
    BY <2>1 DEF Prefix
  <2> QED  BY <2>1, <2>2
<1> DEFINE k == n - 1
<1>7. k \in Nat /\ n = k + 1 /\ n \in 1..n /\ \A i \in 1..k : i \in 1..n /\ i \in 1 .. n - 1
  <2> HIDE DEF n
  <2> QED  BY <1>2
<1>8. Count = n /\ Count' = k
  BY <1>4, <1>5 DEF Count
<1>9. Formed
  BY Form
<1>10. Formed'
  BY Form, PTL
<1>11. \A i \in 1..k : Opened(i)' = Opened(i)
  <2> TAKE i \in 1..k
  <2>1. i \in 1 .. Len(tags) /\ tags'[i] = tags[i]
    BY <1>5, <1>7
  <2>2. ToSet(tags[i].bindings) \subseteq 1..m
    BY <2>1, ListsTyped
  <2> QED  BY <1>6, <2>1, <2>2, SameOpened
<1>12. \A i \in 1..k : TagsTold'[i] = TagsTold[i]
  BY <1>7, <1>8, <1>9, <1>10, <1>11 DEF Formed
<1>13. TagsTold = [i \in 1..n |-> TagsTold[i]] /\ TagsTold' = [i \in 1..k |-> TagsTold'[i]]
  BY <1>8, <1>9, <1>10 DEF Formed
<1>14. TagsTold[n].name = tags[n].told /\ TagsTold[n].prefixes = PrefixesOf(tags[n].bindings)
  <2>1. TagsTold[n] = Opened(n)
    BY <1>7, <1>8, <1>9 DEF Formed
  <2> QED  BY <2>1 DEF Opened
<1>15. PrefixesOf(work.bindings)' = PrefixesOf(tags[n].bindings)
  <2> DEFINE list == tags[n].bindings
  <2>1. PrefixesOf(work.bindings)' = PrefixList(list, cells') /\ PrefixesOf(list) = PrefixList(list, cells)
    BY <1>3 DEF PrefixesOf, PrefixList
  <2>2. list \in Seq(1..m) /\ ToSet(list) \subseteq 1..m
    BY <1>7, ListsTyped
  <2> HIDE DEF list
  <2>3. IsSeq(list) /\ \A c \in ToSet(list) : cells'[c].prefix = cells[c].prefix
    BY <1>6, <2>2, SeqFacts
  <2>4. PrefixList(list, cells') = PrefixList(list, cells)
    BY <2>3, PrefixSame
  <2> QED  BY <2>1, <2>4 DEF list
<1>16. OpenNow = TagsTold /\ DeclaredNow = <<>> /\ WithdrawnNow = <<>>
  BY <1>3 DEF OpenNow, DeclaredNow, WithdrawnNow, StoringAtts
<1>17. OpenNow' = TagsTold' /\ DeclaredNow' = <<>> /\ WithdrawnNow' = PrefixesOf(work.bindings)'
  BY <1>3 DEF OpenNow, DeclaredNow, WithdrawnNow, StoringAtts
<1>18. over' = (startLevel = 0 /\ n = 1)
  <2>1. Level = n + startLevel
    BY DEF Level
  <2> HIDE DEF n, Level
  <2>2. (Level = 1) <=> (startLevel = 0 /\ n = 1)
    BY <1>1, <1>2, <2>1
  <2>3. (Level = 1) = (startLevel = 0 /\ n = 1)
    BY <2>2, Zenon
  <2> QED  BY <1>3, <2>3
<1> HIDE DEF n, k, PrefixesOf
<1>19. TagsTold # <<>> /\ TagsTold' = Front(TagsTold) /\ Last(TagsTold) = TagsTold[n] /\ Len(TagsTold) = n
  <2> DEFINE s == TagsTold
             t == TagsTold'
  <2>1. k \in Nat /\ n \in Nat /\ n = k + 1
    BY <1>2, <1>7 DEF n
  <2>2. s = [i \in 1..n |-> s[i]] /\ t = [i \in 1..k |-> t[i]] /\ \A i \in 1..k : t[i] = s[i]
    BY <1>12, <1>13
  <2> HIDE DEF s, t
  <2>3. IsSeq(s) /\ Len(s) = n
    BY <2>1, <2>2, FormSeq
  <2>4. IsSeq(t) /\ Len(t) = k
    BY <2>1, <2>2, FormSeq
  <2>5. \A i \in 1..k : t[i] = s[i]
    BY <2>2
  <2>6. Fronted(s, t, n)
    BY <2>1, <2>3, <2>4, <2>5, FormFront
  <2> QED  BY <2>3, <2>6 DEF s, t, Fronted
<1> QED  BY <1>2, <1>3, <1>14, <1>15, <1>16, <1>17, <1>18, <1>19, SaysEnd

(* An end tag, refused or taken.                                           *)
LEMMA EndTagSays ==
  ASSUME ContentInv, ContentInv', NEW name, EndTag(name)
  PROVE  Events!EventsNext
<1>1. CASE Refuse("ASYNC_ENTITY") \/ Refuse("TAG_MISMATCH")
  <2>1. work.at = "token" /\ error = "NONE"
    BY DEF EndTag, Token, At
  <2>2. UNCHANGED <<tags, cells, over, startLevel, work>> /\ called' = <<"none">>
    BY <1>1 DEF Refuse, Fail, NoHandler, setup, bindingVars
  <2>3. work.bindings = <<>>
    BY <2>1 DEF ContentInv, Control
  <2>4. ~Handling /\ ~Handling'
    BY <2>1, <2>2 DEF Handling, StoringAtts
  <2>5. SameEvents
    BY <2>1, <2>2, <2>3, <2>4, SilentStill
  <2> QED  BY <2>2, <2>5, SaysNothing
<1>2. CASE ~Refuse("ASYNC_ENTITY") /\ ~Refuse("TAG_MISMATCH")
  <2>1. Ended /\ Level > startLevel
        /\ LET t == Last(tags)
           IN called' = <<"end", IF t.str.cell = 0 THEN <<t.name>>
                                 ELSE <<cells'[t.str.cell].uri>> \o cells'[t.str.cell].tail>>
    BY <1>2 DEF EndTag, Ended, Token, At, Handler, setup, callVars, attVars
  <2> QED  BY <2>1, EndedSays
<1> QED  BY <1>1, <1>2

(* A declaration is withdrawn.                                             *)
LEMMA WithdrawSays ==
  ASSUME ContentInv, ContentInv', Withdraw
  PROVE  Events!EventsNext
<1> DEFINE m == Len(cells)
           s == work.bindings
           c == Head(s)
           rest == Tail(s)
<1>1. /\ error = "NONE" /\ work.at = "withdraw" /\ s # <<>> /\ called' = <<"withdraw", cells[c].prefix>>
      /\ cells' = [cells EXCEPT ![c] = Freed(cells[c])]
      /\ work' = [work EXCEPT !.bindings = rest]
      /\ UNCHANGED <<tags, over, startLevel>>
  BY DEF Withdraw, At, Handler, setup
<1>2. work'.at = "withdraw" /\ work'.bindings = rest
  <2>1. DOMAIN work = WorkFields
    BY DEF ContentInv, Typed, TypedWork
  <2> QED  BY <1>1, <2>1 DEF WorkFields
<1>3. ~Handling /\ ~Handling'
  BY <1>1, <1>2 DEF Handling, StoringAtts
<1>4. /\ s \in Seq(1..m) /\ ToSet(s) \subseteq 1..m /\ IsSeq(cells) /\ DOMAIN cells = 1..m
      /\ \A i \in 1 .. Len(tags) : /\ tags[i].bindings \in Seq(1..m) /\ ToSet(tags[i].bindings) \subseteq 1..m
                                   /\ ToSet(tags[i].bindings) \cap ToSet(s) = {}
  BY ListsTyped, AnySeq DEF ContentInv, Typed, TypedCells
<1>5. Once(s)
  <2>1. Parted(Held, Depth, freeBindings, m)
    BY DEF ContentInv, Bindings
  <2>2. Held[Depth] = s /\ Depth \in 0 .. Depth
    <3>1. Held[Depth] = s /\ Depth \in Nat
      BY <1>1, NowLinked
    <3> HIDE DEF Held, Depth
    <3>2. Depth \in 0 .. Depth
      BY <3>1
    <3> QED  BY <3>1, <3>2
  <2> HIDE DEF Held, Depth
  <2> QED  BY <2>1, <2>2 DEF Parted
<1> HIDE DEF m, s
<1>6. /\ Len(s) \in Nat \ {0} /\ c = s[1] /\ rest \in Seq(1..m) /\ Len(rest) = Len(s) - 1
      /\ \A i \in 1 .. Len(s) - 1 : rest[i] = s[i + 1]
  BY <1>1, <1>4, Uncons
<1>7. c \in ToSet(s) /\ c \notin ToSet(rest) /\ ToSet(rest) \subseteq ToSet(s)
  <2>1. IsSeq(s) /\ \A i \in 1 .. Len(s) : s[i] \in ToSet(s)
    BY <1>4, SeqFacts
  <2> DEFINE n == Len(s)
             k == Len(rest)
  <2>2. n \in Nat \ {0} /\ k = n - 1
    BY <1>6
  <2>3. DOMAIN rest = 1..k
    BY <1>6, SeqFacts
  <2> HIDE DEF n, k
  <2>4. 1 \in 1..n /\ \A i \in 1..k : i + 1 \in 1..n /\ i + 1 # 1
    BY <2>2
  <2>5. \A i \in 1..k : rest[i] = s[i + 1]
    BY <1>6, <2>2 DEF n, k
  <2>6. c \in ToSet(s)
    BY <1>6, <2>1, <2>4 DEF n
  <2>7. \A x \in ToSet(rest) : \E i \in 1..k : x = rest[i]
    <3> HIDE DEF rest
    <3> QED  BY <2>3 DEF ToSet
  <2>8. \A i, j \in 1..n : s[i] = s[j] => i = j
    BY <1>5 DEF Once, n
  <2> HIDE DEF c, rest
  <2>9. ASSUME NEW x \in ToSet(rest) PROVE x \in ToSet(s) /\ x # c
    <3>1. PICK i \in 1..k : x = rest[i]
      BY <2>7
    <3>2. x = s[i + 1] /\ i + 1 \in 1..n /\ i + 1 # 1 /\ 1 \in 1..n /\ c = s[1]
      BY <1>6, <2>4, <2>5, <3>1
    <3> QED  BY <2>1, <2>8, <3>2 DEF n
  <2> QED  BY <2>6, <2>9
<1> HIDE DEF c
<1>8. \A x \in 1..m : x # c => cells'[x] = cells[x]
  BY <1>1, <1>4
<1>9. TagsTold' = TagsTold
  <2>1. Count' = Count /\ \A i \in 1..Count : i \in 1 .. Len(tags)
    BY <1>1, <1>3, Form DEF Count, Formed
  <2>2. KeptTags
    BY <1>1, <1>4, <1>7, <1>8, <2>1 DEF KeptTags
  <2> QED  BY <2>2, SameTold
<1>10. OpenNow' = OpenNow /\ DeclaredNow' = DeclaredNow
  BY <1>1, <1>2, <1>9 DEF OpenNow, DeclaredNow, StoringAtts
<1>11. WithdrawnNow = PrefixList(s, cells) /\ WithdrawnNow' = PrefixList(rest, cells')
  BY <1>1, <1>2 DEF WithdrawnNow, PrefixesOf, PrefixList, s
<1>12. PrefixList(s, cells) # <<>> /\ Head(PrefixList(s, cells)) = cells[c].prefix
       /\ Tail(PrefixList(s, cells)) = PrefixList(rest, cells)
  BY <1>1, <1>4, PrefixUncons DEF c
<1>13. PrefixList(rest, cells') = PrefixList(rest, cells)
  <2>1. IsSeq(rest)
    BY <1>6, SeqFacts
  <2> HIDE DEF rest
  <2>2. \A x \in ToSet(rest) : cells'[x].prefix = cells[x].prefix
    BY <1>4, <1>7, <1>8
  <2> QED  BY <2>1, <2>2, PrefixSame
<1> QED  BY <1>1, <1>10, <1>11, <1>12, <1>13, SaysWithdraw

-----------------------------------------------------------------------------
(* Every step makes a call that XmlEvents allows, or none.                 *)
LEMMA StepSays ==
  ASSUME ContentInv, ContentInv', Next
  PROVE  Events!EventsNext
<1>1. CASE \E tag \in StartTags, empty \in BOOLEAN : StartTag(tag, empty)
  BY <1>1, StartTagSays
<1>2. CASE Attribute \/ Default
  BY <1>2, AttributeSays
<1>3. CASE AttributesDone \/ DefaultsDone
  BY <1>3, PlainSays
<1>4. CASE Expand
  BY <1>4, ExpandSays
<1>5. CASE ElementName
  BY <1>5, NameSays
<1>6. CASE StartCall
  BY <1>6, StartEmptySays, StartOpenSays
<1>7. CASE EmptyEnd
  BY <1>7, EmptyEndSays
<1>8. CASE Withdraw
  BY <1>8, WithdrawSays
<1>9. CASE \E name \in Names : EndTag(name)
  BY <1>9, EndTagSays
<1>10. CASE Content \/ ExternalEntity \/ OpenCdata \/ Misc
  BY <1>10, ContentSays
<1>11. CASE CdataText \/ CloseCdata \/ CdataEnds
  BY <1>11, CdataSays
<1>12. CASE InvalidToken \/ Junk \/ PieceEnds \/ TrailingText \/ Check \/ Left
  BY <1>12, PieceSays
<1>13. CASE Parse \/ Resume \/ Return
  BY <1>13, CallSays
<1> QED  BY <1>1, <1>2, <1>3, <1>4, <1>5, <1>6, <1>7, <1>8, <1>9, <1>10, <1>11, <1>12, <1>13 DEF Next

(* A step that changes nothing.                                            *)
LEMMA StutterSays ==
  ASSUME UNCHANGED vars
  PROVE  UNCHANGED Events!eventVars
<1>1. /\ ns' = ns /\ startLevel' = startLevel /\ tags' = tags /\ cells' = cells /\ work' = work
      /\ called' = called /\ over' = over
  BY DEF vars
<1> HIDE DEF vars
<1>2. TagsTold' = TagsTold
  BY <1>1 DEF TagsTold, Told, StoringAtts, PrefixesOf
<1>3. Empties' = Empties
  BY <1>1 DEF Empties, Name, PrefixesOf
<1>4. OpenNow' = OpenNow /\ DeclaredNow' = DeclaredNow /\ WithdrawnNow' = WithdrawnNow /\ CalledNow' = CalledNow
  BY <1>1, <1>2, <1>3 DEF OpenNow, DeclaredNow, WithdrawnNow, CalledNow, StoringAtts, PrefixesOf
<1> QED  BY <1>1, <1>4 DEF Events!eventVars

(* Nothing has been told at first.                                         *)
LEMMA InitSays ==
  ASSUME Init
  PROVE  Events!EventsInit
<1>1. /\ tags = <<>> /\ work = NoWork /\ called = <<"none">> /\ over = FALSE
  BY DEF Init
<1>2. work.at = "token"
  BY <1>1 DEF NoWork
<1>3. TagsTold = <<>>
  <2>1. ContentInv
    BY InitInv
  <2>2. Formed
    BY <2>1, Form
  <2>3. Len(tags) = 0 /\ ~Handling
    BY <1>1, <1>2, NoneSet DEF Handling, StoringAtts
  <2>4. TagsTold = [i \in 1..0 |-> TagsTold[i]]
    BY <2>2, <2>3 DEF Formed, Count
  <2>5. IsSeq(TagsTold) /\ Len(TagsTold) = 0
    BY <2>4, FormSeq
  <2>6. IsSeq(<<>>) /\ Len(<<>>) = 0
    BY NoneSet DEF IsSeq
  <2> QED  BY <2>5, <2>6, FormEqual
<1>4. OpenNow = <<>> /\ DeclaredNow = <<>> /\ WithdrawnNow = <<>> /\ CalledNow = <<"none">>
  BY <1>1, <1>2, <1>3 DEF OpenNow, DeclaredNow, WithdrawnNow, CalledNow, StoringAtts
<1>5. (startLevel = 0) \in BOOLEAN
  OBVIOUS
<1> QED  BY <1>1, <1>4, <1>5 DEF Events!EventsInit

(* The calls for elements and namespaces come in the order the application *)
(* may rely on: elements nest, an end has the very name of its start,      *)
(* declarations are reported before the start and withdrawn after the end  *)
(* in reverse order, and after the root element come comments, instructions*)
(* and blanks only (doContent, storeAtts, addBinding, epilogProcessor).    *)
THEOREM CallsOrderedHolds == Spec => CallsOrdered
<1>1. Init => Events!EventsInit
  BY InitSays
<1>2. ContentInv /\ ContentInv' /\ [Next]_vars => [Events!EventsNext]_Events!eventVars
  BY StepSays, StutterSays
<1> QED  BY <1>1, <1>2, Inductive, PTL DEF Spec, CallsOrdered, Events!EventsSpec
=============================================================================
