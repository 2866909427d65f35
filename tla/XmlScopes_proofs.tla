--------------------------- MODULE XmlScopes_proofs ---------------------------
(***************************************************************************)
(* What prefixes mean while namespaces are processed (xmlparse.c           *)
(* addBinding, storeAtts, doContent, freeBindings, getContext,             *)
(* setContext): the chains of bindings agree with the declarations of the  *)
(* open tags, and a context hands on what they say.                        *)
(*                                                                         *)
(* Two more invariants say why.  Scopes: every list of bindings binds a    *)
(* prefix once, a binding hides the one that says what its prefix meant    *)
(* on the levels below, and the binding field of a prefix is what it means *)
(* now.  Declarations: the bindings of a tag are what its attributes       *)
(* declare, and the marks say which attributes were looked at.  Both build *)
(* on the lists and chains of XmlContent_proofs, level by level.           *)
(***************************************************************************)
EXTENDS XmlContent_proofs, FiniteSetTheorems

-----------------------------------------------------------------------------
(* Scopes.                                                                 *)
(* What a prefix means by the lists up to a level: by the binding of it on *)
(* the highest level that has one.                                         *)
Uri(all) == [c \in 1 .. Len(all) |-> all[c].uri]
Val(uri, x) == IF x = 0 THEN "" ELSE uri[x]
None(h, low, high, prefix, p) == \A j \in low .. high : \A c \in ToSet(h[j]) : prefix[c] # p
Shows(h, i, prefix, uri, p, u) ==
  \/ u = "" /\ None(h, 0, i, prefix, p)
  \/ \E j \in 0..i : \E c \in ToSet(h[j]) : prefix[c] = p /\ uri[c] = u /\ None(h, j + 1, i, prefix, p)

(* A list binds a prefix once, a binding hides what its prefix meant       *)
(* below, and the binding field of a prefix is what it means now.          *)
Distinct(list, prefix) == \A c, d \in ToSet(list) : prefix[c] = prefix[d] => c = d
Scoped(h, n, prefix, prev, uri, b) ==
  /\ \A i \in 0..n : Distinct(h[i], prefix)
  /\ \A i \in 0..n : \A c \in ToSet(h[i]) : Shows(h, i - 1, prefix, uri, prefix[c], Val(uri, prev[c]))
  /\ \A p \in NsPrefixes : Shows(h, n, prefix, uri, p, Val(uri, b[p]))
Scopes == error = "NONE" => Scoped(Held, Depth, Prefix(cells), Prev(cells), Uri(cells), bound)

(* The attributes of the start tag that have been looked at.               *)
SeenIn(tag, k) == {tag.atts[j] : j \in 1 .. k - 1}
SeenDefaults(tag, k) ==
  {Defaults(tag.name)[j] : j \in {l \in 1 .. k - 1 : Defaulted(tag, Defaults(tag.name)[l])}}
Seen(w) ==
  IF w.at = "attributes" THEN SeenIn(w.tag, w.i)
  ELSE IF w.at = "defaults" THEN ToSet(w.tag.atts) \cup SeenDefaults(w.tag, w.i)
  ELSE AttsOf(w.tag)
(* The marks say which names they have.                                    *)
Noted(w, marks) ==
  /\ w.at = "attributes" =>
       w.i <= Len(w.tag.atts) + 1 /\ \A a \in SeenIn(w.tag, w.i) : marks[a.name] # 0
  /\ w.at = "defaults" =>
       w.i <= Len(Defaults(w.tag.name)) + 1 /\ \A a \in ToSet(w.tag.atts) : marks[a.name] # 0
  /\ w.at \in {"attributes", "defaults"} =>
       \A name \in AttNames : marks[name] # 0 => \E a \in Seen(w) : a.name = name

(* The bindings of a tag are its declarations.                             *)
Says(name) == name[1] = "xmlns" \/ name = <<"", "xmlns">>
StandsFor(cell, att) ==
  cell.prefix = DeclaredPrefix(att.name) /\ cell.uri = att.value /\ cell.att = att.name
Stands(n, list, all, atts) ==
  /\ \A c \in ToSet(list) : \E a \in atts : n /\ Says(a.name) /\ StandsFor(all[c], a)
  /\ \A a \in atts : n /\ Says(a.name) => \E c \in ToSet(list) : StandsFor(all[c], a)
Closed(i) == i < Len(tags) \/ ~Handling
Saying == StoringAtts \/ work.at \in {"start", "end"}
OpenSaid == \A i \in 1 .. Len(tags) : Closed(i) => Stands(ns, tags[i].bindings, cells, AttsOf(tags[i]))
WorkSaid == Saying => Stands(ns, work.bindings, cells, Seen(work))
SameAtts == Handling => tags[Len(tags)].atts = work.tag.atts
Declarations == error = "NONE" => OpenSaid /\ WorkSaid /\ SameAtts /\ Noted(work, flags)
ScopeInv == Scopes /\ Declarations

(* What a prefix means depends on the lists up to the level only.          *)
LEMMA ShowsSame ==
  ASSUME NEW h, NEW h2, NEW i \in Int, NEW prefix, NEW prefix2, NEW uri, NEW uri2, NEW p, NEW u,
         \A j \in 0..i : ToSet(h2[j]) = ToSet(h[j]),
         \A j \in 0..i : \A c \in ToSet(h[j]) : prefix2[c] = prefix[c] /\ uri2[c] = uri[c],
         Shows(h, i, prefix, uri, p, u)
  PROVE  Shows(h2, i, prefix2, uri2, p, u)
<1>1. CASE u = "" /\ None(h, 0, i, prefix, p)
  BY <1>1 DEF Shows, None
<1>2. ASSUME NEW j \in 0..i, NEW c \in ToSet(h[j]), prefix[c] = p, uri[c] = u, None(h, j + 1, i, prefix, p)
      PROVE  Shows(h2, i, prefix2, uri2, p, u)
  <2>1. \A l \in j + 1 .. i : l \in 0..i
    OBVIOUS
  <2>2. None(h2, j + 1, i, prefix2, p)
    BY <1>2, <2>1 DEF None
  <2> QED  BY <1>2, <2>2 DEF Shows
<1> QED  BY <1>1, <1>2 DEF Shows

(* One level less, when that level does not bind the prefix.               *)
LEMMA ShowsBelow ==
  ASSUME NEW h, NEW n \in Nat, NEW prefix, NEW uri, NEW p, NEW u,
         \A c \in ToSet(h[n]) : prefix[c] # p
  PROVE  Shows(h, n, prefix, uri, p, u) <=> Shows(h, n - 1, prefix, uri, p, u)
<1>1. 0..n = (0 .. n - 1) \cup {n}
  OBVIOUS
<1>2. \A j \in 0 .. n - 1 : j + 1 .. n = (j + 1 .. n - 1) \cup {n}
  OBVIOUS
<1>3. \A j : j \in {0} \cup {l + 1 : l \in 0 .. n - 1} => (None(h, j, n, prefix, p) <=> None(h, j, n - 1, prefix, p))
  BY <1>1, <1>2 DEF None
<1>4. ASSUME Shows(h, n, prefix, uri, p, u) PROVE Shows(h, n - 1, prefix, uri, p, u)
  <2>1. CASE u = "" /\ None(h, 0, n, prefix, p)
    BY <1>3, <2>1 DEF Shows
  <2>2. ASSUME NEW j \in 0..n, NEW c \in ToSet(h[j]), prefix[c] = p, uri[c] = u, None(h, j + 1, n, prefix, p)
        PROVE  Shows(h, n - 1, prefix, uri, p, u)
    <3>1. j \in 0 .. n - 1
      BY <1>1, <2>2
    <3>2. None(h, j + 1, n - 1, prefix, p)
      BY <1>3, <2>2, <3>1
    <3> QED  BY <2>2, <3>1, <3>2 DEF Shows
  <2> QED  BY <1>4, <2>1, <2>2 DEF Shows
<1>5. ASSUME Shows(h, n - 1, prefix, uri, p, u) PROVE Shows(h, n, prefix, uri, p, u)
  <2>1. CASE u = "" /\ None(h, 0, n - 1, prefix, p)
    BY <1>3, <2>1 DEF Shows
  <2>2. ASSUME NEW j \in 0 .. n - 1, NEW c \in ToSet(h[j]), prefix[c] = p, uri[c] = u,
               None(h, j + 1, n - 1, prefix, p)
        PROVE  Shows(h, n, prefix, uri, p, u)
    <3>1. j \in 0..n
      BY <1>1
    <3>2. None(h, j + 1, n, prefix, p)
      BY <1>3, <2>2
    <3> QED  BY <2>2, <3>1, <3>2 DEF Shows
  <2> QED  BY <1>5, <2>1, <2>2 DEF Shows
<1> QED  BY <1>4, <1>5

(* A binding on the highest level says what its prefix means.              *)
LEMMA ShowsTop ==
  ASSUME NEW h, NEW n \in Nat, NEW prefix, NEW uri, NEW c \in ToSet(h[n])
  PROVE  Shows(h, n, prefix, uri, prefix[c], uri[c])
<1>1. n + 1 .. n = {} /\ n \in 0..n
  OBVIOUS
<1>2. None(h, n + 1, n, prefix, prefix[c])
  BY <1>1 DEF None
<1> QED  BY <1>1, <1>2 DEF Shows

(* A level that binds the prefix says all: the binding is the only one.    *)
LEMMA ShowsOnly ==
  ASSUME NEW h, NEW n \in Nat, NEW prefix, NEW uri, NEW c \in ToSet(h[n]), Distinct(h[n], prefix), NEW u,
         NEW p, prefix[c] = p, Shows(h, n, prefix, uri, p, u)
  PROVE  u = uri[c]
<1>1. n \in 0..n /\ \A j \in 0..n : j = n \/ n \in j + 1 .. n
  OBVIOUS
<1>2. ~None(h, 0, n, prefix, prefix[c])
  BY <1>1 DEF None
<1>3. ASSUME NEW j \in 0..n, NEW d \in ToSet(h[j]), prefix[d] = prefix[c], uri[d] = u,
             None(h, j + 1, n, prefix, prefix[c])
      PROVE  u = uri[c]
  <2>1. j = n
    BY <1>1, <1>3 DEF None
  <2> QED  BY <1>3, <2>1 DEF Distinct
<1> QED  BY <1>2, <1>3 DEF Shows

(* What a binding on a list hides is a binding on a list, or nothing.      *)
LEMMA PrevLive ==
  ASSUME NEW h, NEW n, NEW f, NEW m, NEW prefix, NEW prev, NEW b,
         Parted(h, n, f, m), Chained(h, n, prefix, prev, b)
  PROVE  /\ \A i \in 0..n : \A c \in ToSet(h[i]) : c \in Below(h, n + 1) /\ (prev[c] = 0 \/ prev[c] \in Below(h, n + 1))
         /\ \A p \in NsPrefixes : b[p] = 0 \/ b[p] \in Below(h, n + 1)
<1>1. n \in Nat /\ \A i \in 0..n : h[i] \in Seq(1..m)
  BY DEF Parted
<1>2. ASSUME NEW i \in 0..n, NEW c \in ToSet(h[i])
      PROVE  c \in Below(h, n + 1) /\ (prev[c] = 0 \/ prev[c] \in Below(h, n + 1))
  <2>0. h[i] \in Seq(1..m) /\ i \in 0 .. n + 1
    BY <1>1
  <2>1. ToSet(h[i]) \subseteq Below(h, n + 1)
    BY <1>1, BelowFacts
  <2>2. PICK k \in 1 .. Len(h[i]) : h[i][k] = c
    BY <2>0, SeqFacts
  <2>3. prev[c] # 0 => prev[c] \in Below(h, i) \cup Rest(h[i], k)
    BY <2>2 DEF Chained
  <2>4. Rest(h[i], k) \subseteq ToSet(h[i])
    BY <2>0, RestFacts
  <2>5. Below(h, i) \subseteq Below(h, n + 1)
    BY <1>1, <2>0, BelowFacts
  <2> QED  BY <2>1, <2>3, <2>4, <2>5
<1>3. \A p \in NsPrefixes : b[p] = 0 \/ b[p] \in Below(h, n + 1)
  BY DEF Chained
<1> QED  BY <1>2, <1>3

-----------------------------------------------------------------------------
(* What the steps do to the scopes.                                        *)
(* Levels.                                                                 *)
LEMMA Levels ==
  ASSUME NEW n \in Nat
  PROVE  /\ n \in 0..n /\ n - 1 \in Int /\ n - 1 <= n /\ \A i \in 0 .. n - 1 : i \in 0..n
         /\ \A i \in 0..n : i \in 0 .. n - 1 \/ i = n
         /\ \A i \in 0..n : i # n => i \in 0 .. n - 1
  OBVIOUS

(* Cells that keep what is asked of them here.                             *)
Agree(S, prefix, prev, uri, prefix2, prev2, uri2) ==
  \A x \in S : prefix2[x] = prefix[x] /\ prev2[x] = prev[x] /\ uri2[x] = uri[x]

(* The lists up to a level, and what their bindings hide, stay.            *)
LEMMA LevelsStay ==
  ASSUME NEW h, NEW h2, NEW n, NEW f, NEW m, NEW k \in Int, NEW prefix, NEW prev, NEW uri, NEW b,
         NEW prefix2, NEW prev2, NEW uri2, NEW S,
         Parted(h, n, f, m), Chained(h, n, prefix, prev, b), Scoped(h, n, prefix, prev, uri, b),
         k <= n, \A i \in 0..k : h2[i] = h[i],
         Agree(S, prefix, prev, uri, prefix2, prev2, uri2),
         \A i \in 0..k : \A c \in ToSet(h[i]) : c \in S /\ (prev[c] = 0 \/ prev[c] \in S)
  PROVE  \A i \in 0..k : /\ Distinct(h2[i], prefix2)
                         /\ \A c \in ToSet(h2[i]) : Shows(h2, i - 1, prefix2, uri2, prefix2[c], Val(uri2, prev2[c]))
<1>1. n \in Nat
  BY DEF Parted
<1> SUFFICES ASSUME NEW i \in 0..k
             PROVE  /\ Distinct(h2[i], prefix2)
                    /\ \A c \in ToSet(h2[i]) : Shows(h2, i - 1, prefix2, uri2, prefix2[c], Val(uri2, prev2[c]))
  OBVIOUS
<1>2. i \in 0..n /\ h2[i] = h[i] /\ i - 1 \in Int /\ \A j \in 0 .. i - 1 : j \in 0..k
  BY <1>1
<1>3. Distinct(h[i], prefix) /\ \A c \in ToSet(h[i]) : Shows(h, i - 1, prefix, uri, prefix[c], Val(uri, prev[c]))
  BY <1>2 DEF Scoped
<1>4. Distinct(h2[i], prefix2)
  BY <1>2, <1>3 DEF Distinct, Agree
<1>5. ASSUME NEW c \in ToSet(h[i])
      PROVE  Shows(h2, i - 1, prefix2, uri2, prefix2[c], Val(uri2, prev2[c]))
  <2> DEFINE u == Val(uri, prev[c])
  <2>1. prefix2[c] = prefix[c] /\ Val(uri2, prev2[c]) = u
    BY DEF Agree, Val
  <2>2. Shows(h, i - 1, prefix, uri, prefix[c], u)
    BY <1>3
  <2> HIDE DEF u
  <2>3. \A j \in 0 .. i - 1 : ToSet(h2[j]) = ToSet(h[j])
    BY <1>2
  <2>4. \A j \in 0 .. i - 1 : \A d \in ToSet(h[j]) : prefix2[d] = prefix[d] /\ uri2[d] = uri[d]
    BY <1>2 DEF Agree
  <2> QED  BY <1>2, <2>1, <2>2, <2>3, <2>4, ShowsSame
<1> QED  BY <1>2, <1>4, <1>5

(* A binding is made for a prefix that the list does not bind yet.         *)
Introduced(h, n, m, prefix, uri, b, uri2, b2, c, p) ==
  /\ \A x \in 1..m : x # c => uri2[x] = uri[x]
  /\ \A d \in ToSet(h[n]) : prefix[d] # p
  /\ c # 0 /\ (b2[p] = c \/ (b2[p] = 0 /\ uri2[c] = ""))
  /\ \A q \in NsPrefixes : q # p => b2[q] = b[q]
LEMMA PushScoped ==
  ASSUME NEW h, NEW n \in Nat, NEW f, NEW m, NEW h2, NEW f2, NEW m2, NEW c, NEW p,
         NEW prefix, NEW prev, NEW uri, NEW b, NEW prefix2, NEW prev2, NEW uri2, NEW b2,
         Parted(h, n, f, m), Pushed(h, n, f, m, h2, f2, m2, c), Chained(h, n, prefix, prev, b),
         Rebound(prefix, prev, b, prefix2, prev2, b2, m, c, p), Scoped(h, n, prefix, prev, uri, b),
         Introduced(h, n, m, prefix, uri, b, uri2, b2, c, p)
  PROVE  Scoped(h2, n, prefix2, prev2, uri2, b2)
<1> DEFINE S == Below(h, n + 1)
<1>1. n \in Nat /\ n \in 0..n /\ S \subseteq 1..m /\ \A i \in 0..n : h[i] \in Seq(1..m)
  BY HeldCells
<1>2. c \notin S
  BY PushChained
<1>3. /\ \A i \in 0..n : \A d \in ToSet(h[i]) : d \in S /\ (prev[d] = 0 \/ prev[d] \in S)
      /\ \A q \in NsPrefixes : b[q] = 0 \/ b[q] \in S
  BY PrevLive
<1> HIDE DEF S
<1>4. Agree(S, prefix, prev, uri, prefix2, prev2, uri2)
  BY <1>1, <1>2 DEF Agree, Rebound, Introduced
<1>5. (\A i \in 0 .. n - 1 : h2[i] = h[i]) /\ h2[n] = <<c>> \o h[n]
  BY DEF Pushed
<1>6. ToSet(h2[n]) = {c} \cup ToSet(h[n])
  <2> DEFINE s == h[n]
             t == h2[n]
             M == 1..m \cup {c}
  <2>1. s \in Seq(M) /\ c \in M /\ t = <<c>> \o s
    BY <1>1, <1>5, SeqMonotonic
  <2> HIDE DEF s, t, M
  <2>2. ToSet(t) = {c} \cup ToSet(s)
    BY <2>1, ConsSet
  <2> QED  BY <2>2 DEF s, t
<1>7. prefix2[c] = p /\ prev2[c] = b[p] /\ p \in NsPrefixes
  BY DEF Rebound
<1>8. \A i \in 0 .. n - 1 : /\ Distinct(h2[i], prefix2)
                            /\ \A d \in ToSet(h2[i]) : Shows(h2, i - 1, prefix2, uri2, prefix2[d], Val(uri2, prev2[d]))
  <2>1. n - 1 \in Int /\ n - 1 <= n /\ \A i \in 0 .. n - 1 : i \in 0..n
    BY Levels
  <2>2. \A i \in 0 .. n - 1 : \A d \in ToSet(h[i]) : d \in S /\ (prev[d] = 0 \/ prev[d] \in S)
    BY <1>3, <2>1
  <2> QED  BY <1>4, <1>5, <2>1, <2>2, LevelsStay
<1>9. Distinct(h2[n], prefix2)
  <2>1. Distinct(h[n], prefix)
    BY <1>1 DEF Scoped
  <2>2. \A d \in ToSet(h[n]) : prefix2[d] = prefix[d] /\ prefix2[d] # p
    BY <1>1, <1>3, <1>4 DEF Agree, Introduced
  <2> SUFFICES ASSUME NEW x \in ToSet(h2[n]), NEW y \in ToSet(h2[n]), prefix2[x] = prefix2[y] PROVE x = y
    BY DEF Distinct
  <2>3. (x = c \/ x \in ToSet(h[n])) /\ (y = c \/ y \in ToSet(h[n]))
    BY <1>6
  <2>4. CASE x \in ToSet(h[n]) /\ y \in ToSet(h[n])
    BY <2>1, <2>2, <2>4 DEF Distinct
  <2> QED  BY <1>7, <2>2, <2>3, <2>4
<1>10. ASSUME NEW q, NEW u, Shows(h, n - 1, prefix, uri, q, u)
       PROVE  Shows(h2, n - 1, prefix2, uri2, q, u)
  <2>1. n - 1 \in Int /\ \A j \in 0 .. n - 1 : j \in 0..n
    BY Levels
  <2>3. \A j \in 0 .. n - 1 : ToSet(h2[j]) = ToSet(h[j])
    BY <1>5
  <2>2. \A j \in 0 .. n - 1 : \A d \in ToSet(h[j]) : prefix2[d] = prefix[d] /\ uri2[d] = uri[d]
    BY <1>3, <1>4, <2>1 DEF Agree
  <2> DEFINE i == n - 1
  <2>4. i \in Int /\ Shows(h, i, prefix, uri, q, u)
    BY <1>10, <2>1
  <2>5. \A j \in 0..i : ToSet(h2[j]) = ToSet(h[j])
    BY <2>3
  <2>6. \A j \in 0..i : \A d \in ToSet(h[j]) : prefix2[d] = prefix[d] /\ uri2[d] = uri[d]
    BY <2>2
  <2> HIDE DEF i
  <2>7. Shows(h2, i, prefix2, uri2, q, u)
    BY <2>4, <2>5, <2>6, ShowsSame
  <2> QED  BY <2>7 DEF i
<1>11. ASSUME NEW d \in ToSet(h2[n])
       PROVE  Shows(h2, n - 1, prefix2, uri2, prefix2[d], Val(uri2, prev2[d]))
  <2>1. CASE d = c
    <3>1. Shows(h, n, prefix, uri, p, Val(uri, b[p]))
      BY <1>7 DEF Scoped
    <3>2. Shows(h, n - 1, prefix, uri, p, Val(uri, b[p]))
      BY <1>1, <3>1, ShowsBelow DEF Introduced
    <3>3. Val(uri2, prev2[c]) = Val(uri, b[p])
      BY <1>3, <1>4, <1>7 DEF Agree, Val
    <3> QED  BY <1>7, <1>10, <2>1, <3>2, <3>3
  <2>2. CASE d \in ToSet(h[n])
    <3>1. Shows(h, n - 1, prefix, uri, prefix[d], Val(uri, prev[d]))
      BY <1>1, <2>2 DEF Scoped
    <3>2. prefix2[d] = prefix[d] /\ Val(uri2, prev2[d]) = Val(uri, prev[d])
      BY <1>1, <1>3, <1>4, <2>2 DEF Agree, Val
    <3> QED  BY <1>10, <3>1, <3>2
  <2> QED  BY <1>6, <2>1, <2>2
<1>12. ASSUME NEW q \in NsPrefixes
       PROVE  Shows(h2, n, prefix2, uri2, q, Val(uri2, b2[q]))
  <2>1. CASE q = p
    <3>1. Shows(h2, n, prefix2, uri2, prefix2[c], uri2[c])
      BY <1>1, <1>6, ShowsTop
    <3>2. Val(uri2, b2[p]) = uri2[c]
      BY DEF Val, Introduced
    <3> QED  BY <1>7, <2>1, <3>1, <3>2
  <2>2. CASE q # p
    <3> DEFINE u == Val(uri, b[q])
    <3>1. Shows(h, n, prefix, uri, q, u)
      BY DEF Scoped
    <3>2. Val(uri2, b2[q]) = u
      BY <1>3, <1>4, <2>2 DEF Agree, Val, Introduced
    <3> HIDE DEF u
    <3>3. CASE \E d \in ToSet(h[n]) : prefix[d] = q
      <4>1. PICK d \in ToSet(h[n]) : prefix[d] = q
        BY <3>3
      <4>2. Distinct(h[n], prefix)
        BY <1>1 DEF Scoped
      <4>3. u = uri[d]
        BY <3>1, <4>1, <4>2, ShowsOnly
      <4>4. d \in ToSet(h2[n]) /\ prefix2[d] = q /\ uri2[d] = u
        BY <1>1, <1>3, <1>4, <1>6, <4>1, <4>3 DEF Agree
      <4>5. Shows(h2, n, prefix2, uri2, prefix2[d], uri2[d])
        BY <1>1, <4>4, ShowsTop
      <4> QED  BY <3>2, <4>4, <4>5
    <3>4. CASE ~ \E d \in ToSet(h[n]) : prefix[d] = q
      <4>1. Shows(h, n - 1, prefix, uri, q, u)
        BY <1>1, <3>1, <3>4, ShowsBelow
      <4>2. Shows(h2, n - 1, prefix2, uri2, q, u)
        BY <1>10, <4>1
      <4>3. \A d \in ToSet(h2[n]) : prefix2[d] # q
        BY <1>1, <1>3, <1>4, <1>6, <1>7, <2>2, <3>4 DEF Agree
      <4>4. Shows(h2, n, prefix2, uri2, q, u)
        BY <1>1, <4>2, <4>3, ShowsBelow
      <4> QED  BY <3>2, <4>4
    <3> QED  BY <3>3, <3>4
  <2> QED  BY <2>1, <2>2
<1>13. \A i \in 0..n : i \in 0 .. n - 1 \/ i = n
  BY Levels
<1> QED  BY <1>8, <1>9, <1>11, <1>12, <1>13 DEF Scoped

(* Nothing that is asked of the bindings changes.                          *)
SameUpTo(h, h2, k) == \A i \in 0..k : h2[i] = h[i]
Within(h, k, S) == \A i \in 0..k : ToSet(h[i]) \subseteq S

(* What a prefix means by the same lists.                                  *)
LEMMA ShowsKept ==
  ASSUME NEW h, NEW h2, NEW k \in Int, NEW prefix, NEW uri, NEW prefix2, NEW prev2, NEW prev, NEW uri2, NEW S,
         SameUpTo(h, h2, k), Agree(S, prefix, prev, uri, prefix2, prev2, uri2),
         Within(h, k, S)
  PROVE  \A p, u : Shows(h, k, prefix, uri, p, u) => Shows(h2, k, prefix2, uri2, p, u)
<1> SUFFICES ASSUME NEW p, NEW u, Shows(h, k, prefix, uri, p, u) PROVE Shows(h2, k, prefix2, uri2, p, u)
  OBVIOUS
<1>1. \A j \in 0..k : ToSet(h2[j]) = ToSet(h[j])
  BY DEF SameUpTo
<1>2. \A j \in 0..k : \A d \in ToSet(h[j]) : prefix2[d] = prefix[d] /\ uri2[d] = uri[d]
  BY DEF Agree, Within
<1> QED  BY <1>1, <1>2, ShowsSame

(* Nothing changes.                                                        *)
LEMMA ScopedSame ==
  ASSUME NEW h, NEW n \in Nat, NEW f, NEW m, NEW h2,
         NEW prefix, NEW prev, NEW uri, NEW b, NEW prefix2, NEW prev2, NEW uri2,
         Parted(h, n, f, m), Chained(h, n, prefix, prev, b), Scoped(h, n, prefix, prev, uri, b),
         SameUpTo(h, h2, n), Agree(Below(h, n + 1), prefix, prev, uri, prefix2, prev2, uri2)
  PROVE  Scoped(h2, n, prefix2, prev2, uri2, b)
<1> DEFINE S == Below(h, n + 1)
<1>1. n \in Int /\ n <= n
  OBVIOUS
<1>2. /\ \A i \in 0..n : \A c \in ToSet(h[i]) : c \in S /\ (prev[c] = 0 \/ prev[c] \in S)
      /\ \A p \in NsPrefixes : b[p] = 0 \/ b[p] \in S
  BY PrevLive
<1>3. Agree(S, prefix, prev, uri, prefix2, prev2, uri2)
  OBVIOUS
<1> HIDE DEF S
<1>4. \A i \in 0..n : /\ Distinct(h2[i], prefix2)
                      /\ \A c \in ToSet(h2[i]) : Shows(h2, i - 1, prefix2, uri2, prefix2[c], Val(uri2, prev2[c]))
  <2>1. \A i \in 0..n : h2[i] = h[i]
    BY DEF SameUpTo
  <2> QED  BY <1>1, <1>2, <1>3, <2>1, LevelsStay
<1>5. ASSUME NEW p \in NsPrefixes
      PROVE  Shows(h2, n, prefix2, uri2, p, Val(uri2, b[p]))
  <2>1. Shows(h, n, prefix, uri, p, Val(uri, b[p]))
    BY DEF Scoped
  <2>2. Val(uri2, b[p]) = Val(uri, b[p])
    BY <1>2, <1>3 DEF Agree, Val
  <2>3. Within(h, n, S)
    BY <1>2 DEF Within
  <2>4. \A q, u : Shows(h, n, prefix, uri, q, u) => Shows(h2, n, prefix2, uri2, q, u)
    BY <1>1, <1>3, <2>3, ShowsKept
  <2> QED  BY <2>1, <2>2, <2>4
<1> QED  BY <1>4, <1>5 DEF Scoped

(* One more level, without bindings.                                       *)
LEMMA RaiseScoped ==
  ASSUME NEW h, NEW n \in Nat, NEW h2, NEW prefix, NEW prev, NEW uri, NEW b,
         Raised(h, n, h2), Scoped(h, n, prefix, prev, uri, b)
  PROVE  Scoped(h2, n + 1, prefix, prev, uri, b)
<1>1. SameUpTo(h, h2, n) /\ h2[n + 1] = <<>>
  BY DEF Raised, SameUpTo
<1>2. ToSet(h2[n + 1]) = {}
  BY <1>1, NoneSet
<1>3. Agree(UNION {ToSet(h[j]) : j \in 0..n}, prefix, prev, uri, prefix, prev, uri)
  BY DEF Agree
<1>4. ASSUME NEW k \in Int, k <= n
      PROVE  \A p, u : Shows(h, k, prefix, uri, p, u) => Shows(h2, k, prefix, uri, p, u)
  <2>1. SameUpTo(h, h2, k) /\ \A i \in 0..k : i \in 0..n
    BY <1>1, <1>4 DEF SameUpTo
  <2>2. Within(h, k, UNION {ToSet(h[j]) : j \in 0..n})
    BY <2>1 DEF Within
  <2> QED  BY <1>3, <2>1, <2>2, ShowsKept
<1>5. ASSUME NEW i \in 0 .. n + 1
      PROVE  /\ Distinct(h2[i], prefix)
             /\ \A c \in ToSet(h2[i]) : Shows(h2, i - 1, prefix, uri, prefix[c], Val(uri, prev[c]))
  <2>1. CASE i = n + 1
    BY <1>2, <2>1 DEF Distinct
  <2>2. CASE i # n + 1
    <3>1. i \in 0..n /\ i - 1 \in Int /\ i - 1 <= n
      BY <2>2
    <3>2. h2[i] = h[i]
      BY <1>1, <3>1 DEF SameUpTo
    <3>3. /\ Distinct(h[i], prefix)
          /\ \A c \in ToSet(h[i]) : Shows(h, i - 1, prefix, uri, prefix[c], Val(uri, prev[c]))
      BY <3>1 DEF Scoped
    <3>4. \A p, u : Shows(h, i - 1, prefix, uri, p, u) => Shows(h2, i - 1, prefix, uri, p, u)
      BY <1>4, <3>1
    <3> QED  BY <3>2, <3>3, <3>4
  <2> QED  BY <2>1, <2>2
<1>6. ASSUME NEW p \in NsPrefixes
      PROVE  Shows(h2, n + 1, prefix, uri, p, Val(uri, b[p]))
  <2> DEFINE k == n + 1
             u == Val(uri, b[p])
  <2>1. Shows(h, n, prefix, uri, p, u)
    BY DEF Scoped
  <2>2. Shows(h2, n, prefix, uri, p, u)
    BY <1>4, <2>1
  <2>3. k \in Nat /\ k - 1 = n
    OBVIOUS
  <2>4. \A c \in ToSet(h2[k]) : prefix[c] # p
    BY <1>2
  <2>5. Shows(h2, k - 1, prefix, uri, p, u)
    BY <2>2, <2>3
  <2> HIDE DEF k, u
  <2>6. Shows(h2, k, prefix, uri, p, u)
    BY <2>3, <2>4, <2>5, ShowsBelow
  <2> QED  BY <2>6 DEF k, u
<1> QED  BY <1>5, <1>6 DEF Scoped

(* One level less, when it has no bindings.                                *)
LEMMA DropScoped ==
  ASSUME NEW h, NEW n \in Nat, NEW h2, NEW prefix, NEW prev, NEW uri, NEW b,
         Dropped(h, n, h2), Scoped(h, n, prefix, prev, uri, b)
  PROVE  Scoped(h2, n - 1, prefix, prev, uri, b)
<1>1. SameUpTo(h, h2, n - 1) /\ h[n] = <<>> /\ n # 0
  BY DEF Dropped, SameUpTo
<1>2. ToSet(h[n]) = {}
  BY <1>1, NoneSet
<1>3. Agree(UNION {ToSet(h[j]) : j \in 0..n}, prefix, prev, uri, prefix, prev, uri)
  BY DEF Agree
<1>4. ASSUME NEW k \in Int, k <= n - 1
      PROVE  \A p, u : Shows(h, k, prefix, uri, p, u) => Shows(h2, k, prefix, uri, p, u)
  <2>1. SameUpTo(h, h2, k) /\ \A i \in 0..k : i \in 0..n
    BY <1>1, <1>4 DEF SameUpTo
  <2>2. Within(h, k, UNION {ToSet(h[j]) : j \in 0..n})
    BY <2>1 DEF Within
  <2> QED  BY <1>3, <2>1, <2>2, ShowsKept
<1>5. ASSUME NEW i \in 0 .. n - 1
      PROVE  /\ Distinct(h2[i], prefix)
             /\ \A c \in ToSet(h2[i]) : Shows(h2, i - 1, prefix, uri, prefix[c], Val(uri, prev[c]))
  <2>1. i \in 0..n /\ i - 1 \in Int /\ i - 1 <= n - 1
    OBVIOUS
  <2>2. h2[i] = h[i]
    BY <1>1 DEF SameUpTo
  <2>3. /\ Distinct(h[i], prefix)
        /\ \A c \in ToSet(h[i]) : Shows(h, i - 1, prefix, uri, prefix[c], Val(uri, prev[c]))
    BY <2>1 DEF Scoped
  <2>4. \A p, u : Shows(h, i - 1, prefix, uri, p, u) => Shows(h2, i - 1, prefix, uri, p, u)
    BY <1>4, <2>1
  <2> QED  BY <2>2, <2>3, <2>4
<1>6. ASSUME NEW p \in NsPrefixes
      PROVE  Shows(h2, n - 1, prefix, uri, p, Val(uri, b[p]))
  <2>1. Shows(h, n, prefix, uri, p, Val(uri, b[p]))
    BY DEF Scoped
  <2>2. Shows(h, n - 1, prefix, uri, p, Val(uri, b[p]))
    BY <1>2, <2>1, ShowsBelow
  <2>3. n - 1 \in Int /\ n - 1 <= n - 1
    OBVIOUS
  <2>4. \A q, u : Shows(h, n - 1, prefix, uri, q, u) => Shows(h2, n - 1, prefix, uri, q, u)
    BY <1>4, <2>3
  <2> QED  BY <2>2, <2>4
<1> QED  BY <1>5, <1>6 DEF Scoped

(* The first binding of the innermost list is taken off.                   *)
Released(m, uri, uri2, c) == \A x \in 1..m : x # c => uri2[x] = uri[x]
LEMMA PopScoped ==
  ASSUME NEW h, NEW n \in Nat, NEW f, NEW m, NEW h2, NEW f2,
         NEW prefix, NEW prev, NEW uri, NEW b, NEW prefix2, NEW prev2, NEW uri2, NEW b2,
         Parted(h, n, f, m), Popped(h, n, f, h2, f2), Chained(h, n, prefix, prev, b),
         Unbound(prefix, prev, b, prefix2, prev2, b2, m, Head(h[n])), Released(m, uri, uri2, Head(h[n])),
         Scoped(h, n, prefix, prev, uri, b)
  PROVE  Scoped(h2, n, prefix2, prev2, uri2, b2)
<1> DEFINE S == Below(h2, n + 1)
           c == Head(h[n])
<1>1. Parted(h2, n, f2, m) /\ Chained(h2, n, prefix2, prev2, b2) /\ c \notin S /\ S \subseteq 1..m
  BY PopParted, PopChained, HeldCells
<1>2. /\ \A i \in 0..n : \A d \in ToSet(h2[i]) : d \in S /\ (prev2[d] = 0 \/ prev2[d] \in S)
      /\ \A q \in NsPrefixes : b2[q] = 0 \/ b2[q] \in S
  BY <1>1, PrevLive
<1>3. SameUpTo(h, h2, n - 1)
  BY DEF Popped, SameUpTo
<1>4. ToSet(h[n]) = {c} \cup ToSet(h2[n])
  <2> DEFINE s == h[n]
  <2>1. s \in Seq(1..m) /\ s # <<>> /\ h2[n] = Tail(s)
    BY HeldCells DEF Popped
  <2> HIDE DEF s
  <2>2. ToSet(s) = {Head(s)} \cup ToSet(Tail(s))
    BY <2>1, Uncons
  <2> QED  BY <2>1, <2>2 DEF s
<1>5. \A q \in NsPrefixes : b2[q] = IF q = prefix[c] THEN prev[c] ELSE b[q]
  BY DEF Unbound
<1>6. Agree(S, prefix, prev, uri, prefix2, prev2, uri2)
  BY <1>1 DEF Agree, Unbound, Released
<1> HIDE DEF S, c
<1>7. Distinct(h[n], prefix) /\ \A d \in ToSet(h[n]) : Shows(h, n - 1, prefix, uri, prefix[d], Val(uri, prev[d]))
  BY Levels DEF Scoped
<1>8. \A q, u : Shows(h, n - 1, prefix, uri, q, u) => Shows(h2, n - 1, prefix2, uri2, q, u)
  <2>1. n - 1 \in Int /\ \A i \in 0 .. n - 1 : i \in 0..n
    BY Levels
  <2>2. Within(h, n - 1, S)
    BY <1>2, <1>3, <2>1 DEF Within, SameUpTo
  <2> QED  BY <1>3, <1>6, <2>1, <2>2, ShowsKept
<1>9. \A i \in 0 .. n - 1 : /\ Distinct(h2[i], prefix2)
                            /\ \A d \in ToSet(h2[i]) : Shows(h2, i - 1, prefix2, uri2, prefix2[d], Val(uri2, prev2[d]))
  <2>1. n - 1 \in Int /\ n - 1 <= n /\ (\A i \in 0 .. n - 1 : i \in 0..n) /\ \A i \in 0 .. n - 1 : h2[i] = h[i]
    BY <1>3, Levels DEF SameUpTo
  <2>2. \A i \in 0 .. n - 1 : \A d \in ToSet(h[i]) : d \in S /\ (prev[d] = 0 \/ prev[d] \in S)
    BY <1>2, <1>6, <2>1 DEF Agree
  <2> QED  BY <1>6, <2>1, <2>2, LevelsStay
<1>10. \A d \in ToSet(h2[n]) : /\ d \in S /\ d # c /\ d \in ToSet(h[n]) /\ prefix2[d] = prefix[d] /\ uri2[d] = uri[d]
                               /\ Val(uri2, prev2[d]) = Val(uri, prev[d])
  BY <1>1, <1>2, <1>4, <1>6, Levels DEF Agree, Val
<1>11. /\ Distinct(h2[n], prefix2)
       /\ \A d \in ToSet(h2[n]) : Shows(h2, n - 1, prefix2, uri2, prefix2[d], Val(uri2, prev2[d]))
  <2>1. Distinct(h2[n], prefix2)
    BY <1>7, <1>10 DEF Distinct
  <2>2. ASSUME NEW d \in ToSet(h2[n])
        PROVE  Shows(h2, n - 1, prefix2, uri2, prefix2[d], Val(uri2, prev2[d]))
    <3>1. Shows(h, n - 1, prefix, uri, prefix[d], Val(uri, prev[d]))
      BY <1>7, <1>10
    <3> QED  BY <1>8, <1>10, <3>1
  <2> QED  BY <2>1, <2>2
<1>12. ASSUME NEW q \in NsPrefixes
       PROVE  Shows(h2, n, prefix2, uri2, q, Val(uri2, b2[q]))
  <2>1. CASE q = prefix[c]
    <3>1. b2[q] = prev[c] /\ Val(uri2, b2[q]) = Val(uri, prev[c])
      BY <1>2, <1>5, <1>6, <2>1 DEF Agree, Val
    <3>2. Shows(h, n - 1, prefix, uri, q, Val(uri, prev[c]))
      BY <1>4, <1>7, <2>1
    <3>3. Shows(h2, n - 1, prefix2, uri2, q, Val(uri2, b2[q]))
      BY <1>8, <3>1, <3>2
    <3>4. \A d \in ToSet(h2[n]) : prefix2[d] # q
      BY <1>4, <1>7, <1>10, <2>1 DEF Distinct
    <3> QED  BY <3>3, <3>4, ShowsBelow
  <2>2. CASE q # prefix[c]
    <3> DEFINE u == Val(uri, b[q])
    <3>1. Shows(h, n, prefix, uri, q, u)
      BY DEF Scoped
    <3>2. Val(uri2, b2[q]) = u
      BY <1>2, <1>5, <1>6, <2>2 DEF Agree, Val
    <3> HIDE DEF u
    <3>3. CASE \E d \in ToSet(h[n]) : prefix[d] = q
      <4>1. PICK d \in ToSet(h[n]) : prefix[d] = q
        BY <3>3
      <4>2. u = uri[d]
        BY <1>7, <3>1, <4>1, ShowsOnly
      <4>3. d \in ToSet(h2[n]) /\ prefix2[d] = q /\ uri2[d] = u
        BY <1>4, <1>10, <2>2, <4>1, <4>2
      <4>4. Shows(h2, n, prefix2, uri2, prefix2[d], uri2[d])
        BY <4>3, ShowsTop
      <4> QED  BY <3>2, <4>3, <4>4
    <3>4. CASE ~ \E d \in ToSet(h[n]) : prefix[d] = q
      <4>1. Shows(h, n - 1, prefix, uri, q, u)
        BY <3>1, <3>4, ShowsBelow
      <4>2. Shows(h2, n - 1, prefix2, uri2, q, u)
        BY <1>8, <4>1
      <4>3. \A d \in ToSet(h2[n]) : prefix2[d] # q
        BY <1>10, <3>4
      <4>4. Shows(h2, n, prefix2, uri2, q, u)
        BY <4>2, <4>3, ShowsBelow
      <4> QED  BY <3>2, <4>4
    <3> QED  BY <3>3, <3>4
  <2> QED  BY <2>1, <2>2
<1>13. \A i \in 0..n : i \in 0 .. n - 1 \/ i = n
  BY Levels
<1> QED  BY <1>9, <1>11, <1>12, <1>13 DEF Scoped

(* The innermost list is moved to the level below, which has no bindings.  *)
LEMMA MoveScoped ==
  ASSUME NEW h, NEW n \in Nat, NEW h2, NEW prefix, NEW prev, NEW uri, NEW b,
         MovedUp(h, n, h2), Scoped(h, n, prefix, prev, uri, b)
  PROVE  Scoped(h2, n, prefix, prev, uri, b)
<1> DEFINE k == n - 1
           l == n - 2
<1>1. /\ n \in Nat /\ k \in Nat /\ k - 1 = l /\ n - 1 = k /\ l \in Int /\ l <= n
      /\ n \in 0..n /\ k \in 0..n /\ \A i \in 0..n : i = n \/ i = k \/ i \in 0..l
  BY DEF MovedUp
<1>2. SameUpTo(h, h2, l) /\ h[k] = <<>> /\ h2[k] = h[n] /\ h2[n] = <<>>
  BY DEF MovedUp, SameUpTo
<1>3. \A i \in 0..l : i - 1 \in Int /\ i \in 0..n /\ \A j \in 0 .. i - 1 : j \in 0..l
  OBVIOUS
<1> HIDE DEF k, l
<1>4. ToSet(h[k]) = {} /\ ToSet(h2[n]) = {} /\ ToSet(h2[k]) = ToSet(h[n])
  BY <1>2, NoneSet
<1>5. ASSUME NEW i \in Int, \A j \in 0..i : j \in 0..l
      PROVE  \A p, u : Shows(h, i, prefix, uri, p, u) => Shows(h2, i, prefix, uri, p, u)
  <2> DEFINE S == UNION {ToSet(h[j]) : j \in 0..i}
  <2>1. SameUpTo(h, h2, i)
    BY <1>2, <1>5 DEF SameUpTo
  <2>2. Within(h, i, S) /\ Agree(S, prefix, prev, uri, prefix, prev, uri)
    BY DEF Within, Agree
  <2> HIDE DEF S
  <2> QED  BY <2>1, <2>2, ShowsKept
<1>6. \A p, u : Shows(h, l, prefix, uri, p, u) => Shows(h2, l, prefix, uri, p, u)
  BY <1>1, <1>5
<1>7. \A p, u : Shows(h, k, prefix, uri, p, u) => Shows(h2, l, prefix, uri, p, u)
  <2> SUFFICES ASSUME NEW p, NEW u, Shows(h, k, prefix, uri, p, u) PROVE Shows(h2, l, prefix, uri, p, u)
    OBVIOUS
  <2>1. \A c \in ToSet(h[k]) : prefix[c] # p
    BY <1>4
  <2>2. Shows(h, k - 1, prefix, uri, p, u)
    BY <1>1, <2>1, ShowsBelow
  <2> QED  BY <1>1, <1>6, <2>2
<1>8. Distinct(h[n], prefix) /\ \A c \in ToSet(h[n]) : Shows(h, k, prefix, uri, prefix[c], Val(uri, prev[c]))
  BY <1>1 DEF Scoped
<1>9. ASSUME NEW i \in 0..n
      PROVE  /\ Distinct(h2[i], prefix)
             /\ \A c \in ToSet(h2[i]) : Shows(h2, i - 1, prefix, uri, prefix[c], Val(uri, prev[c]))
  <2>1. CASE i = n
    BY <1>4, <2>1 DEF Distinct
  <2>2. CASE i = k
    BY <1>1, <1>2, <1>7, <1>8, <2>2
  <2>3. CASE i \in 0..l
    <3>1. h2[i] = h[i]
      BY <1>2, <2>3 DEF SameUpTo
    <3>2. /\ Distinct(h[i], prefix)
          /\ \A c \in ToSet(h[i]) : Shows(h, i - 1, prefix, uri, prefix[c], Val(uri, prev[c]))
      BY DEF Scoped
    <3>3. \A p, u : Shows(h, i - 1, prefix, uri, p, u) => Shows(h2, i - 1, prefix, uri, p, u)
      BY <1>3, <1>5, <2>3
    <3> QED  BY <3>1, <3>2, <3>3
  <2> QED  BY <1>1, <2>1, <2>2, <2>3
<1>10. ASSUME NEW p \in NsPrefixes
       PROVE  Shows(h2, n, prefix, uri, p, Val(uri, b[p]))
  <2> DEFINE u == Val(uri, b[p])
  <2>1. Shows(h, n, prefix, uri, p, u)
    BY DEF Scoped
  <2> HIDE DEF u
  <2>2. Shows(h2, k, prefix, uri, p, u)
    <3>1. CASE \E c \in ToSet(h[n]) : prefix[c] = p
      <4>1. PICK c \in ToSet(h[n]) : prefix[c] = p
        BY <3>1
      <4>2. u = uri[c]
        BY <1>8, <2>1, <4>1, ShowsOnly
      <4>3. c \in ToSet(h2[k])
        BY <1>2
      <4>4. Shows(h2, k, prefix, uri, prefix[c], uri[c])
        BY <1>1, <4>3, ShowsTop
      <4> QED  BY <4>1, <4>2, <4>4
    <3>2. CASE ~ \E c \in ToSet(h[n]) : prefix[c] = p
      <4>1. Shows(h, n - 1, prefix, uri, p, u)
        BY <2>1, <3>2, ShowsBelow
      <4>2. Shows(h2, l, prefix, uri, p, u)
        BY <1>1, <1>7, <4>1
      <4>3. \A c \in ToSet(h2[k]) : prefix[c] # p
        BY <1>2, <3>2
      <4> QED  BY <1>1, <4>2, <4>3, ShowsBelow
    <3> QED  BY <3>1, <3>2
  <2>3. \A c \in ToSet(h2[n]) : prefix[c] # p
    BY <1>4
  <2>4. Shows(h2, n - 1, prefix, uri, p, u)
    BY <1>1, <2>2
  <2>5. Shows(h2, n, prefix, uri, p, u)
    BY <2>3, <2>4, ShowsBelow
  <2> QED  BY <2>5 DEF u
<1> QED  BY <1>9, <1>10 DEF Scoped

(* A binding is made for a prefix the innermost list does not bind.        *)
ScopedBy(b, h, n) == Scoped(h, n, Prefix(b.cells), Prev(b.cells), Uri(b.cells), b.bound)
LEMMA AddScoped ==
  ASSUME NEW b, NEW h, NEW n \in Nat, NEW h2, NEW p \in NsPrefixes, NEW name, NEW uri, Linked(b, h, n),
         Leads(h, n, h2, AddBinding(b, p, name, uri).list), ScopedBy(b, h, n),
         \A d \in ToSet(h[n]) : b.cells[d].prefix # p
  PROVE  ScopedBy(AddBinding(b, p, name, uri), h2, n)
<1> DEFINE b2 == AddBinding(b, p, name, uri)
           c == Taken(b)
           cs == b.cells
           cs2 == b2.cells
           m == Len(b.cells)
           m2 == Len(b2.cells)
           v == b.bound
           v2 == b2.bound
<1>1. Adds(b, b2, c, p, name) /\ Made(b, b2, c, p, uri)
  BY AddCells
<1>2. /\ Pushed(h, n, b.free, m, h2, b2.free, m2, c)
      /\ Rebound(Prefix(cs), Prev(cs), v, Prefix(cs2), Prev(cs2), v2, m, c, p)
  BY AddPushes
<1>3. /\ Parted(h, n, b.free, m) /\ Chained(h, n, Prefix(cs), Prev(cs), v) /\ v \in [NsPrefixes -> 0..m]
      /\ Scoped(h, n, Prefix(cs), Prev(cs), Uri(cs), v)
  BY DEF Linked, ScopedBy
<1> HIDE DEF b2, c
<1>4. Introduced(h, n, m, Prefix(cs), Uri(cs), v, Uri(cs2), v2, c, p)
  <2>1. /\ c \in 1..m2 /\ m \in Nat /\ m2 \in Nat /\ m2 >= m /\ c # 0
        /\ \A x \in 1..m : x # c => cs2[x] = cs[x]
    BY <1>1 DEF Adds
  <2>2. cs2[c].uri = uri /\ v2 = [v EXCEPT ![p] = IF uri = "" /\ p = "" THEN 0 ELSE c]
    BY <1>1 DEF Made
  <2>3. \A x \in 1..m : x \in 1..m2
    BY <2>1
  <2>4. \A x \in 1..m : x # c => Uri(cs2)[x] = Uri(cs)[x]
    BY <2>1, <2>3 DEF Uri
  <2>5. \A d \in ToSet(h[n]) : Prefix(cs)[d] # p
    BY HeldCells, <1>3 DEF Prefix
  <2>6. v2[p] = c \/ (v2[p] = 0 /\ Uri(cs2)[c] = "")
    BY <1>3, <2>1, <2>2 DEF Uri
  <2>7. \A q \in NsPrefixes : q # p => v2[q] = v[q]
    BY <1>3, <2>2
  <2> QED  BY <2>1, <2>4, <2>5, <2>6, <2>7 DEF Introduced
<1> HIDE DEF cs, cs2, m, m2, v, v2
<1>5. Scoped(h2, n, Prefix(cs2), Prev(cs2), Uri(cs2), v2)
  BY <1>2, <1>3, <1>4, PushScoped
<1> QED  BY <1>5 DEF ScopedBy, b2, cs2, v2

(* No binding, no meaning.                                                 *)
LEMMA NoneScoped == ScopedBy(NoBindings, Alone(NoBindings), 0)
<1> DEFINE b == NoBindings
           h == Alone(b)
<1>1. b.list = <<>> /\ b.bound = [p \in NsPrefixes |-> 0]
  BY DEF NoBindings
<1> HIDE DEF b
<1>2. \A i \in 0..0 : h[i] = <<>>
  BY <1>1 DEF Alone
<1> HIDE DEF h
<1>3. \A i \in 0..0 : ToSet(h[i]) = {}
  BY <1>2, NoneSet
<1>4. \A p \in NsPrefixes : Val(Uri(b.cells), b.bound[p]) = ""
  BY <1>1 DEF Val
<1>5. \A p : None(h, 0, 0, Prefix(b.cells), p)
  BY <1>3 DEF None
<1>6. \A p \in NsPrefixes : Shows(h, 0, Prefix(b.cells), Uri(b.cells), p, Val(Uri(b.cells), b.bound[p]))
  BY <1>4, <1>5 DEF Shows
<1>7. \A i \in 0..0 : Distinct(h[i], Prefix(b.cells))
  BY <1>3 DEF Distinct
<1>8. \A i \in 0..0 : \A c \in ToSet(h[i]) :
        Shows(h, i - 1, Prefix(b.cells), Uri(b.cells), Prefix(b.cells)[c], Val(Uri(b.cells), Prev(b.cells)[c]))
  BY <1>3
<1> QED  BY <1>6, <1>7, <1>8 DEF ScopedBy, Scoped, b, h

(* What an added binding leaves on the list.                               *)
Lengthened(b, b2, c, p, name, uri, h, n) ==
  /\ ToSet(b2.list) = {c} \cup ToSet(b.list) /\ c \notin ToSet(b.list)
  /\ b2.cells[c].prefix = p /\ b2.cells[c].uri = uri /\ b2.cells[c].att = name
  /\ \A x \in 1 .. Len(b.cells) : x # c => b2.cells[x] = b.cells[x]
  /\ \A i \in 0..n : ToSet(h[i]) \subseteq 1 .. Len(b.cells) /\ c \notin ToSet(h[i])
LEMMA AddList ==
  ASSUME NEW b, NEW h, NEW n \in Nat, NEW h2, NEW p \in NsPrefixes, NEW name, NEW uri, Linked(b, h, n),
         Leads(h, n, h2, AddBinding(b, p, name, uri).list)
  PROVE  Lengthened(b, AddBinding(b, p, name, uri), Taken(b), p, name, uri, h, n)
<1> DEFINE b2 == AddBinding(b, p, name, uri)
           c == Taken(b)
           s == b.list
           M == 1 .. Len(b.cells) \cup {c}
<1>1. Adds(b, b2, c, p, name) /\ Made(b, b2, c, p, uri)
  BY AddCells
<1>2. Pushed(h, n, b.free, Len(b.cells), h2, b2.free, Len(b2.cells), c)
  BY AddPushes
<1>3. Parted(h, n, b.free, Len(b.cells)) /\ h[n] = s
  BY DEF Linked
<1> HIDE DEF b2, c
<1>4. \A i \in 0..n : c \notin ToSet(h[i]) /\ h[i] \in Seq(1 .. Len(b.cells)) /\ ToSet(h[i]) \subseteq 1 .. Len(b.cells)
  BY <1>2, <1>3, PushTakes, HeldCells
<1>5. s \in Seq(M) /\ c \in M /\ c \notin ToSet(s)
  BY <1>3, <1>4, SeqMonotonic, Levels
<1>6. b2.list = <<c>> \o s
  BY <1>1 DEF Adds
<1> HIDE DEF s, M
<1>7. ToSet(b2.list) = {c} \cup ToSet(s)
  BY <1>5, <1>6, ConsSet
<1> QED  BY <1>1, <1>4, <1>5, <1>7 DEF Adds, Made, b2, c, s, Lengthened

(* A context has a prefix once, and all of it is bound by setContext.      *)
Each(context) == \A i, j \in 1 .. Len(context) : context[i][1] = context[j][1] => i = j
ForPair(cell, pair) == cell.prefix = pair[1] /\ cell.uri = pair[2]
SaidBy(b, context, k) ==
  /\ \A c \in ToSet(b.list) : \E j \in 1..k : ForPair(b.cells[c], context[j])
  /\ \A j \in 1..k : \E c \in ToSet(b.list) : ForPair(b.cells[c], context[j])
LEMMA ContextScoped ==
  ASSUME NEW context, IsContext(context), Each(context)
  PROVE  LET b == SetContext(context) IN
         Linked(b, Alone(b), 0) /\ ScopedBy(b, Alone(b), 0) /\ SaidBy(b, context, Len(context))
<1> DEFINE n == Len(context)
<1>1. n \in Nat /\ \A i \in 1..n : context[i][1] \in NsPrefixes /\ context[i][2] \in Uris
  BY DEF IsContext
<1>2. PICK g : /\ g[0] = NoBindings /\ g[n] = SetContext(context)
               /\ \A k \in 0 .. n - 1 : g[k + 1] = AddBinding(g[k], context[k + 1][1], Null, context[k + 1][2])
  BY <1>1, ContextSteps
<1> DEFINE Good(k) == Linked(g[k], Alone(g[k]), 0) /\ ScopedBy(g[k], Alone(g[k]), 0) /\ SaidBy(g[k], context, k)
           T == {k \in Nat : k <= n => Good(k)}
<1>3. 0 \in T
  <2>1. SaidBy(NoBindings, context, 0)
    <3>1. NoBindings.list = <<>>
      BY DEF NoBindings
    <3>2. ToSet(NoBindings.list) = {} /\ 1..0 = {}
      BY <3>1, NoneSet
    <3> QED  BY <3>2 DEF SaidBy
  <2> QED  BY <1>2, <2>1, NoneLinked, NoneScoped
<1>4. ASSUME NEW k \in Nat, k \in T PROVE k + 1 \in T
  <2> SUFFICES ASSUME k + 1 <= n PROVE Good(k + 1)
    OBVIOUS
  <2> DEFINE b == g[k]
             p == context[k + 1][1]
             uri == context[k + 1][2]
             b2 == AddBinding(b, p, Null, uri)
             c == Taken(b)
  <2>1. k <= n /\ k \in 0 .. n - 1 /\ k + 1 \in 1..n /\ \A j \in 1..k : j \in 1..n /\ j # k + 1
    BY <1>1
  <2>2. Linked(b, Alone(b), 0) /\ ScopedBy(b, Alone(b), 0) /\ SaidBy(b, context, k)
    BY <1>4, <2>1
  <2>3. p \in NsPrefixes /\ uri \in Uris /\ g[k + 1] = b2
    BY <1>1, <1>2, <2>1
  <2>4. Leads(Alone(b), 0, Alone(b2), b2.list) /\ Alone(b)[0] = b.list
    BY DEF Alone, Leads
  <2>5. /\ ToSet(b2.list) = {c} \cup ToSet(b.list) /\ c \notin ToSet(b.list) /\ ForPair(b2.cells[c], context[k + 1])
        /\ \A x \in 1 .. Len(b.cells) : x # c => b2.cells[x] = b.cells[x]
        /\ ToSet(b.list) \subseteq 1 .. Len(b.cells)
    <3>1. 0 \in Nat /\ 0 \in 0..0
      OBVIOUS
    <3>2. Lengthened(b, b2, c, p, Null, uri, Alone(b), 0)
      <4>1. p \in NsPrefixes /\ Linked(b, Alone(b), 0) /\ Leads(Alone(b), 0, Alone(b2), b2.list)
        BY <2>2, <2>3, <2>4
      <4> HIDE DEF b, p, uri
      <4> QED  BY <3>1, <4>1, AddList
    <3> QED  BY <2>4, <3>1, <3>2 DEF ForPair, Lengthened
  <2>6. \A d \in ToSet(Alone(b)[0]) : b.cells[d].prefix # p
    <3> SUFFICES ASSUME NEW d \in ToSet(b.list), b.cells[d].prefix = p PROVE FALSE
      BY <2>4
    <3>1. PICK j \in 1..k : ForPair(b.cells[d], context[j])
      BY <2>2 DEF SaidBy
    <3>2. context[j][1] = context[k + 1][1]
      BY <3>1 DEF ForPair
    <3> QED  BY <2>1, <3>2 DEF Each
  <2> HIDE DEF b, p, uri, c
  <2>7. Linked(b2, Alone(b2), 0) /\ ScopedBy(b2, Alone(b2), 0)
    BY <2>2, <2>3, <2>4, <2>6, AddKeeps, AddScoped
  <2> HIDE DEF b2
  <2>8. \A d \in ToSet(b.list) : d # c /\ b2.cells[d] = b.cells[d]
    BY <2>5
  <2>9. \A d \in ToSet(b2.list) : \E j \in 1 .. k + 1 : ForPair(b2.cells[d], context[j])
    <3> SUFFICES ASSUME NEW d \in ToSet(b2.list) PROVE \E j \in 1 .. k + 1 : ForPair(b2.cells[d], context[j])
      OBVIOUS
    <3>1. k + 1 \in 1 .. k + 1 /\ \A j \in 1..k : j \in 1 .. k + 1
      OBVIOUS
    <3>2. CASE d = c
      BY <2>5, <3>1, <3>2
    <3>3. CASE d \in ToSet(b.list)
      <4>1. PICK j \in 1..k : ForPair(b.cells[d], context[j])
        BY <2>2, <3>3 DEF SaidBy
      <4> QED  BY <2>8, <3>1, <3>3, <4>1
    <3> QED  BY <2>5, <3>2, <3>3
  <2>10. \A j \in 1 .. k + 1 : \E d \in ToSet(b2.list) : ForPair(b2.cells[d], context[j])
    <3> SUFFICES ASSUME NEW j \in 1 .. k + 1 PROVE \E d \in ToSet(b2.list) : ForPair(b2.cells[d], context[j])
      OBVIOUS
    <3>1. CASE j = k + 1
      BY <2>5, <3>1
    <3>2. CASE j # k + 1
      <4>1. j \in 1..k
        BY <3>2
      <4>2. PICK d \in ToSet(b.list) : ForPair(b.cells[d], context[j])
        BY <2>2, <4>1 DEF SaidBy
      <4> QED  BY <2>5, <2>8, <4>2
    <3> QED  BY <3>1, <3>2
  <2>11. SaidBy(b2, context, k + 1)
    BY <2>9, <2>10 DEF SaidBy
  <2> QED  BY <2>3, <2>7, <2>11
<1> HIDE DEF T
<1>5. Nat \subseteq T
  BY <1>3, <1>4, Induct
<1>6. n \in T /\ n <= n
  BY <1>1, <1>5
<1> QED  BY <1>2, <1>6 DEF T

(* What prefixes mean then.                                                *)
Meaning(b, p) == IF b.bound[p] = 0 THEN "" ELSE b.cells[b.bound[p]].uri
LEMMA ContextMeans ==
  ASSUME NEW context, IsContext(context), Each(context)
  PROVE  LET b == SetContext(context) IN
         /\ \A j \in 1 .. Len(context) : Meaning(b, context[j][1]) = context[j][2]
         /\ \A p \in NsPrefixes : (\A j \in 1 .. Len(context) : context[j][1] # p) => Meaning(b, p) = ""
<1> DEFINE b == SetContext(context)
           n == Len(context)
           h == Alone(b)
<1>1. Linked(b, h, 0) /\ ScopedBy(b, h, 0) /\ SaidBy(b, context, n)
  BY ContextScoped
<1>2. \A i \in 1..n : context[i][1] \in NsPrefixes
  BY DEF IsContext
<1> HIDE DEF b
<1>3. h[0] = b.list /\ 0 \in 0..0 /\ 0 \in Nat
  BY DEF Alone
<1> HIDE DEF h
<1>4. Parted(h, 0, b.free, Len(b.cells)) /\ b.bound \in [NsPrefixes -> 0 .. Len(b.cells)] /\ Len(b.cells) \in Nat
  BY <1>1 DEF Linked, Parted
<1>5. ToSet(b.list) \subseteq 1 .. Len(b.cells)
  BY <1>3, <1>4, HeldCells
<1>6. \A p \in NsPrefixes : Meaning(b, p) = Val(Uri(b.cells), b.bound[p])
  <2> TAKE p \in NsPrefixes
  <2>1. b.bound[p] # 0 => b.bound[p] \in 1 .. Len(b.cells)
    BY <1>4
  <2> QED  BY <2>1 DEF Meaning, Val, Uri
<1>7. \A c \in ToSet(b.list) : Prefix(b.cells)[c] = b.cells[c].prefix /\ Uri(b.cells)[c] = b.cells[c].uri
  BY <1>5 DEF Prefix, Uri
<1>8. Distinct(h[0], Prefix(b.cells)) /\ \A p \in NsPrefixes : Shows(h, 0, Prefix(b.cells), Uri(b.cells), p, Meaning(b, p))
  BY <1>1, <1>3, <1>6 DEF ScopedBy, Scoped
<1>9. ASSUME NEW j \in 1..n PROVE Meaning(b, context[j][1]) = context[j][2]
  <2>1. PICK c \in ToSet(b.list) : ForPair(b.cells[c], context[j])
    BY <1>1 DEF SaidBy
  <2>2. Prefix(b.cells)[c] = context[j][1] /\ Uri(b.cells)[c] = context[j][2] /\ c \in ToSet(h[0])
    BY <1>3, <1>7, <2>1 DEF ForPair
  <2>3. Shows(h, 0, Prefix(b.cells), Uri(b.cells), context[j][1], Meaning(b, context[j][1]))
    BY <1>2, <1>8
  <2> DEFINE q == context[j][1]
             u == Meaning(b, q)
             prefix == Prefix(b.cells)
             uri == Uri(b.cells)
             z == 0
  <2>4. /\ z \in Nat /\ c \in ToSet(h[z]) /\ prefix[c] = q /\ uri[c] = context[j][2] /\ Distinct(h[z], prefix)
        /\ Shows(h, z, prefix, uri, q, u)
    BY <1>3, <1>8, <2>2, <2>3
  <2> HIDE DEF q, u, prefix, uri, z
  <2>5. u = uri[c]
    BY <2>4, ShowsOnly
  <2> QED  BY <2>4, <2>5 DEF u, q
<1>10. ASSUME NEW p \in NsPrefixes, \A j \in 1..n : context[j][1] # p PROVE Meaning(b, p) = ""
  <2>1. \A c \in ToSet(h[0]) : Prefix(b.cells)[c] # p
    BY <1>1, <1>3, <1>7, <1>10 DEF SaidBy, ForPair
  <2>2. \A i \in 0..0 : i = 0
    OBVIOUS
  <2> QED  BY <1>8, <2>1, <2>2 DEF Shows
<1> QED  BY <1>9, <1>10 DEF b

-----------------------------------------------------------------------------
(* Steps that leave the bindings alone.                                    *)
KeepsOn(S, all, all2) ==
  \A c \in S : all2[c].prefix = all[c].prefix /\ all2[c].uri = all[c].uri /\ all2[c].att = all[c].att
SameCells(all, all2) ==
  /\ Prefix(all2) = Prefix(all) /\ Prev(all2) = Prev(all) /\ Uri(all2) = Uri(all)
  /\ KeepsOn(1 .. Len(all), all, all2)
TagStays(t, u) == u.name = t.name /\ u.atts = t.atts /\ u.bindings = t.bindings
TagsStay == Len(tags') = Len(tags) /\ \A i \in 1 .. Len(tags) : TagStays(tags[i], tags'[i])

(* The bindings say the same when their cells do.                          *)
LEMMA StandsKept ==
  ASSUME NEW n, NEW list, NEW all, NEW all2, NEW atts, Stands(n, list, all, atts), KeepsOn(ToSet(list), all, all2)
  PROVE  Stands(n, list, all2, atts)
<1>1. \A c \in ToSet(list) : \A a : StandsFor(all2[c], a) <=> StandsFor(all[c], a)
  BY DEF KeepsOn, StandsFor
<1> HIDE DEF StandsFor
<1>2. \A c \in ToSet(list) : \E a \in atts : n /\ Says(a.name) /\ StandsFor(all2[c], a)
  BY <1>1 DEF Stands
<1>3. \A a \in atts : n /\ Says(a.name) => \E c \in ToSet(list) : StandsFor(all2[c], a)
  BY <1>1 DEF Stands
<1> QED  BY <1>2, <1>3 DEF Stands

(* A tag says the same when its name and attributes stay.                  *)
LEMMA AttsStay ==
  ASSUME NEW t, NEW u, u.name = t.name, u.atts = t.atts
  PROVE  AttsOf(u) = AttsOf(t)
<1>1. \A d : Defaulted(u, d) <=> Defaulted(t, d)
  BY DEF Defaulted
<1> HIDE DEF Defaulted
<1>2. {d \in ToSet(Defaults(u.name)) : Defaulted(u, d)} = {d \in ToSet(Defaults(t.name)) : Defaulted(t, d)}
  BY <1>1
<1> QED  BY <1>2 DEF AttsOf

(* Every open tag whose start tag has been handled is one of before.       *)
Remains(i) ==
  /\ i \in 1 .. Len(tags) /\ Closed(i) /\ TagStays(tags[i], tags'[i])
  /\ KeepsOn(ToSet(tags[i].bindings), cells, cells')
LEMMA OpenStays ==
  ASSUME OpenSaid, ns' = ns, \A i \in 1 .. Len(tags') : Closed(i)' => Remains(i)
  PROVE  OpenSaid'
<1> SUFFICES ASSUME NEW i \in 1 .. Len(tags'), Closed(i)' PROVE Stands(ns', tags'[i].bindings, cells', AttsOf(tags'[i]))
  BY DEF OpenSaid
<1> DEFINE t == tags[i]
           u == tags'[i]
<1>1. TagStays(t, u) /\ KeepsOn(ToSet(t.bindings), cells, cells') /\ i \in 1 .. Len(tags) /\ Closed(i)
  BY DEF Remains
<1>2. Stands(ns, t.bindings, cells, AttsOf(t))
  BY <1>1 DEF OpenSaid
<1> HIDE DEF t, u
<1>3. AttsOf(u) = AttsOf(t) /\ u.bindings = t.bindings
  BY <1>1, AttsStay DEF TagStays
<1>4. Stands(ns, t.bindings, cells', AttsOf(t))
  BY <1>1, <1>2, StandsKept
<1> QED  BY <1>3, <1>4 DEF u

(* The cells on the lists of tags are cells.                               *)
LEMMA KeepsSub == ASSUME NEW S, NEW T, S \subseteq T, NEW all, NEW all2, KeepsOn(T, all, all2) PROVE KeepsOn(S, all, all2)
  BY DEF KeepsOn

(* The stack of tags and the bindings stay.                                *)
LEMMA StillScoped ==
  ASSUME ContentInv, Scopes, error = "NONE", TagsStay, SameCells(cells, cells'), UNCHANGED <<bound, inherited>>,
         work'.bindings = work.bindings
  PROVE  Scopes'
<1>1. Len(tags) \in Nat /\ Len(tags') = Len(tags) /\ \A i \in 1 .. Len(tags) : tags'[i].bindings = tags[i].bindings
  BY AnySeq DEF ContentInv, Typed, TypedTags, TagsStay, TagStays
<1>2. Held' = Held /\ Depth' = Depth
  BY <1>1, HeldEq
<1>3. Prefix(cells') = Prefix(cells) /\ Prev(cells') = Prev(cells) /\ Uri(cells') = Uri(cells)
  BY DEF SameCells
<1> HIDE DEF Held, Depth, Prefix, Prev, Uri, Scoped
<1> QED  BY <1>2, <1>3 DEF Scopes

(* A step that leaves the bindings alone.                                  *)
LEMMA StillSaid ==
  ASSUME ContentInv, ScopeInv, error = "NONE", TagsStay, SameCells(cells, cells'), UNCHANGED <<ns, bound, inherited>>,
         work'.bindings = work.bindings, Handling' <=> Handling, Handling => work'.tag = work.tag,
         Saying' => Stands(ns, work.bindings, cells, Seen(work)'), Noted(work, flags)'
  PROVE  ScopeInv'
<1> DEFINE n == Len(tags)
<1>0. n \in Nat /\ Len(tags') = n /\ (\A i \in 1..n : TagStays(tags[i], tags'[i])) /\ (Handling => n # 0)
  <2>1. IsSeq(tags) /\ n \in Nat /\ (Handling => tags # <<>>)
    BY AnySeq DEF ContentInv, Typed, TypedTags, Control
  <2>2. n = 0 => tags = <<>>
    BY <2>1 DEF IsSeq
  <2> QED  BY <2>1, <2>2 DEF TagsStay
<1>1. Scopes'
  BY StillScoped DEF ScopeInv
<1>2. OpenSaid /\ WorkSaid /\ SameAtts
  BY DEF ScopeInv, Declarations
<1>3. KeepsOn(1 .. Len(cells), cells, cells')
  BY DEF SameCells
<1>4. OpenSaid'
  <2>1. ASSUME NEW i \in 1 .. Len(tags'), Closed(i)' PROVE Remains(i)
    <3>1. i \in 1..n /\ Closed(i)
      BY <1>0, <2>1 DEF Closed
    <3>2. ToSet(tags[i].bindings) \subseteq 1 .. Len(cells)
      BY <3>1, ListsTyped
    <3> QED  BY <1>0, <1>3, <3>1, <3>2, KeepsSub DEF Remains
  <2> QED  BY <1>2, <2>1, OpenStays
<1>5. WorkSaid'
  <2> SUFFICES ASSUME Saying' PROVE Stands(ns', work'.bindings, cells', Seen(work)')
    BY DEF WorkSaid
  <2>1. KeepsOn(ToSet(work.bindings), cells, cells')
    BY <1>3, ListsTyped, KeepsSub
  <2> HIDE DEF Seen
  <2>2. Stands(ns, work.bindings, cells', Seen(work)')
    BY <2>1, StandsKept
  <2> QED  BY <2>2
<1>6. SameAtts'
  <2> SUFFICES ASSUME Handling' PROVE tags'[Len(tags')].atts = work'.tag.atts
    BY DEF SameAtts
  <2>1. Handling /\ n \in 1..n /\ TagStays(tags[n], tags'[n])
    BY <1>0
  <2>2. tags[n].atts = work.tag.atts
    BY <1>2, <2>1 DEF SameAtts
  <2> QED  BY <1>0, <2>1, <2>2 DEF TagStays
<1> QED  BY <1>1, <1>4, <1>5, <1>6 DEF ScopeInv, Declarations

(* After an error there is nothing to say.                                 *)
LEMMA NoMore == ASSUME error' # "NONE" PROVE ScopeInv'
  BY DEF ScopeInv, Scopes, Declarations

(* Nothing is the same as nothing.                                         *)
LEMMA SameHere ==
  /\ \A all : SameCells(all, all)
  /\ tags' = tags => TagsStay
  BY DEF SameCells, KeepsOn, TagsStay, TagStays

(* To a place outside of start tags.                                       *)
Away == {"token", "check", "return", "cdata", "withdraw"}
LEMMA AwayScoped ==
  ASSUME ContentInv, ScopeInv, error = "NONE", TagsStay, UNCHANGED <<cells, ns, bound, inherited>>,
         work'.bindings = work.bindings, ~Handling, work'.at \in Away
  PROVE  ScopeInv'
<1>1. ~Handling' /\ ~Saying' /\ Noted(work, flags)'
  BY DEF Away, Handling, Saying, StoringAtts, Noted
<1>2. SameCells(cells, cells')
  BY SameHere
<1> QED  BY <1>1, <1>2, StillSaid

(* Tokens outside of start tags.                                           *)
Elsewhere == UNCHANGED <<tags, cells, ns, bound, inherited>> /\ (error' # "NONE" \/ \E p \in Away : Goto(p))
LEMMA ElsewhereScoped ==
  ASSUME ContentInv, ScopeInv, error = "NONE", work.at \in {"token", "check", "return", "cdata", "withdraw"},
         work.bindings = <<>>, Elsewhere
  PROVE  ScopeInv'
<1>1. CASE error' # "NONE"
  BY <1>1, NoMore
<1>2. ASSUME NEW p \in Away, Goto(p) PROVE ScopeInv'
  <2>1. work'.at = p /\ work'.bindings = <<>>
    BY <1>2 DEF Goto, NoWork
  <2>2. ~Handling /\ TagsStay
    BY SameHere DEF Handling, StoringAtts, Elsewhere
  <2> QED  BY <2>1, <2>2, AwayScoped DEF Elsewhere
<1> QED  BY <1>1, <1>2 DEF Elsewhere

(* Content, sections, the ends of pieces and the checks bind nothing.      *)
LEMMA QuietScoped ==
  ASSUME ContentInv, ScopeInv,
         \/ Content \/ ExternalEntity \/ OpenCdata \/ Misc \/ CdataText \/ CloseCdata \/ CdataEnds
         \/ PieceEnds \/ TrailingText \/ Check \/ Left \/ InvalidToken \/ Junk
  PROVE  ScopeInv'
<1>1. /\ error = "NONE" /\ work.at \in {"token", "check", "return", "cdata", "withdraw"}
      /\ work.at = "withdraw" => work.bindings = <<>>
  BY DEF Content, ExternalEntity, OpenCdata, Misc, CdataText, CloseCdata, CdataEnds, PieceEnds, TrailingText, Check,
         Left, InvalidToken, Junk, Token, At
<1>2. work.bindings = <<>>
  BY <1>1 DEF ContentInv, Control
<1>3. UNCHANGED <<tags, cells, ns, bound, inherited>>
  BY DEF Content, ExternalEntity, OpenCdata, Misc, CdataText, CloseCdata, CdataEnds, PieceEnds, TrailingText, Check,
         Left, InvalidToken, Junk, Quiet, Finish, Fail, Refuse, setup, bindingVars
<1>4. error' # "NONE" \/ \E p \in Away : Goto(p)
  <2>1. CASE Content \/ ExternalEntity \/ OpenCdata \/ Misc
    BY <2>1 DEF Content, ExternalEntity, OpenCdata, Misc, Away
  <2>2. CASE CdataText \/ CloseCdata \/ CdataEnds
    BY <2>2 DEF CdataText, CloseCdata, CdataEnds, Away, Fail, Refuse
  <2>3. CASE PieceEnds \/ TrailingText
    BY <2>3 DEF PieceEnds, TrailingText, Away, Fail, Refuse, Finish, Incomplete
  <2>4. CASE Check \/ Left
    BY <2>4 DEF Check, Left, Away, Fail, Refuse
  <2>5. CASE InvalidToken \/ Junk
    BY <2>5 DEF InvalidToken, Junk, Broken, Fail, Refuse
  <2> QED  BY <2>1, <2>2, <2>3, <2>4, <2>5
<1> QED  BY <1>1, <1>2, <1>3, <1>4, ElsewhereScoped DEF Elsewhere

(* The start of a call and its end: raw names move, nothing else does.     *)
LEMMA CallScoped ==
  ASSUME ContentInv, ContentInv', ScopeInv, Parse \/ Resume \/ Return
  PROVE  ScopeInv'
<1>1. /\ error = "NONE" /\ UNCHANGED <<cells, ns, bound, inherited>> /\ work.at \in {"token", "return"}
      /\ error' # "NONE" \/ work' = NoWork \/ \E p \in {"token", "cdata"} : Goto(p)
  BY DEF Parse, Resume, Enter, Return, At, Refuse, Fail, setup, bindingVars, ContentInv, Control
<1>2. work.bindings = <<>> /\ ~Handling
  BY <1>1 DEF ContentInv, Control, Handling, StoringAtts
<1>3. CASE error' # "NONE"
  BY <1>3, NoMore
<1>4. CASE error' = "NONE"
  <2>1. work'.at \in {"cdata", "token"} /\ work'.bindings = <<>>
    BY <1>1, <1>4 DEF Goto, NoWork
  <2>2. /\ IsSeq(tags) /\ IsSeq(tags') /\ Len(tags) \in Nat /\ DOMAIN tags = 1 .. Len(tags)
        /\ Len(tags') \in Nat /\ DOMAIN tags' = 1 .. Len(tags')
        /\ \A i \in 1 .. Len(tags) : DOMAIN tags[i] = TagFields
    <3>1. TypedTags /\ TypedTags'
      BY DEF ContentInv, Typed
    <3>2. IsSeq(tags) /\ IsSeq(tags')
      BY <3>1 DEF TypedTags
    <3> QED  BY <3>1, <3>2, AnySeq DEF TypedTags, IsTag
  <2>3. \A i \in 1 .. Len(tags) : TagStays(tags[i], Stored(tags[i])) /\ TagStays(tags[i], [tags[i] EXCEPT !.raw = "gone"])
    <3> TAKE i \in 1 .. Len(tags)
    <3> DEFINE t == tags[i]
    <3>1. DOMAIN t = TagFields
      BY <2>2
    <3> HIDE DEF t
    <3>2. TagStays(t, Stored(t)) /\ TagStays(t, [t EXCEPT !.raw = "gone"])
      BY <3>1 DEF Stored, TagFields, TagStays
    <3> QED  BY <3>2 DEF t
  <2>4. DOMAIN tags' = DOMAIN tags /\ \A i \in 1 .. Len(tags) : TagStays(tags[i], tags'[i])
    <3>1. CASE tags' = tags
      BY <3>1 DEF TagStays
    <3>2. CASE tags' = StoreRawNames
      BY <2>2, <2>3, <3>2 DEF StoreRawNames, TagStays
    <3>3. CASE Parse
      BY <2>2, <2>3, <3>3 DEF Parse, TagStays
    <3> QED  BY <1>4, <3>1, <3>2, <3>3 DEF Resume, Return, Refuse, Fail
  <2>5. Len(tags') = Len(tags)
    <3> DEFINE m == Len(tags)
               k == Len(tags')
    <3>1. m \in Nat /\ k \in Nat /\ 1..m = 1..k
      BY <2>2, <2>4
    <3> HIDE DEF m, k
    <3>2. k = m
      BY <3>1
    <3> QED  BY <3>2 DEF m, k
  <2>6. TagsStay
    BY <2>4, <2>5 DEF TagsStay
  <2> QED  BY <1>1, <1>2, <2>1, <2>6, AwayScoped DEF Away
<1> QED  BY <1>3, <1>4

(* The end call of an empty-element tag.                                   *)
LEMMA EmptyEndScoped ==
  ASSUME ContentInv, ScopeInv, EmptyEnd
  PROVE  ScopeInv'
<1>1. /\ error = "NONE" /\ work.at = "end" /\ UNCHANGED <<tags, cells, ns, bound, inherited>>
      /\ work' = [NoWork EXCEPT !.at = "withdraw", !.bindings = work.bindings]
  BY DEF EmptyEnd, At, setup, bindingVars
<1>2. work'.at = "withdraw" /\ work'.bindings = work.bindings
  BY <1>1 DEF NoWork
<1>3. ~Handling /\ TagsStay
  BY <1>1, SameHere DEF Handling, StoringAtts
<1> QED  BY <1>1, <1>2, <1>3, AwayScoped DEF Away

-----------------------------------------------------------------------------
(* Steps in a start tag that bind nothing.                                 *)
(* The attributes of a start tag have names with marks.                    *)
LEMMA TagNames ==
  ASSUME NEW tag \in StartTags
  PROVE  \A list \in {tag.atts, Defaults(tag.name)} :
           /\ IsSeq(list) /\ Len(list) \in Nat /\ DOMAIN list = 1 .. Len(list)
           /\ ToSet(list) = {list[i] : i \in 1 .. Len(list)}
           /\ \A i \in 1 .. Len(list) : list[i].name \in AttNames
           /\ \A a \in ToSet(list) : a.name \in AttNames
<1> TAKE list \in {tag.atts, Defaults(tag.name)}
<1>1. IsSeq(list)
  BY ContentAssumption DEF IsSeq
<1>2. Len(list) \in Nat /\ DOMAIN list = 1 .. Len(list)
  BY <1>1, AnySeq
<1>3. ToSet(list) = {list[i] : i \in 1 .. Len(list)}
  BY <1>1, SeqFacts DEF IsSeq
<1>4. \A i \in DOMAIN list : list[i].name \in AttNames
  BY DEF AttNames
<1> QED  BY <1>1, <1>2, <1>3, <1>4

(* The attribute looked at, and when it counts.                            *)
LookedAt(w) == IF w.at = "attributes" THEN w.tag.atts[w.i] ELSE Defaults(w.tag.name)[w.i]
Counts(w) == w.at = "attributes" \/ Defaulted(w.tag, LookedAt(w))
Forward(w, w2) == w2.at = w.at /\ w2.tag = w.tag /\ w2.i = w.i + 1
InList(w) ==
  /\ w.at \in {"attributes", "defaults"} /\ w.i \in Nat \ {0} /\ w.tag \in StartTags
  /\ w.at = "attributes" => w.i <= Len(w.tag.atts)
  /\ w.at = "defaults" => w.i <= Len(Defaults(w.tag.name))
LEMMA SeenNext ==
  ASSUME NEW w, NEW w2, InList(w), Forward(w, w2)
  PROVE  Seen(w2) = Seen(w) \cup (IF Counts(w) THEN {LookedAt(w)} ELSE {})
<1> DEFINE i == w.i
<1>1. i \in Nat \ {0} /\ w2.i - 1 = i /\ 1..i = (1 .. i - 1) \cup {i} /\ i \in 1..i
  BY DEF InList, Forward
<1> HIDE DEF i
<1>2. CASE w.at = "attributes"
  <2>1. Seen(w) = {w.tag.atts[j] : j \in 1 .. i - 1} /\ Seen(w2) = {w.tag.atts[j] : j \in 1..i}
    BY <1>1, <1>2 DEF Seen, SeenIn, Forward, i
  <2>2. LookedAt(w) = w.tag.atts[i] /\ Counts(w)
    BY <1>2 DEF LookedAt, Counts, i
  <2> QED  BY <1>1, <2>1, <2>2
<1>3. CASE w.at = "defaults"
  <2> DEFINE D(j) == Defaulted(w.tag, Defaults(w.tag.name)[j])
             list == Defaults(w.tag.name)
  <2>1. /\ Seen(w) = ToSet(w.tag.atts) \cup {list[j] : j \in {l \in 1 .. i - 1 : D(l)}}
        /\ Seen(w2) = ToSet(w.tag.atts) \cup {list[j] : j \in {l \in 1..i : D(l)}}
    BY <1>1, <1>3 DEF Seen, SeenDefaults, Forward, i
  <2>2. LookedAt(w) = list[i] /\ (Counts(w) <=> D(i))
    BY <1>3 DEF LookedAt, Counts, i
  <2> HIDE DEF D, list
  <2>3. {l \in 1..i : D(l)} = {l \in 1 .. i - 1 : D(l)} \cup (IF D(i) THEN {i} ELSE {})
    BY <1>1
  <2> QED  BY <2>1, <2>2, <2>3
<1> QED  BY <1>2, <1>3 DEF InList

(* What is looked at has a name of an attribute.                           *)
LEMMA LookedFacts ==
  ASSUME NEW w, InList(w)
  PROVE  LookedAt(w).name \in AttNames
<1>1. CASE w.at = "attributes"
  BY <1>1, TagNames DEF InList, LookedAt
<1>2. CASE w.at = "defaults"
  BY <1>2, TagNames DEF InList, LookedAt
<1> QED  BY <1>1, <1>2 DEF InList

(* Marks that go on.                                                       *)
MarksOn(w, w2, marks, marks2) ==
  /\ \A x \in AttNames : marks[x] # 0 => marks2[x] # 0
  /\ \A x \in AttNames : marks2[x] # 0 => marks[x] # 0 \/ (x = LookedAt(w).name /\ LookedAt(w) \in Seen(w2))
  /\ w.at = "attributes" => marks2[LookedAt(w).name] # 0
LEMMA NotedNext ==
  ASSUME NEW w, NEW w2, NEW marks, NEW marks2, InList(w), Forward(w, w2), Noted(w, marks), MarksOn(w, w2, marks, marks2)
  PROVE  Noted(w2, marks2)
<1> DEFINE S == Seen(w)
           S2 == Seen(w2)
           a1 == LookedAt(w)
<1>1. S \subseteq S2 /\ S2 \subseteq S \cup {a1}
  BY SeenNext
<1>2. \A name \in AttNames : marks2[name] # 0 => \E a \in S2 : a.name = name
  <2>1. \A name \in AttNames : marks[name] # 0 => \E a \in S : a.name = name
    BY DEF InList, Noted
  <2> HIDE DEF S, a1
  <2> SUFFICES ASSUME NEW name \in AttNames, marks2[name] # 0 PROVE \E a \in S2 : a.name = name
    OBVIOUS
  <2>2. marks[name] # 0 \/ (name = a1.name /\ a1 \in S2)
    BY DEF MarksOn, a1
  <2> HIDE DEF S2
  <2> QED  BY <1>1, <2>1, <2>2
<1>3. CASE w.at = "attributes"
  <2>1. w2.at = "attributes" /\ w2.i <= Len(w2.tag.atts) + 1
    BY <1>3, TagNames DEF InList, Forward
  <2>2. S = SeenIn(w.tag, w.i) /\ S2 = SeenIn(w2.tag, w2.i)
    BY <1>3, <2>1 DEF Seen
  <2>3. \A a \in S : a.name \in AttNames /\ marks[a.name] # 0
    <3>1. Len(w.tag.atts) \in Nat /\ \A i \in 1 .. Len(w.tag.atts) : w.tag.atts[i].name \in AttNames
      BY TagNames DEF InList
    <3>2. \A a \in S : marks[a.name] # 0
      BY <1>3, <2>2 DEF Noted
    <3> DEFINE n == Len(w.tag.atts)
               i == w.i
    <3>3. n \in Nat /\ i \in Nat /\ i <= n
      BY <1>3, <3>1 DEF InList
    <3> HIDE DEF n, i
    <3>4. \A j \in 1 .. i - 1 : j \in 1..n
      BY <3>3
    <3>5. S = {w.tag.atts[j] : j \in 1 .. i - 1}
      BY <2>2 DEF SeenIn, i
    <3>6. \A a \in S : a.name \in AttNames
      BY <3>1, <3>4, <3>5 DEF n
    <3> QED  BY <3>2, <3>6
  <2>4. a1.name \in AttNames
    BY LookedFacts
  <2>5. \A a \in S2 : marks2[a.name] # 0
    <3>1. (\A x \in AttNames : marks[x] # 0 => marks2[x] # 0) /\ marks2[a1.name] # 0
      BY <1>3 DEF MarksOn
    <3> HIDE DEF S, S2, a1
    <3> QED  BY <1>1, <2>3, <3>1
  <2> HIDE DEF a1
  <2> QED  BY <1>2, <2>1, <2>2, <2>5 DEF Noted
<1>4. CASE w.at = "defaults"
  <2>1. w2.at = "defaults" /\ w2.tag = w.tag /\ w2.i <= Len(Defaults(w2.tag.name)) + 1
    BY <1>4, TagNames DEF InList, Forward
  <2>2. \A a \in ToSet(w.tag.atts) : a.name \in AttNames /\ marks[a.name] # 0
    BY <1>4, TagNames DEF InList, Noted
  <2>3. \A a \in ToSet(w2.tag.atts) : marks2[a.name] # 0
    BY <2>1, <2>2 DEF MarksOn
  <2> QED  BY <1>2, <2>1, <2>3 DEF Noted
<1> QED  BY <1>3, <1>4 DEF InList

(* More attributes that declare nothing.                                   *)
LEMMA StandsMore ==
  ASSUME NEW n, NEW list, NEW all, NEW atts, NEW a, Stands(n, list, all, atts), ~(n /\ Says(a.name))
  PROVE  Stands(n, list, all, atts \cup {a})
  BY DEF Stands

(* A default counts when its mark is off and it has a value.               *)
LEMMA CountsWhen ==
  ASSUME NEW w, NEW marks, InList(w), w.at = "defaults", Noted(w, marks)
  PROVE  Counts(w) <=> marks[LookedAt(w).name] = 0 /\ LookedAt(w).value # Null
<1> DEFINE list == Defaults(w.tag.name)
           i == w.i
           d == list[i]
           tag == w.tag
<1>1. LookedAt(w) = d /\ (Counts(w) <=> Defaulted(tag, d)) /\ i \in Nat \ {0} /\ i <= Len(list) /\ tag \in StartTags
  BY DEF LookedAt, Counts, InList
<1>2. /\ ToSet(tag.atts) = {tag.atts[j] : j \in 1 .. Len(tag.atts)} /\ DOMAIN tag.atts = 1 .. Len(tag.atts)
      /\ DOMAIN list = 1 .. Len(list) /\ Len(list) \in Nat /\ d.name \in AttNames
  <2>1. i \in 1 .. Len(list)
    BY <1>1, TagNames
  <2> QED  BY <1>1, <2>1, TagNames
<1>3. \A j, k \in DOMAIN list : list[j].name = list[k].name => j = k
  BY <1>1, ContentAssumption
<1>4. \A a \in ToSet(tag.atts) : marks[a.name] # 0
  BY DEF Noted
<1>5. \A name \in AttNames : marks[name] # 0 => \E a \in ToSet(tag.atts) \cup SeenDefaults(tag, i) : a.name = name
  BY DEF Noted, Seen
<1>6. \A a \in SeenDefaults(tag, i) : a.name # d.name
  <2> SUFFICES ASSUME NEW j \in 1 .. i - 1, list[j].name = d.name PROVE FALSE
    BY DEF SeenDefaults
  <2>1. j \in 1 .. Len(list) /\ i \in 1 .. Len(list) /\ j # i
    BY <1>1, <1>2
  <2> QED  BY <1>2, <1>3, <2>1
<1> HIDE DEF list, i, tag, d
<1>7. ASSUME marks[d.name] = 0, d.value # Null PROVE Defaulted(tag, d)
  BY <1>2, <1>4, <1>7 DEF Defaulted
<1>8. ASSUME Defaulted(tag, d) PROVE marks[d.name] = 0 /\ d.value # Null
  BY <1>2, <1>5, <1>6, <1>8 DEF Defaulted
<1> QED  BY <1>1, <1>7, <1>8

(* A mark that is put on.                                                  *)
LEMMA MarkedOn ==
  ASSUME flags \in [AttNames -> 0..2], NEW name \in AttNames
  PROVE  /\ Marked(name)[name] # 0
         /\ \A x \in AttNames : x # name => Marked(name)[x] = flags[x]
  BY DEF Marked

(* An attribute that declares nothing is listed.                           *)
LEMMA ListedScoped ==
  ASSUME ContentInv, ScopeInv, error = "NONE", InList(work), NEW att, att = LookedAt(work), ~Declares(att.name),
         flags[att.name] = 0, work.at = "defaults" => att.value # Null, Listed(att, Marked(att.name))
  PROVE  ScopeInv'
<1>1. DOMAIN work = WorkFields /\ flags \in [AttNames -> 0..2]
  BY DEF ContentInv, Typed, TypedWork, TypedAtts
<1>2. /\ work'.at = work.at /\ work'.tag = work.tag /\ work'.i = work.i + 1 /\ work'.empty = work.empty
      /\ work'.bindings = work.bindings
  BY <1>1 DEF Listed, WorkFields
<1>3. UNCHANGED <<tags, cells, ns, bound, inherited>> /\ flags' = Marked(att.name)
  BY DEF Listed, setup, bindingVars
<1>4. Forward(work, work')
  BY <1>2 DEF Forward
<1>5. Noted(work, flags) /\ WorkSaid /\ Saying
  BY DEF ScopeInv, Declarations, InList, Saying, StoringAtts
<1>6. Counts(work)
  <2>1. work.at = "attributes" => Counts(work)
    BY DEF Counts
  <2> QED  BY <1>5, <2>1, CountsWhen DEF InList
<1>7. Seen(work') = Seen(work) \cup {att}
  BY <1>4, <1>6, SeenNext
<1>8. att.name \in AttNames
  BY LookedFacts
<1>9. MarksOn(work, work', flags, flags')
  <2>1. att \in Seen(work')
    BY <1>7
  <2>2. flags'[att.name] # 0 /\ \A x \in AttNames : x # att.name => flags'[x] = flags[x]
    BY <1>1, <1>3, <1>8, MarkedOn
  <2> HIDE DEF Seen
  <2> QED  BY <2>1, <2>2 DEF MarksOn
<1>10. Noted(work', flags')
  BY <1>4, <1>5, <1>9, NotedNext
<1>11. Stands(ns, work.bindings, cells, Seen(work'))
  <2>1. ~(ns /\ Says(att.name))
    BY DEF Declares, Says
  <2> HIDE DEF Seen
  <2>2. Stands(ns, work.bindings, cells, Seen(work))
    BY <1>5 DEF WorkSaid
  <2> QED  BY <1>7, <2>1, <2>2, StandsMore
<1>12. (Handling' <=> Handling)
  BY <1>2 DEF Handling, StoringAtts
<1>13. TagsStay /\ SameCells(cells, cells')
  BY <1>3, SameHere
<1> QED  BY <1>2, <1>3, <1>10, <1>11, <1>12, <1>13, StillSaid

(* A default is passed over.                                               *)
LEMMA SkipScoped ==
  ASSUME ContentInv, ScopeInv, error = "NONE", InList(work), work.at = "defaults", UNCHANGED <<nsAtts, idIndex>>,
         flags[LookedAt(work).name] # 0 \/ LookedAt(work).value = Null, Skip
  PROVE  ScopeInv'
<1>1. DOMAIN work = WorkFields
  BY DEF ContentInv, Typed, TypedWork
<1>2. /\ work'.at = work.at /\ work'.tag = work.tag /\ work'.i = work.i + 1 /\ work'.empty = work.empty
      /\ work'.bindings = work.bindings
  BY <1>1 DEF Skip, WorkFields
<1>3. UNCHANGED <<tags, cells, ns, bound, inherited, flags>>
  BY DEF Skip, setup, bindingVars
<1>4. Forward(work, work')
  BY <1>2 DEF Forward
<1>5. Noted(work, flags) /\ WorkSaid /\ Saying
  BY DEF ScopeInv, Declarations, InList, Saying, StoringAtts
<1>6. ~Counts(work)
  BY <1>5, CountsWhen
<1>7. Seen(work') = Seen(work)
  BY <1>4, <1>6, SeenNext
<1>8. MarksOn(work, work', flags, flags')
  BY <1>3 DEF MarksOn
<1>9. Noted(work', flags')
  BY <1>4, <1>5, <1>8, NotedNext
<1>10. Stands(ns, work.bindings, cells, Seen(work'))
  BY <1>5, <1>7 DEF WorkSaid
<1>11. (Handling' <=> Handling)
  BY <1>2 DEF Handling, StoringAtts
<1>12. TagsStay /\ SameCells(cells, cells')
  BY <1>3, SameHere
<1> QED  BY <1>2, <1>3, <1>9, <1>10, <1>11, <1>12, StillSaid

(* All attributes, then all defaults have been looked at.                  *)
LEMMA DoneScoped ==
  ASSUME ContentInv, ScopeInv, AttributesDone \/ DefaultsDone
  PROVE  ScopeInv'
<1>1. DOMAIN work = WorkFields /\ error = "NONE" /\ Noted(work, flags) /\ WorkSaid
  BY DEF ContentInv, Typed, TypedWork, AttributesDone, DefaultsDone, At, ScopeInv, Declarations
<1>2. UNCHANGED <<tags, cells, ns, bound, inherited, flags>>
  BY DEF AttributesDone, DefaultsDone, setup, bindingVars
<1>3. /\ work'.tag = work.tag /\ work'.i = 1 /\ work'.empty = work.empty /\ work'.bindings = work.bindings
      /\ \/ work.at = "attributes" /\ work'.at = "defaults" /\ work.i > Len(work.tag.atts)
         \/ work.at = "defaults" /\ work'.at \in {"expand", "element"} /\ work.i > Len(Defaults(work.tag.name))
  BY <1>1 DEF AttributesDone, DefaultsDone, At, WorkFields
<1>4. StoringAtts /\ Saying /\ (Handling' <=> Handling)
  BY <1>3 DEF Handling, StoringAtts, Saying
<1>5. work.tag \in StartTags /\ work.i \in Nat \ {0}
  BY <1>4 DEF ContentInv, Typed, TypedWork
<1> DEFINE tag == work.tag
           list == Defaults(tag.name)
<1>6. /\ Len(tag.atts) \in Nat /\ ToSet(tag.atts) = {tag.atts[i] : i \in 1 .. Len(tag.atts)}
      /\ Len(list) \in Nat /\ ToSet(list) = {list[i] : i \in 1 .. Len(list)}
  BY <1>5, TagNames
<1>7. CASE work.at = "attributes"
  <2>1. work.i - 1 = Len(tag.atts)
    BY <1>1, <1>3, <1>5, <1>6, <1>7 DEF Noted
  <2>2. Seen(work) = ToSet(tag.atts)
    BY <1>6, <1>7, <2>1 DEF Seen, SeenIn
  <2>3. Seen(work') = ToSet(tag.atts) \cup SeenDefaults(tag, 1)
    BY <1>3, <1>7 DEF Seen
  <2>4. SeenDefaults(tag, 1) = {}
    BY DEF SeenDefaults
  <2>5. Seen(work') = Seen(work)
    BY <2>2, <2>3, <2>4
  <2>6. \A a \in ToSet(tag.atts) : flags[a.name] # 0
    BY <1>1, <1>7, <2>2 DEF Noted, Seen
  <2>7. \A name \in AttNames : flags[name] # 0 => \E a \in Seen(work) : a.name = name
    BY <1>1, <1>7 DEF Noted
  <2> HIDE DEF Seen
  <2>8. Noted(work', flags')
    BY <1>2, <1>3, <1>6, <1>7, <2>5, <2>6, <2>7 DEF Noted
  <2>9. Stands(ns, work.bindings, cells, Seen(work'))
    BY <1>1, <1>4, <2>5 DEF WorkSaid
  <2>10. TagsStay /\ SameCells(cells, cells')
    BY <1>2, SameHere
  <2> QED  BY <1>1, <1>2, <1>3, <1>4, <2>8, <2>9, <2>10, StillSaid
<1>8. CASE work.at = "defaults"
  <2>1. work.i - 1 = Len(list)
    BY <1>1, <1>3, <1>5, <1>6, <1>8 DEF Noted
  <2>2. Seen(work) = ToSet(tag.atts) \cup SeenDefaults(tag, work.i) /\ Seen(work') = AttsOf(tag)
    BY <1>3, <1>8 DEF Seen
  <2>3. SeenDefaults(tag, work.i) = {d \in ToSet(list) : Defaulted(tag, d)}
    <3>1. SeenDefaults(tag, work.i) = {list[j] : j \in {l \in 1 .. Len(list) : Defaulted(tag, list[l])}}
      BY <2>1 DEF SeenDefaults
    <3> HIDE DEF list, tag
    <3> QED  BY <1>6, <3>1
  <2>4. Seen(work') = Seen(work)
    BY <2>2, <2>3 DEF AttsOf
  <2>5. Noted(work', flags')
    BY <1>3, <1>8 DEF Noted
  <2> HIDE DEF Seen
  <2>6. Stands(ns, work.bindings, cells, Seen(work'))
    BY <1>1, <1>4, <2>4 DEF WorkSaid
  <2>7. TagsStay /\ SameCells(cells, cells')
    BY <1>2, SameHere
  <2> QED  BY <1>1, <1>2, <1>3, <1>4, <2>5, <2>6, <2>7, StillSaid
<1> QED  BY <1>3, <1>7, <1>8

(* From one step to the next after the attributes are known.               *)
Later == {"expand", "element", "start", "end"}
LEMMA LaterScoped ==
  ASSUME ContentInv, ScopeInv, error = "NONE", work.at \in Later, work'.at \in Later, TagsStay,
         SameCells(cells, cells'), UNCHANGED <<ns, bound, inherited>>,
         work'.bindings = work.bindings, work'.tag = work.tag, work'.empty = work.empty, Handling' <=> Handling
  PROVE  ScopeInv'
<1>1. Seen(work') = Seen(work) /\ Noted(work', flags')
  BY DEF Later, Seen, Noted
<1>2. Saying
  BY DEF Later, Saying, StoringAtts
<1>3. Stands(ns, work.bindings, cells, Seen(work'))
  <2> HIDE DEF Seen
  <2> QED  BY <1>1, <1>2 DEF WorkSaid, ScopeInv, Declarations
<1> QED  BY <1>1, <1>3, StillSaid

(* An attribute name is expanded, or repeats one.                          *)
LEMMA ExpandScoped ==
  ASSUME ContentInv, ScopeInv, Expand
  PROVE  ScopeInv'
<1>1. work.at = "expand" /\ error = "NONE"
  BY DEF Expand, At
<1>2. PICK code, shown, left, at :
        \/ FailInTag(code) /\ code # "NONE"
        \/ /\ UNCHANGED <<tags, cells, ns, bound, inherited>> /\ at \in {"expand", "element"}
           /\ \/ work' = [work EXCEPT !.i = @ + 1]
              \/ work' = [work EXCEPT !.atts[work.i].name = shown, !.i = @ + 1, !.prefixed = left, !.at = at]
  <2> DEFINE name == work.atts[work.i].name
             b    == bound[name[1]]
             full == <<cells[b].uri, name[2]>>
             left == work.prefixed - 1
             shown == IF triplets THEN Append(full, cells[b].prefix) ELSE full
             at == IF left = 0 THEN "element" ELSE "expand"
             code == IF b = 0 THEN "UNBOUND_PREFIX" ELSE "DUPLICATE_ATTRIBUTE"
  <2>1. \/ FailInTag(code)
        \/ /\ UNCHANGED <<tags, cells, ns, bound, inherited>>
           /\ \/ work' = [work EXCEPT !.i = @ + 1]
              \/ work' = [work EXCEPT !.atts[work.i].name = shown, !.i = @ + 1, !.prefixed = left, !.at = at]
    BY DEF Expand, setup, bindingVars
  <2>2. at \in {"expand", "element"} /\ code # "NONE"
    OBVIOUS
  <2> HIDE DEF code, shown, left, at
  <2> QED  BY <2>1, <2>2
<1>3. CASE FailInTag(code) /\ code # "NONE"
  BY <1>3, NoMore DEF FailInTag
<1>4. CASE ~(FailInTag(code) /\ code # "NONE")
  <2>1. DOMAIN work = WorkFields
    BY DEF ContentInv, Typed, TypedWork
  <2>2. /\ work'.at \in {"expand", "element"} /\ work'.bindings = work.bindings /\ work'.empty = work.empty
        /\ work'.tag = work.tag
    BY <1>1, <1>2, <1>4, <2>1 DEF WorkFields
  <2>3. Handling' <=> Handling
    BY <1>1, <2>2 DEF Handling, StoringAtts
  <2>4. UNCHANGED <<ns, bound, inherited>> /\ TagsStay /\ SameCells(cells, cells')
    BY <1>2, <1>4, SameHere
  <2> QED  BY <1>1, <2>2, <2>3, <2>4, LaterScoped DEF Later
<1> QED  BY <1>3, <1>4

(* Another name in the buffer of a binding is no other binding.            *)
LEMMA RefilledSame ==
  ASSUME NEW all, NEW all2, NEW c, NEW gen, NEW tail, IsSeq(all), c \in 1 .. Len(all), Refilled(all, all2, c, gen, tail)
  PROVE  SameCells(all, all2)
<1>1. /\ Prefix(all2) = Prefix(all) /\ Prev(all2) = Prev(all)
      /\ \A x \in 1 .. Len(all) : all2[x].uri = all[x].uri /\ all2[x].att = all[x].att /\ all2[x].prefix = all[x].prefix
  BY RefillKeeps
<1>2. Len(all2) = Len(all)
  BY DEF Refilled
<1>3. Uri(all2) = Uri(all)
  BY <1>1, <1>2 DEF Uri
<1> QED  BY <1>1, <1>3 DEF SameCells, KeepsOn

(* A tag whose name is moved or expanded keeps its attributes.             *)
LEMMA PlacedAtts ==
  ASSUME TypedTags, NEW cell, NEW gen, NEW tail, NEW moved, NEW str, Placed(cell, gen, tail, moved, str),
         ~work.empty => tags # <<>>, NEW i \in 1 .. Len(tags)
  PROVE  tags'[i].atts = tags[i].atts
<1> DEFINE n == Len(tags)
           t == tags[i]
<1>1. IsSeq(tags) /\ n \in Nat /\ DOMAIN tags = 1..n /\ DOMAIN t = TagFields
  BY AnySeq DEF TypedTags, IsTag
<1>2. moved = tags \/ moved = Redirected(cell, cells[cell].gen, gen, tags)
  BY DEF Placed
<1>3. DOMAIN moved = 1..n /\ (moved[i] = t \/ moved[i] = [t EXCEPT !.str.gen = gen])
  BY <1>1, <1>2 DEF Redirected
<1> DEFINE u == moved[i]
<1> HIDE DEF t
<1>4. DOMAIN u = TagFields /\ u.atts = t.atts
  BY <1>1, <1>3 DEF TagFields
<1> DEFINE v == [moved[n] EXCEPT !.str = str, !.local = Last(tags).gen, !.prefix = cells[cell].prefix]
<1>5. tags' = moved \/ tags' = [moved EXCEPT ![n] = v]
  BY DEF Placed
<1>6. i = n => v.atts = u.atts
  <2>1. i = n => v = [u EXCEPT !.str = str, !.local = Last(tags).gen, !.prefix = cells[cell].prefix]
    OBVIOUS
  <2> HIDE DEF u, v
  <2> QED  BY <1>4, <2>1 DEF TagFields
<1>7. tags'[i] = u \/ (i = n /\ tags'[i] = v)
  <2> HIDE DEF v
  <2> QED  BY <1>3, <1>5
<1> HIDE DEF u, v
<1> QED  BY <1>4, <1>6, <1>7 DEF t

(* Storing the expanded name of an element moves strings, not bindings.    *)
LEMMA NamedStays ==
  ASSUME ContentInv, Named, bound[work.tag.name[1]] # 0, Expanded(bound[work.tag.name[1]])
  PROVE  TagsStay /\ SameCells(cells, cells')
<1> DEFINE p == work.tag.name[1]
           cell == bound[p]
           n == Len(tags)
<1>1. Typed /\ Control /\ error = "NONE" /\ work.at = "element" /\ ContentInv
  BY DEF ContentInv, Named
<1>2. p \in NsPrefixes
  <2>1. work.tag \in StartTags
    BY <1>1 DEF Typed, TypedWork, StoringAtts
  <2> QED  BY <2>1, ContentAssumption
<1>3. cell \in 1 .. Len(cells) /\ cells[cell].prefix = p
  BY <1>1, <1>2, BoundCell
<1>4. IsSeq(cells) /\ IsCell(cells[cell]) /\ n \in Nat /\ TypedTags
  BY <1>1, <1>3, AnySeq DEF Typed, TypedCells, TypedTags
<1>5. ~work.empty => tags # <<>>
  BY <1>1 DEF Control, Handling, StoringAtts
<1> HIDE DEF cell, p
<1>6. PICK gen, tail, moved, str : Placed(cell, gen, tail, moved, str)
  <2>1. Expanded(cell)
    BY DEF cell, p
  <2> QED  BY <1>1, <1>3, <1>5, <2>1, ExpandedPlaces
<1>7. TagsPlaced(cell, gen)
  BY <1>1, <1>3, <1>6, PlacedTags DEF p
<1>8. Refilled(cells, cells', cell, gen, tail)
  <2>1. gen \in Nat
    <3>1. cells[cell].gen \in Nat
      BY <1>4 DEF IsCell
    <3> QED  BY <1>6, <3>1 DEF Placed
  <2>2. PICK alloc : cells' = [cells EXCEPT ![cell] = [cells[cell] EXCEPT !.gen = gen, !.tail = tail, !.alloc = alloc]]
    BY <1>6 DEF Placed
  <2> QED  BY <1>3, <1>4, <2>1, <2>2, Refill
<1>9. SameCells(cells, cells')
  BY <1>3, <1>4, <1>8, RefilledSame
<1>10. Len(tags') = n
  BY <1>7 DEF TagsPlaced
<1>11. ASSUME NEW i \in 1..n PROVE TagStays(tags[i], tags'[i])
  <2>1. tags'[i].atts = tags[i].atts
    BY <1>4, <1>5, <1>6, PlacedAtts
  <2>2. CASE i = n /\ ~work.empty
    <3>1. TopNamed(tags[n], tags'[n], cell, gen, work.tag.name[1])
      BY <1>7, <2>2 DEF TagsPlaced
    <3> QED  BY <2>1, <2>2, <3>1 DEF TopNamed, TagStays
  <2>3. CASE ~(i = n /\ ~work.empty)
    <3>1. Follows(tags[i], tags'[i], cell, gen)
      BY <1>7, <2>3 DEF TagsPlaced
    <3> QED  BY <2>1, <3>1 DEF Follows, TagStays
  <2> QED  BY <2>2, <2>3
<1> QED  BY <1>9, <1>10, <1>11 DEF TagsStay

(* The name of an element is expanded.                                     *)
LEMMA NameScoped ==
  ASSUME ContentInv, ScopeInv, ElementName
  PROVE  ScopeInv'
<1> DEFINE prefix == work.tag.name[1]
<1>1. work.at = "element" /\ error = "NONE" /\ call = "running" /\ flags' = Cleared /\ nsAtts' = nsAtts /\ idIndex' = idIndex
  BY DEF ElementName, At
<1>2. DOMAIN work = WorkFields
  BY <1>1 DEF ContentInv, Typed, TypedWork
<1>3. CASE FailInTag("UNBOUND_PREFIX")
  BY <1>3, NoMore DEF FailInTag
<1>4. CASE bound[prefix] # 0 /\ Expanded(bound[prefix]) /\ NoHandler
           /\ UNCHANGED <<setup, processor, callVars, error, bound, freeBindings, inherited, freeTags, over>>
  <2>1. \E str : work' = [work EXCEPT !.at = "start", !.str = str]
    BY <1>4 DEF Expanded
  <2>2. /\ DOMAIN work' = WorkFields /\ work'.at = "start" /\ work'.tag = work.tag /\ work'.empty = work.empty
        /\ work'.bindings = work.bindings /\ work'.atts = work.atts /\ work'.i = work.i
    BY <1>2, <2>1 DEF WorkFields
  <2>3. Named
    BY <1>1, <1>4, <2>2 DEF Named, NoHandler, setup, callVars
  <2>4. TagsStay /\ SameCells(cells, cells')
    BY <1>4, <2>3, NamedStays
  <2>5. UNCHANGED <<ns, bound, inherited>>
    BY <1>4 DEF setup
  <2>6. Handling' <=> Handling
    BY <1>1, <2>2 DEF Handling, StoringAtts
  <2> QED  BY <1>1, <2>2, <2>4, <2>5, <2>6, LaterScoped DEF Later
<1>5. CASE /\ work' = [work EXCEPT !.at = "start", !.str = OwnName] /\ NoHandler
           /\ UNCHANGED <<setup, processor, callVars, error, bindingVars, tags, freeTags, over>>
  <2>1. work'.at = "start" /\ work'.empty = work.empty /\ work'.bindings = work.bindings /\ work'.tag = work.tag
    BY <1>2, <1>5 DEF WorkFields
  <2>2. UNCHANGED <<tags, cells, ns, bound, inherited>> /\ TagsStay /\ SameCells(cells, cells')
    BY <1>5, SameHere DEF setup, bindingVars
  <2>3. Handling' <=> Handling
    BY <1>1, <2>1 DEF Handling, StoringAtts
  <2> QED  BY <1>1, <2>1, <2>2, <2>3, LaterScoped DEF Later
<1> QED  BY <1>3, <1>4, <1>5 DEF ElementName

(* The start call of an empty-element tag.                                 *)
LEMMA StartEmptyScoped ==
  ASSUME ContentInv, ScopeInv, StartCall, work.empty
  PROVE  ScopeInv'
<1>1. /\ error = "NONE" /\ work.at = "start" /\ UNCHANGED <<tags, cells, ns, bound, inherited>>
      /\ work' = [work EXCEPT !.at = "end"]
  BY DEF StartCall, At, setup, bindingVars
<1>2. DOMAIN work = WorkFields
  BY DEF ContentInv, Typed, TypedWork
<1>3. work'.at = "end" /\ work'.empty = work.empty /\ work'.bindings = work.bindings /\ work'.tag = work.tag
  BY <1>1, <1>2 DEF WorkFields
<1>4. ~Handling /\ ~Handling' /\ TagsStay /\ SameCells(cells, cells')
  BY <1>1, <1>3, SameHere DEF Handling
<1> QED  BY <1>1, <1>3, <1>4, LaterScoped DEF Later

-----------------------------------------------------------------------------
(* Steps that change the stack or the bindings.                            *)
(* A start tag says nothing yet.                                           *)
LEMMA BegunSaid ==
  ASSUME NEW n, NEW w, NEW tag \in StartTags, NEW empty, Begun(w, tag, empty), NEW all, NEW marks,
         \A name \in AttNames : marks[name] = 0
  PROVE  Stands(n, <<>>, all, Seen(w)) /\ Noted(w, marks)
<1>1. w.at = "attributes" /\ w.i = 1 /\ w.tag = tag /\ Len(tag.atts) \in Nat
  BY TagNames DEF Begun
<1>2. SeenIn(tag, 1) = {}
  BY DEF SeenIn
<1>3. Seen(w) = {}
  BY <1>1, <1>2 DEF Seen
<1>4. ToSet(<<>>) = {}
  BY NoneSet
<1>5. Stands(n, <<>>, all, Seen(w))
  BY <1>3, <1>4 DEF Stands
<1>6. Noted(w, marks)
  BY <1>1, <1>2 DEF Noted
<1> QED  BY <1>5, <1>6

(* A start tag is read.                                                    *)
LEMMA StartTagScoped ==
  ASSUME ContentInv, ScopeInv, NEW tag \in StartTags, NEW empty \in BOOLEAN, StartTag(tag, empty)
  PROVE  ScopeInv'
<1> DEFINE n == Len(tags)
<1>1. /\ error = "NONE" /\ work.at = "token" /\ n \in Nat /\ ~Handling /\ work.bindings = <<>>
      /\ UNCHANGED <<ns, error, bound, cells, inherited, flags>>
      /\ \A name \in AttNames : flags[name] = 0
  BY StartTagged
<1>2. Begun(work', tag, empty)
  <2>1. work' = [NoWork EXCEPT !.at = "attributes", !.tag = tag, !.empty = empty, !.str = InTag(0)]
    BY DEF StartTag
  <2> QED  BY <2>1, WorkBegun
<1>3. work'.at = "attributes" /\ work'.tag = tag /\ work'.empty = empty /\ work'.bindings = <<>>
  BY <1>2 DEF Begun
<1>4. Stands(ns, <<>>, cells, Seen(work')) /\ Noted(work', flags')
  <2>1. \A name \in AttNames : flags'[name] = 0
    BY <1>1
  <2> QED  BY <1>2, <2>1, BegunSaid
<1>5. WorkSaid' /\ Noted(work, flags)'
  <2> HIDE DEF Seen, Stands, Noted
  <2> QED  BY <1>1, <1>3, <1>4 DEF WorkSaid
<1>6. IsSeq(tags) /\ Scopes /\ OpenSaid
  BY <1>1 DEF ContentInv, Typed, TypedTags, ScopeInv, Declarations
<1>7. CASE empty
  <2>1. tags' = tags
    BY <1>7 DEF StartTag
  <2>2. Held' = Held /\ Depth' = Depth
    BY <1>1, <1>3, <2>1, HeldSame
  <2>3. Scopes'
    <3> HIDE DEF Held, Depth, Prefix, Prev, Uri, Scoped
    <3> QED  BY <1>1, <1>6, <2>2 DEF Scopes
  <2>4. ~Handling'
    BY <1>3, <1>7 DEF Handling
  <2>5. \A i \in 1 .. Len(tags') : Closed(i)' => Remains(i)
    BY <1>1, <2>1 DEF Remains, Closed, TagStays, KeepsOn
  <2>6. OpenSaid'
    BY <1>1, <1>6, <2>5, OpenStays
  <2> QED  BY <1>5, <2>3, <2>4, <2>6 DEF ScopeInv, Declarations, SameAtts
<1>8. CASE ~empty
  <2>1. PICK size : tags' = Append(tags, NewTag(tag, size))
    BY <1>8 DEF StartTag
  <2> DEFINE t == NewTag(tag, size)
  <2>2. t.bindings = <<>> /\ t.atts = tag.atts
    BY TagNew DEF NewTag
  <2> HIDE DEF t
  <2>3. Len(tags') = n + 1 /\ tags'[n + 1] = t /\ \A i \in 1..n : tags'[i] = tags[i]
    BY <1>6, <2>1, AnyAppend DEF t
  <2>4. Raised(Held, Depth, Held') /\ Depth' = Depth + 1
    BY <1>1, <1>3, <1>6, <2>1, <2>2, HeldRaised DEF t
  <2>5. Scopes'
    <3>1. Depth \in Nat
      BY <1>1 DEF Depth
    <3> HIDE DEF Held, Depth, Prefix, Prev, Uri, Scoped
    <3>2. Scoped(Held, Depth, Prefix(cells), Prev(cells), Uri(cells), bound)
      BY <1>1, <1>6 DEF Scopes
    <3>3. Scoped(Held', Depth + 1, Prefix(cells), Prev(cells), Uri(cells), bound)
      BY <2>4, <3>1, <3>2, RaiseScoped
    <3> QED  BY <1>1, <2>4, <3>3 DEF Scopes
  <2>6. \A i \in 1 .. Len(tags') : Closed(i)' => Remains(i)
    <3> SUFFICES ASSUME NEW i \in 1 .. Len(tags'), Closed(i)' PROVE Remains(i)
      OBVIOUS
    <3>1. Handling'
      BY <1>3, <1>8 DEF Handling, StoringAtts
    <3>2. i \in 1..n /\ tags'[i] = tags[i]
      BY <1>1, <2>3, <3>1 DEF Closed
    <3> QED  BY <1>1, <3>2 DEF Remains, Closed, TagStays, KeepsOn
  <2>7. OpenSaid'
    BY <1>1, <1>6, <2>6, OpenStays
  <2>8. SameAtts'
    BY <1>3, <2>2, <2>3 DEF SameAtts
  <2> QED  BY <1>5, <2>5, <2>7, <2>8 DEF ScopeInv, Declarations
<1> QED  BY <1>7, <1>8

(* A declaration.                                                          *)
(* Names that declare the same prefix are the same.                        *)
IsName(x) == x = <<x[1], x[2]>> /\ (x[1] = "xmlns" => x[2] # "")
LEMMA OneName ==
  ASSUME NEW x, NEW y, IsName(x), IsName(y), Says(x), Says(y), DeclaredPrefix(x) = DeclaredPrefix(y)
  PROVE  x = y
<1>1. ASSUME NEW z, IsName(z), Says(z)
      PROVE  /\ DeclaredPrefix(z) = "" => z = <<"", "xmlns">>
             /\ DeclaredPrefix(z) # "" => z = <<"xmlns", DeclaredPrefix(z)>>
  <2>1. CASE z[1] = "xmlns"
    BY <1>1, <2>1 DEF IsName, DeclaredPrefix
  <2>2. CASE z[1] # "xmlns"
    BY <1>1, <2>2 DEF Says, DeclaredPrefix
  <2> QED  BY <2>1, <2>2
<1>2. /\ DeclaredPrefix(x) = "" => x = <<"", "xmlns">>
      /\ DeclaredPrefix(x) # "" => x = <<"xmlns", DeclaredPrefix(x)>>
  BY <1>1
<1>3. /\ DeclaredPrefix(y) = "" => y = <<"", "xmlns">>
      /\ DeclaredPrefix(y) # "" => y = <<"xmlns", DeclaredPrefix(y)>>
  BY <1>1
<1> HIDE DEF DeclaredPrefix
<1> QED  BY <1>2, <1>3

(* All attributes of a tag have such names.                                *)
LEMMA TagIsNamed ==
  ASSUME NEW tag \in StartTags
  PROVE  /\ \A i \in 1 .. Len(tag.atts) : IsName(tag.atts[i].name)
         /\ \A i \in 1 .. Len(Defaults(tag.name)) : IsName(Defaults(tag.name)[i].name)
         /\ \A a \in AttsOf(tag) : IsName(a.name)
<1>1. \A list \in {tag.atts, Defaults(tag.name)} :
        DOMAIN list = 1 .. Len(list) /\ ToSet(list) = {list[i] : i \in 1 .. Len(list)}
  BY TagNames
<1>2. \A list \in {tag.atts, Defaults(tag.name)} : \A i \in 1 .. Len(list) : IsName(list[i].name)
  BY <1>1, NamesAssumption DEF IsName
<1>3. \A list \in {tag.atts, Defaults(tag.name)} : \A a \in ToSet(list) : IsName(a.name)
  BY <1>1, <1>2
<1>4. \A a \in AttsOf(tag) : a \in ToSet(tag.atts) \/ a \in ToSet(Defaults(tag.name))
  BY DEF AttsOf
<1> HIDE DEF IsName
<1> QED  BY <1>2, <1>3, <1>4

(* What has been looked at has other names than an attribute without mark. *)
LEMMA SeenOthers ==
  ASSUME NEW w, NEW marks, InList(w), Noted(w, marks), marks[LookedAt(w).name] = 0
  PROVE  /\ IsName(LookedAt(w).name)
         /\ \A a \in Seen(w) : IsName(a.name) /\ a.name # LookedAt(w).name
<1> DEFINE tag == w.tag
           list == Defaults(tag.name)
           i == w.i
           name == LookedAt(w).name
<1>1. /\ tag \in StartTags /\ i \in Nat \ {0} /\ Len(tag.atts) \in Nat /\ Len(list) \in Nat
      /\ ToSet(tag.atts) = {tag.atts[j] : j \in 1 .. Len(tag.atts)} /\ DOMAIN list = 1 .. Len(list)
  BY TagNames DEF InList
<1>2. /\ \A j \in 1 .. Len(tag.atts) : IsName(tag.atts[j].name)
      /\ \A j \in 1 .. Len(list) : IsName(list[j].name)
  BY <1>1, TagIsNamed
<1> DEFINE n == Len(tag.atts)
           m == Len(list)
<1>3. /\ w.at = "attributes" => i <= n
      /\ w.at = "defaults" => i <= m
  BY DEF InList
<1>4. \A k \in Nat : i <= k => i \in 1..k /\ \A j \in 1 .. i - 1 : j \in 1..k /\ j # i
  BY <1>1
<1>5. CASE w.at = "attributes"
  <2>1. Seen(w) = {tag.atts[j] : j \in 1 .. i - 1} /\ name = tag.atts[i].name
    BY <1>5 DEF Seen, SeenIn, LookedAt
  <2>2. \A a \in Seen(w) : marks[a.name] # 0
    BY <1>5 DEF Noted, Seen
  <2>3. \A j \in 1 .. i - 1 : j \in 1..n
    BY <1>1, <1>3, <1>4, <1>5
  <2>4. i \in 1..n
    BY <1>1, <1>3, <1>4, <1>5
  <2>5. marks[name] = 0
    OBVIOUS
  <2> HIDE DEF IsName, i, name, Seen
  <2>6. \A a \in Seen(w) : IsName(a.name)
    BY <1>2, <2>1, <2>3
  <2>7. \A a \in Seen(w) : a.name # name
    BY <2>2, <2>5
  <2> QED  BY <1>2, <2>1, <2>4, <2>6, <2>7 DEF name
<1>6. CASE w.at = "defaults"
  <2>1. name = list[i].name /\ Seen(w) = ToSet(tag.atts) \cup SeenDefaults(tag, i)
    BY <1>6 DEF Seen, LookedAt
  <2>2. \A a \in ToSet(tag.atts) : marks[a.name] # 0
    BY <1>6 DEF Noted
  <2>3. \A j, k \in 1..m : list[j].name = list[k].name => j = k
    BY <1>1, ContentAssumption
  <2>4. \A a \in SeenDefaults(tag, i) : \E j \in 1 .. i - 1 : a = list[j]
    BY DEF SeenDefaults
  <2>5. \A j \in 1 .. i - 1 : j \in 1..m /\ j # i
    BY <1>1, <1>3, <1>4, <1>6
  <2>6. i \in 1..m
    BY <1>1, <1>3, <1>4, <1>6
  <2>7. marks[name] = 0
    OBVIOUS
  <2> HIDE DEF IsName, i, name, Seen, list, m
  <2>8. \A a \in SeenDefaults(tag, i) : IsName(a.name) /\ a.name # name
    BY <1>2, <2>1, <2>3, <2>4, <2>5, <2>6 DEF m
  <2>9. \A a \in ToSet(tag.atts) : IsName(a.name) /\ a.name # name
    BY <1>1, <1>2, <2>2, <2>7
  <2> QED  BY <1>2, <2>1, <2>6, <2>8, <2>9 DEF m, name
<1> QED  BY <1>5, <1>6 DEF InList

(* The prefix that an attribute declares has no binding of the tag yet.    *)
LEMMA FreshPrefix ==
  ASSUME ContentInv, ScopeInv, error = "NONE", InList(work), Says(LookedAt(work).name), flags[LookedAt(work).name] = 0
  PROVE  \A d \in ToSet(work.bindings) : cells[d].prefix # DeclaredPrefix(LookedAt(work).name)
<1> DEFINE name == LookedAt(work).name
<1>1. Noted(work, flags) /\ WorkSaid /\ Saying
  BY DEF ScopeInv, Declarations, InList, Saying, StoringAtts
<1>2. IsName(name) /\ \A a \in Seen(work) : IsName(a.name) /\ a.name # name
  BY <1>1, SeenOthers
<1>3. Stands(ns, work.bindings, cells, Seen(work))
  BY <1>1 DEF WorkSaid
<1>4. Says(name)
  OBVIOUS
<1> HIDE DEF name, Seen
<1> SUFFICES ASSUME NEW d \in ToSet(work.bindings), cells[d].prefix = DeclaredPrefix(name) PROVE FALSE
  BY DEF name
<1>5. PICK a \in Seen(work) : Says(a.name) /\ cells[d].prefix = DeclaredPrefix(a.name)
  BY <1>3 DEF Stands, StandsFor
<1> QED  BY <1>2, <1>4, <1>5, OneName

(* One more declaration, one more binding.                                 *)
LEMMA StandsAdded ==
  ASSUME NEW n, NEW list, NEW all, NEW atts, NEW list2, NEW all2, NEW att, NEW c,
         Stands(n, list, all, atts), KeepsOn(ToSet(list), all, all2), ToSet(list2) = {c} \cup ToSet(list),
         n, Says(att.name), StandsFor(all2[c], att)
  PROVE  Stands(n, list2, all2, atts \cup {att})
<1>1. Stands(n, list, all2, atts)
  BY StandsKept
<1> HIDE DEF StandsFor
<1>2. \A d \in ToSet(list2) : \E a \in atts \cup {att} : n /\ Says(a.name) /\ StandsFor(all2[d], a)
  BY <1>1 DEF Stands
<1>3. \A a \in atts \cup {att} : n /\ Says(a.name) => \E d \in ToSet(list2) : StandsFor(all2[d], a)
  BY <1>1 DEF Stands
<1> QED  BY <1>2, <1>3 DEF Stands

(* What a declaration does to the lists.                                   *)
Grown(c, att) ==
  /\ Scoped(Held', Depth', Prefix(cells'), Prev(cells'), Uri(cells'), bound')
  /\ ToSet(work'.bindings) = {c} \cup ToSet(work.bindings)
  /\ StandsFor(cells'[c], att)
  /\ KeepsOn(ToSet(work.bindings), cells, cells')
  /\ \A i \in 1 .. Len(tags) : KeepsOn(ToSet(tags[i].bindings), cells, cells')
LEMMA BindGrows ==
  ASSUME ContentInv, ScopeInv, error = "NONE", NEW att, NEW p \in NsPrefixes, p = DeclaredPrefix(att.name),
         UNCHANGED <<tags, inherited>>, Bound4' = AddBinding(Bound4, p, att.name, att.value),
         \A d \in ToSet(work.bindings) : cells[d].prefix # p
  PROVE  Grown(Taken(Bound4), att)
<1> DEFINE name == att.name
           uri == att.value
           b == Bound4
           b2 == AddBinding(Bound4, p, name, uri)
           c == Taken(Bound4)
           n == Len(tags)
<1>1. Linked(b, Held, Depth) /\ Held[Depth] = work.bindings /\ n \in Nat /\ Depth \in Nat
  BY NowLinked
<1>2. /\ b.cells = cells /\ b.list = work.bindings /\ b.bound = bound
      /\ b2.cells = cells' /\ b2.list = work'.bindings /\ b2.bound = bound'
  BY DEF Bound4
<1>3. Leads(Held, Depth, Held', work'.bindings) /\ Depth' = Depth
  BY <1>1, HeldLed
<1>4. ScopedBy(b, Held, Depth)
  BY <1>2 DEF ScopedBy, ScopeInv, Scopes
<1>5. Depth = n + 1 /\ \A i \in 1..n : i \in 0 .. Depth /\ Held[i] = tags[i].bindings
  BY <1>1 DEF Depth, Held
<1>6. b2 = Bound4'
  OBVIOUS
<1> HIDE DEF Held, Depth, b, c, name, uri
<1>7. Leads(Held, Depth, Held', AddBinding(b, p, name, uri).list)
  BY <1>2, <1>3 DEF b
<1>8. \A d \in ToSet(Held[Depth]) : b.cells[d].prefix # p
  BY <1>1, <1>2
<1>9. ScopedBy(AddBinding(b, p, name, uri), Held', Depth)
  BY <1>1, <1>4, <1>7, <1>8, AddScoped
<1>10. Lengthened(b, AddBinding(b, p, name, uri), Taken(b), p, name, uri, Held, Depth)
  BY <1>1, <1>7, AddList
<1>11. ScopedBy(b2, Held', Depth) /\ Lengthened(b, b2, c, p, name, uri, Held, Depth)
  BY <1>9, <1>10 DEF b, c
<1> HIDE DEF b2
<1>12. Scoped(Held', Depth', Prefix(cells'), Prev(cells'), Uri(cells'), bound')
  BY <1>2, <1>3, <1>11 DEF ScopedBy
<1>13. /\ ToSet(work'.bindings) = {c} \cup ToSet(work.bindings) /\ c \notin ToSet(work.bindings)
       /\ cells'[c].prefix = p /\ cells'[c].uri = uri /\ cells'[c].att = name
       /\ \A x \in 1 .. Len(cells) : x # c => cells'[x] = cells[x]
       /\ \A i \in 0 .. Depth : ToSet(Held[i]) \subseteq 1 .. Len(cells) /\ c \notin ToSet(Held[i])
  BY <1>2, <1>11 DEF Lengthened
<1>14. StandsFor(cells'[c], att)
  BY <1>13 DEF StandsFor, name, uri
<1>15. KeepsOn(ToSet(work.bindings), cells, cells')
  <2>1. Depth \in 0 .. Depth
    BY <1>1, Levels
  <2> QED  BY <1>1, <1>13, <2>1 DEF KeepsOn
<1>16. \A i \in 1..n : KeepsOn(ToSet(tags[i].bindings), cells, cells')
  BY <1>5, <1>13 DEF KeepsOn
<1> QED  BY <1>12, <1>13, <1>14, <1>15, <1>16 DEF Grown, c

(* An attribute that declares a prefix has bound it.                       *)
LEMMA GrownScoped ==
  ASSUME ContentInv, ScopeInv, error = "NONE", InList(work), NEW att, att = LookedAt(work), ns, Says(att.name),
         flags[att.name] = 0, work.at = "defaults" => att.value # Null, NEW c, Grown(c, att),
         UNCHANGED <<ns, tags>>, Forward(work, work'), work'.empty = work.empty,
         flags' = IF work.at = "attributes" THEN Marked(att.name) ELSE flags
  PROVE  ScopeInv'
<1>1. Scopes' /\ StandsFor(cells'[c], att) /\ KeepsOn(ToSet(work.bindings), cells, cells')
      /\ ToSet(work'.bindings) = {c} \cup ToSet(work.bindings)
  <2> HIDE DEF Held, Depth, Prefix, Prev, Uri, Scoped
  <2> QED  BY DEF Grown, Scopes
<1>2. Noted(work, flags) /\ WorkSaid /\ Saying /\ OpenSaid /\ SameAtts
  BY DEF ScopeInv, Declarations, InList, Saying, StoringAtts
<1>3. Handling' <=> Handling
  BY DEF Handling, StoringAtts, Forward
<1>4. Counts(work)
  <2>1. work.at = "attributes" => Counts(work)
    BY DEF Counts
  <2> QED  BY <1>2, <2>1, CountsWhen DEF InList
<1>5. Seen(work') = Seen(work) \cup {att}
  BY <1>4, SeenNext
<1>6. WorkSaid'
  <2>1. Stands(ns, work.bindings, cells, Seen(work))
    BY <1>2 DEF WorkSaid
  <2> DEFINE S == Seen(work)
  <2> HIDE DEF S
  <2>2. Stands(ns, work'.bindings, cells', S \cup {att})
    <3>1. Stands(ns, work.bindings, cells, S)
      BY <2>1 DEF S
    <3> QED  BY <1>1, <3>1, StandsAdded
  <2>3. Stands(ns', work'.bindings, cells', Seen(work'))
    BY <1>5, <2>2 DEF S
  <2> QED  BY <2>3 DEF WorkSaid
<1>7. OpenSaid'
  <2>1. ASSUME NEW i \in 1 .. Len(tags'), Closed(i)' PROVE Remains(i)
    <3>1. i \in 1 .. Len(tags) /\ Closed(i)
      BY <1>3, <2>1 DEF Closed
    <3>2. KeepsOn(ToSet(tags[i].bindings), cells, cells')
      BY <3>1 DEF Grown
    <3> QED  BY <3>1, <3>2 DEF Remains, TagStays
  <2> QED  BY <1>2, <2>1, OpenStays
<1>8. SameAtts'
  BY <1>2, <1>3 DEF SameAtts, Forward
<1>9. Noted(work', flags')
  <2>1. flags \in [AttNames -> 0..2] /\ att.name \in AttNames
    BY LookedFacts DEF ContentInv, Typed, TypedAtts
  <2>2. att \in Seen(work')
    BY <1>5
  <2>3. CASE work.at = "attributes"
    <3>1. flags'[att.name] # 0 /\ \A x \in AttNames : x # att.name => flags'[x] = flags[x]
      BY <2>1, <2>3, MarkedOn
    <3> HIDE DEF Seen
    <3>2. MarksOn(work, work', flags, flags')
      BY <2>2, <3>1 DEF MarksOn
    <3> QED  BY <1>2, <3>2, NotedNext
  <2>4. CASE work.at # "attributes"
    <3>1. MarksOn(work, work', flags, flags')
      BY <2>4 DEF MarksOn
    <3> QED  BY <1>2, <3>1, NotedNext
  <2> QED  BY <2>3, <2>4
<1> QED  BY <1>1, <1>6, <1>7, <1>8, <1>9 DEF ScopeInv, Declarations

(* An attribute or a default of a start tag.                               *)
LEMMA AttributeScoped ==
  ASSUME ContentInv, ScopeInv, Attribute \/ Default
  PROVE  ScopeInv'
<1> DEFINE tag == work.tag
           att == LookedAt(work)
           prefix == DeclaredPrefix(att.name)
           bad == BindingError(prefix, att.value)
           code == IF bad = "NONE" THEN "NO_MEMORY" ELSE bad
           mark == IF work.at = "attributes" THEN Marked(att.name) ELSE flags
           b == AddBinding(Bound4, prefix, att.name, att.value)
<1>1. error = "NONE" /\ work.at \in {"attributes", "defaults"} /\ UNCHANGED <<nsAtts, idIndex>>
  BY DEF Attribute, Default, At, attVars
<1>2. work.tag \in StartTags /\ work.i \in Nat \ {0} /\ DOMAIN work = WorkFields
  BY <1>1 DEF ContentInv, Typed, TypedWork, StoringAtts
<1>3. InList(work)
  BY <1>1, <1>2 DEF InList, Attribute, Default, At
<1>4. prefix \in NsPrefixes
  <2>1. \A list \in {tag.atts, Defaults(tag.name)} : work.i <= Len(list) => DeclaredPrefix(list[work.i].name) \in NsPrefixes
    BY <1>2, AttFacts
  <2> QED  BY <1>1, <1>3, <2>1 DEF InList, LookedAt
<1>5. \/ FailInTag("DUPLICATE_ATTRIBUTE")
      \/ flags[att.name] = 0 /\ Declares(att.name) /\ (work.at = "defaults" => att.value # Null) /\ BindPrefix(att, mark)
      \/ /\ flags[att.name] = 0 /\ ~Declares(att.name) /\ (work.at = "defaults" => att.value # Null)
         /\ Listed(att, Marked(att.name))
      \/ work.at = "defaults" /\ (flags[att.name] # 0 \/ att.value = Null) /\ Skip
  <2>1. CASE Attribute
    <3>1. work.at = "attributes" /\ att = work.tag.atts[work.i]
      BY <2>1 DEF Attribute, At, LookedAt
    <3> HIDE DEF att
    <3> QED  BY <2>1, <3>1 DEF Attribute
  <2>2. CASE Default
    <3>1. work.at = "defaults" /\ att = Defaults(work.tag.name)[work.i]
      BY <2>2 DEF Default, At, LookedAt
    <3> HIDE DEF att
    <3> QED  BY <2>2, <3>1 DEF Default
  <2> QED  BY <2>1, <2>2
<1>6. CASE FailInTag("DUPLICATE_ATTRIBUTE")
  BY <1>6, NoMore DEF FailInTag
<1>7. ASSUME flags[att.name] = 0, Declares(att.name), work.at = "defaults" => att.value # Null, BindPrefix(att, mark)
      PROVE  ScopeInv'
  <2>1. CASE FailInTag(code)
    <3>1. code # "NONE"
      OBVIOUS
    <3> HIDE DEF code
    <3> QED  BY <2>1, <3>1, NoMore DEF FailInTag
  <2>2. CASE ~FailInTag(code)
    <3>1. /\ bound' = b.bound /\ cells' = b.cells /\ freeBindings' = b.free
          /\ work' = [work EXCEPT !.bindings = b.list, !.i = @ + 1]
          /\ UNCHANGED <<tags, inherited, ns>> /\ flags' = mark
      BY <1>7, <2>2 DEF BindPrefix, Bound4, setup
    <3> HIDE DEF prefix, att
    <3>2. b = [bound |-> b.bound, cells |-> b.cells, free |-> b.free, list |-> b.list]
      BY DEF AddBinding
    <3> HIDE DEF b
    <3>3. /\ work'.at = work.at /\ work'.empty = work.empty /\ work'.bindings = b.list /\ work'.tag = work.tag
          /\ work'.i = work.i + 1
      BY <1>2, <3>1 DEF WorkFields
    <3>4. Bound4' = b
      BY <3>1, <3>2, <3>3 DEF Bound4
    <3>5. ns /\ Says(att.name) /\ Forward(work, work')
      BY <1>7, <3>3 DEF Declares, Says, Forward
    <3>6. att = LookedAt(work) /\ prefix = DeclaredPrefix(att.name)
      BY DEF att, prefix
    <3>7. \A d \in ToSet(work.bindings) : cells[d].prefix # prefix
      BY <1>1, <1>3, <1>7, <3>5, <3>6, FreshPrefix
    <3>8. Grown(Taken(Bound4), att)
      BY <1>1, <1>4, <3>1, <3>4, <3>6, <3>7, BindGrows DEF b
    <3> QED  BY <1>1, <1>3, <1>7, <3>1, <3>3, <3>5, <3>6, <3>8, GrownScoped
  <2> QED  BY <2>1, <2>2
<1>8. ASSUME flags[att.name] = 0, ~Declares(att.name), work.at = "defaults" => att.value # Null,
             Listed(att, Marked(att.name))
      PROVE  ScopeInv'
  BY <1>1, <1>3, <1>8, ListedScoped
<1>9. CASE work.at = "defaults" /\ (flags[att.name] # 0 \/ att.value = Null) /\ Skip
  BY <1>1, <1>3, <1>9, SkipScoped
<1> QED  BY <1>5, <1>6, <1>7, <1>8, <1>9

(* The start call of an open tag: the tag keeps its bindings.              *)
LEMMA StartOpenScoped ==
  ASSUME ContentInv, ScopeInv, StartCall, ~work.empty
  PROVE  ScopeInv'
<1> DEFINE n == Len(tags)
           t == tags[n]
           name == Name(work.str, work.tag.name)
           u == [t EXCEPT !.bindings = work.bindings, !.told = name]
<1>1. /\ error = "NONE" /\ work.at = "start" /\ UNCHANGED <<ns, error, cells, bound, inherited>>
      /\ work' = [NoWork EXCEPT !.at = "check"]
      /\ tags' = [tags EXCEPT ![Len(tags)].bindings = work.bindings, ![Len(tags)].told = name]
  BY DEF StartCall, At, Handler, setup, bindingVars
<1>2. Handling /\ tags # <<>> /\ Pending /\ TypedTags
  BY <1>1 DEF Handling, ContentInv, Control, NamesKept, Typed
<1>3. IsSeq(tags) /\ n \in Nat \ {0} /\ DOMAIN tags = 1..n /\ n \in 1..n /\ IsTag(t)
  <2>1. IsSeq(tags) /\ n \in Nat \ {0} /\ DOMAIN tags = 1..n /\ \A i \in 1..n : IsTag(tags[i])
    BY <1>2, AnySeq, AnyFront DEF TypedTags
  <2>2. n \in 1..n
    BY <2>1
  <2> QED  BY <2>1, <2>2
<1>4. tags' = [tags EXCEPT ![n] = u]
  <2> HIDE DEF name, n
  <2> QED  BY <1>1, <1>3 DEF n
<1>5. t.name = work.tag.name /\ t.bindings = <<>>
  BY <1>2 DEF Pending
<1>6. t.atts = work.tag.atts /\ Scopes /\ OpenSaid /\ WorkSaid
  BY <1>1, <1>2 DEF ScopeInv, Declarations, SameAtts
<1>7. DOMAIN t = TagFields
  BY <1>3 DEF IsTag
<1> HIDE DEF t, name
<1>8. u.bindings = work.bindings /\ u.name = t.name /\ u.atts = t.atts
  BY <1>7 DEF TagFields
<1> HIDE DEF u
<1>9. Topped(tags, tags', u)
  BY <1>2, <1>3, <1>4, TopSet
<1>10. IsSeq(tags') /\ Len(tags') = n /\ tags'[n] = u /\ \A i \in 1 .. n - 1 : tags'[i] = tags[i]
  BY <1>9 DEF Topped
<1>11. work'.at = "check" /\ work'.bindings = <<>>
  BY <1>1 DEF NoWork
<1>12. ~Handling' /\ ~Saying' /\ Noted(work, flags)'
  BY <1>11 DEF Handling, Saying, StoringAtts, Noted
<1>13. MovedUp(Held, Depth, Held') /\ Depth' = Depth
  <2>1. tags[Len(tags)].bindings = <<>> /\ tags'[Len(tags)].bindings = work.bindings
    BY <1>5, <1>8, <1>10 DEF t
  <2>2. \A i \in 1 .. Len(tags) - 1 : tags'[i].bindings = tags[i].bindings
    BY <1>10
  <2> QED  BY <1>1, <1>2, <1>10, <1>11, <2>1, <2>2, ErrorMoves
<1>14. Scopes'
  <2>1. Depth \in Nat
    BY <1>3 DEF Depth
  <2> HIDE DEF Held, Depth, Prefix, Prev, Uri, Scoped
  <2>2. Scoped(Held, Depth, Prefix(cells), Prev(cells), Uri(cells), bound)
    BY <1>1, <1>6 DEF Scopes
  <2>3. Scoped(Held', Depth, Prefix(cells), Prev(cells), Uri(cells), bound)
    BY <1>13, <2>1, <2>2, MoveScoped
  <2> QED  BY <1>1, <1>13, <2>3 DEF Scopes
<1>15. Stands(ns, u.bindings, cells, AttsOf(u))
  <2>1. Stands(ns, work.bindings, cells, Seen(work))
    BY <1>1, <1>6 DEF WorkSaid, Saying
  <2>2. Seen(work) = AttsOf(work.tag)
    BY <1>1 DEF Seen
  <2>3. AttsOf(u) = AttsOf(work.tag)
    BY <1>5, <1>6, <1>8, AttsStay
  <2> HIDE DEF Seen
  <2> QED  BY <1>8, <2>1, <2>2, <2>3
<1>16. OpenSaid'
  <2> SUFFICES ASSUME NEW i \in 1..n PROVE Stands(ns', tags'[i].bindings, cells', AttsOf(tags'[i]))
    BY <1>10 DEF OpenSaid
  <2>1. CASE i = n
    BY <1>1, <1>10, <1>15, <2>1
  <2>2. CASE i # n
    <3>0. i \in 1 .. n - 1 /\ i < n
      <4>1. n \in Nat
        BY <1>3
      <4> HIDE DEF n
      <4> QED  BY <2>2, <4>1
    <3>1. i \in 1 .. n - 1 /\ i \in 1 .. Len(tags) /\ Closed(i)
      BY <3>0 DEF Closed
    <3>2. Stands(ns, tags[i].bindings, cells, AttsOf(tags[i]))
      BY <1>6, <3>1 DEF OpenSaid
    <3> QED  BY <1>1, <1>10, <3>1, <3>2
  <2> QED  BY <2>1, <2>2
<1> QED  BY <1>12, <1>14, <1>16 DEF ScopeInv, Declarations, WorkSaid, SameAtts

(* The innermost tag is taken off the stack.                               *)
LEMMA EndedScoped ==
  ASSUME ContentInv, ScopeInv, Ended, Level > startLevel
  PROVE  ScopeInv'
<1> DEFINE n == Len(tags)
<1>1. n \in Nat \ {0} /\ tags # <<>> /\ IsSeq(tags)
  <2>1. n \in Nat /\ IsSeq(tags) /\ startLevel \in {0, 1}
    BY AnySeq DEF ContentInv, Typed, TypedTags, TypedFlow
  <2>2. n # 0
    BY <2>1 DEF Level
  <2> QED  BY <2>1, <2>2, NoneSet
<1>2. Last(tags) = tags[n] /\ Len(tags') = n - 1 /\ \A i \in 1 .. n - 1 : tags'[i] = tags[i]
  BY <1>1, AnyFront DEF Ended
<1>3. /\ error = "NONE" /\ error' = error /\ work.at = "token" /\ work.bindings = <<>>
      /\ work'.at = "withdraw" /\ work'.bindings = tags[n].bindings /\ UNCHANGED <<ns, bound, inherited>>
  BY <1>2 DEF Ended, ContentInv, Control, NoWork
<1>4. ~Handling /\ ~Handling' /\ ~Saying' /\ Noted(work, flags)'
  BY <1>3 DEF Handling, Saying, StoringAtts, Noted
<1>5. Scopes /\ OpenSaid
  BY <1>3 DEF ScopeInv, Declarations
<1>6. SameCells(cells, cells')
  <2>1. /\ Len(cells') = Len(cells) /\ Prefix(cells') = Prefix(cells) /\ Prev(cells') = Prev(cells)
        /\ \A x \in 1 .. Len(cells) : cells'[x].uri = cells[x].uri /\ cells'[x].att = cells[x].att
    BY <1>1, EndCells
  <2>2. \A x \in 1 .. Len(cells) : cells'[x].prefix = cells[x].prefix
    <3> TAKE x \in 1 .. Len(cells)
    <3>1. Prefix(cells')[x] = cells'[x].prefix /\ Prefix(cells)[x] = cells[x].prefix
      BY <2>1 DEF Prefix
    <3> HIDE DEF Prefix
    <3> QED  BY <2>1, <3>1
  <2>3. Uri(cells') = Uri(cells)
    BY <2>1 DEF Uri
  <2> QED  BY <2>1, <2>2, <2>3 DEF SameCells, KeepsOn
<1>7. Dropped(Held, Depth, Held') /\ Depth' = n /\ Depth = n + 1
  <2>1. Dropped(Held, Depth, Held') /\ Depth' = n
    BY <1>1, <1>2, <1>3, HeldDropped
  <2> QED  BY <2>1 DEF Depth
<1>8. Scopes'
  <2> HIDE DEF Held, Depth, Prefix, Prev, Uri, Scoped
  <2>1. Depth \in Nat /\ Depth - 1 = n
    BY <1>1, <1>7
  <2> HIDE DEF n
  <2>2. Scoped(Held, Depth, Prefix(cells), Prev(cells), Uri(cells), bound)
    BY <1>3, <1>5 DEF Scopes
  <2>3. Scoped(Held', Depth - 1, Prefix(cells), Prev(cells), Uri(cells), bound)
    BY <1>7, <2>1, <2>2, DropScoped
  <2> QED  BY <1>3, <1>6, <1>7, <2>1, <2>3 DEF Scopes, SameCells
<1>9. OpenSaid'
  <2>1. ASSUME NEW i \in 1 .. Len(tags'), Closed(i)' PROVE Remains(i)
    <3>1. i \in 1 .. n - 1 /\ i \in 1..n
      BY <1>1, <1>2
    <3>2. tags'[i] = tags[i] /\ Closed(i)
      BY <1>2, <1>4, <3>1 DEF Closed
    <3>3. KeepsOn(ToSet(tags[i].bindings), cells, cells')
      <4>1. ToSet(tags[i].bindings) \subseteq 1 .. Len(cells) /\ KeepsOn(1 .. Len(cells), cells, cells')
        BY <1>6, <3>1, ListsTyped DEF SameCells
      <4> QED  BY <4>1, KeepsSub
    <3> QED  BY <3>1, <3>2, <3>3 DEF Remains, TagStays
  <2> QED  BY <1>3, <1>5, <2>1, OpenStays
<1> QED  BY <1>4, <1>8, <1>9 DEF ScopeInv, Declarations, WorkSaid, SameAtts

(* An end tag is read.                                                     *)
LEMMA EndTagScoped ==
  ASSUME ContentInv, ScopeInv, NEW name, EndTag(name)
  PROVE  ScopeInv'
<1>1. \/ error' # "NONE"
      \/ Ended /\ Level > startLevel
  BY DEF EndTag, Refuse, Fail, Ended, Token, At, setup, callVars, attVars
<1>2. CASE error' # "NONE"
  BY <1>2, NoMore
<1>3. CASE Ended /\ Level > startLevel
  BY <1>3, EndedScoped
<1> QED  BY <1>1, <1>2, <1>3

(* A binding is withdrawn.                                                 *)
LEMMA WithdrawScoped ==
  ASSUME ContentInv, ScopeInv, Withdraw
  PROVE  ScopeInv'
<1> DEFINE m == Len(cells)
           c == Head(work.bindings)
           rest == Tail(work.bindings)
<1>1. /\ error = "NONE" /\ work.at = "withdraw" /\ work.bindings # <<>>
      /\ bound' = [bound EXCEPT ![cells[c].prefix] = cells[c].prev]
      /\ freeBindings' = <<c>> \o freeBindings
      /\ cells' = [cells EXCEPT ![c] = Freed(cells[c])]
      /\ work' = [work EXCEPT !.bindings = rest]
      /\ UNCHANGED <<ns, error, inherited, tags>>
  BY DEF Withdraw, At, setup
<1>2. work'.at = "withdraw" /\ work'.bindings = rest
  <2>1. DOMAIN work = WorkFields
    BY DEF ContentInv, Typed, TypedWork
  <2> QED  BY <1>1, <2>1 DEF WorkFields
<1>3. ~Handling /\ ~Handling' /\ ~Saying' /\ Noted(work, flags)'
  BY <1>1, <1>2 DEF Handling, Saying, StoringAtts, Noted
<1>4. Scopes /\ OpenSaid
  BY <1>1 DEF ScopeInv, Declarations
<1>5. /\ IsSeq(cells) /\ m \in Nat /\ Len(tags) \in Nat /\ \A x \in 1..m : IsCell(cells[x])
      /\ bound \in [NsPrefixes -> 0..m]
  BY AnySeq DEF ContentInv, Typed, TypedTags, TypedCells
<1>6. c \in 1..m /\ c \in ToSet(work.bindings)
  <2>1. work.bindings \in Seq(1..m)
    BY ListsTyped
  <2> DEFINE s == work.bindings
  <2> HIDE DEF m
  <2> QED  BY <1>1, <2>1, Uncons
<1>7. \A x \in 1..m : x # c => cells'[x] = cells[x]
  <2>1. Emptied(cells, cells', c)
    <3> HIDE DEF c
    <3> QED  BY <1>1, <1>5, <1>6, Empty
  <2> QED  BY <2>1 DEF Emptied
<1>8. Len(cells') = m
  <2>1. Emptied(cells, cells', c)
    <3> HIDE DEF c
    <3> QED  BY <1>1, <1>5, <1>6, Empty
  <2> QED  BY <2>1 DEF Emptied
<1>9. Popped(Held, Depth, freeBindings, Held', freeBindings') /\ Depth' = Depth /\ Held[Depth] = work.bindings
  BY <1>1, <1>2, <1>5, HeldPopped
<1>10. Depth \in Nat
  BY <1>5 DEF Depth
<1>11. Parted(Held, Depth, freeBindings, m) /\ Chained(Held, Depth, Prefix(cells), Prev(cells), bound)
  BY <1>1 DEF ContentInv, Bindings
<1>12. Scoped(Held, Depth, Prefix(cells), Prev(cells), Uri(cells), bound)
  BY <1>1, <1>4 DEF Scopes
<1>13. Unbound(Prefix(cells), Prev(cells), bound, Prefix(cells'), Prev(cells'), bound', m, c)
  <2>1. \A x \in 1..m : x # c => Prefix(cells')[x] = Prefix(cells)[x] /\ Prev(cells')[x] = Prev(cells)[x]
    BY <1>7, <1>8 DEF Prefix, Prev
  <2>2. cells[c].prev = Prev(cells)[c] /\ cells[c].prefix = Prefix(cells)[c]
    BY <1>6 DEF Prefix, Prev
  <2> HIDE DEF c, m
  <2>3. \A q \in NsPrefixes : bound'[q] = IF q = cells[c].prefix THEN cells[c].prev ELSE bound[q]
    BY <1>1, <1>5
  <2> QED  BY <2>1, <2>2, <2>3 DEF Unbound
<1>14. Released(m, Uri(cells), Uri(cells'), c)
  BY <1>7, <1>8 DEF Released, Uri
<1>15. Scopes'
  <2> DEFINE prefix == Prefix(cells)
             prev == Prev(cells)
             uri == Uri(cells)
             prefix2 == Prefix(cells')
             prev2 == Prev(cells')
             uri2 == Uri(cells')
  <2>1. c = Head(Held[Depth])
    BY <1>9
  <2> HIDE DEF Held, Depth, prefix, prev, uri, prefix2, prev2, uri2, Scoped, c, m
  <2>2. Scoped(Held', Depth, prefix2, prev2, uri2, bound')
    BY <1>9, <1>10, <1>11, <1>12, <1>13, <1>14, <2>1, PopScoped DEF prefix, prev, uri, prefix2, prev2, uri2
  <2> QED  BY <1>9, <2>2 DEF Scopes, prefix2, prev2, uri2
<1>16. OpenSaid'
  <2>1. ASSUME NEW i \in 1 .. Len(tags'), Closed(i)' PROVE Remains(i)
    <3>1. i \in 1 .. Len(tags) /\ tags'[i] = tags[i] /\ Closed(i)
      BY <1>1, <1>3 DEF Closed
    <3>2. /\ ToSet(tags[i].bindings) \subseteq 1..m
          /\ ToSet(tags[i].bindings) \cap ToSet(work.bindings) = {}
      BY <3>1, ListsTyped
    <3>3. KeepsOn(ToSet(tags[i].bindings), cells, cells')
      <4> HIDE DEF c, m
      <4> QED  BY <1>6, <1>7, <3>2 DEF KeepsOn
    <3> QED  BY <3>1, <3>3 DEF Remains, TagStays
  <2> QED  BY <1>1, <1>4, <2>1, OpenStays
<1> QED  BY <1>3, <1>15, <1>16 DEF ScopeInv, Declarations, WorkSaid, SameAtts

-----------------------------------------------------------------------------
(* The scopes in every state.                                              *)
(* The contexts list a prefix once.                                        *)
LEMMA EachContexts ==
  /\ Each(<<>>) /\ Each(<<<<"xml", Xml>>>>)
  /\ \A context \in Contexts : Each(context)
<1>1. Each(<<>>)
  BY DEF Each
<1>2. Each(<<<<"xml", Xml>>>>)
  <2> DEFINE context == <<<<"xml", Xml>>>>
  <2>1. Len(context) = 1 /\ \A i, j \in 1..1 : i = j
    OBVIOUS
  <2> HIDE DEF context
  <2> QED  BY <2>1 DEF Each, context
<1>3. ASSUME NEW context \in Contexts PROVE Each(context)
  <2>1. IsSeq(context)
    BY ContentAssumption DEF IsSeq
  <2>2. DOMAIN context = 1 .. Len(context)
    BY <2>1, AnySeq
  <2>3. \A i, j \in DOMAIN context : context[i][1] = context[j][1] => i = j
    BY NamesAssumption
  <2> QED  BY <2>2, <2>3 DEF Each
<1> QED  BY <1>1, <1>2, <1>3

(* At first the prefixes mean what the context says.                       *)
LEMMA InitScoped == Init => ScopeInv
<1> SUFFICES ASSUME Init PROVE ScopeInv
  OBVIOUS
<1>1. PICK context : /\ IsContext(context) /\ Each(context)
                     /\ bound = SetContext(context).bound /\ cells = SetContext(context).cells
                     /\ inherited = SetContext(context).list
  BY IsContexts, EachContexts DEF Init
<1> DEFINE b == SetContext(context)
<1>2. bound = b.bound /\ cells = b.cells /\ inherited = b.list
  BY <1>1
<1>3. ScopedBy(b, Alone(b), 0)
  BY <1>1, ContextScoped
<1> HIDE DEF b
<1>4. tags = <<>> /\ work = NoWork
  BY DEF Init
<1>5. work.at = "token" /\ work.bindings = <<>>
  BY <1>4, BlankWork DEF Blank
<1>6. Len(tags) = 0 /\ Depth = 1
  BY <1>4, NoneSet DEF Depth
<1>7. Raised(Alone(b), 0, Held)
  <2>1. DOMAIN Held = 0..1 /\ Held[0] = inherited /\ Held[1] = work.bindings
    BY <1>6 DEF Held
  <2>2. Alone(b)[0] = inherited
    BY <1>2 DEF Alone
  <2> HIDE DEF Held
  <2>3. \A i \in 0..0 : i = 0
    OBVIOUS
  <2>4. \A i \in 0..0 : Held[i] = Alone(b)[i]
    BY <2>1, <2>2, <2>3
  <2> QED  BY <1>5, <2>1, <2>4 DEF Raised
<1>8. Scopes
  <2> DEFINE h == Alone(b)
             prefix == Prefix(cells)
             prev == Prev(cells)
             uri == Uri(cells)
  <2>1. Scoped(h, 0, prefix, prev, uri, bound)
    BY <1>2, <1>3 DEF ScopedBy
  <2>2. 0 + 1 = 1 /\ 0 \in Nat
    OBVIOUS
  <2> HIDE DEF h, prefix, prev, uri, Scoped, Held, Depth
  <2>3. Scoped(Held, 0 + 1, prefix, prev, uri, bound)
    BY <1>7, <2>1, <2>2, RaiseScoped DEF h
  <2> QED  BY <1>6, <2>2, <2>3 DEF Scopes, prefix, prev, uri
<1>9. ~Handling /\ ~Saying /\ Noted(work, flags)
  BY <1>5 DEF Handling, Saying, StoringAtts, Noted
<1>10. OpenSaid
  <2>1. 1 .. Len(tags) = {}
    BY <1>6
  <2> QED  BY <2>1 DEF OpenSaid
<1> QED  BY <1>8, <1>9, <1>10 DEF ScopeInv, Declarations, WorkSaid, SameAtts

(* Nothing happens.                                                        *)
LEMMA StutterScoped ==
  ASSUME ContentInv, ScopeInv, UNCHANGED vars
  PROVE  ScopeInv'
<1>1. /\ ns' = ns /\ error' = error /\ tags' = tags /\ bound' = bound /\ cells' = cells
      /\ inherited' = inherited /\ flags' = flags /\ work' = work
  BY DEF vars
<1>2. CASE error # "NONE"
  BY <1>1, <1>2, NoMore
<1>3. CASE error = "NONE"
  <2>1. TagsStay /\ SameCells(cells, cells')
    BY <1>1, SameHere
  <2>2. (Handling' <=> Handling) /\ (Saying' <=> Saying) /\ Seen(work)' = Seen(work)
    BY <1>1 DEF Handling, Saying, StoringAtts, Seen, SeenIn, SeenDefaults, AttsOf, Defaulted
  <2>3. Noted(work, flags)'
    <3>1. Noted(work, flags)
      BY <1>3 DEF ScopeInv, Declarations
    <3> QED  BY <1>1, <3>1 DEF Noted, Seen, SeenIn, SeenDefaults, AttsOf, Defaulted
  <2>4. Saying' => Stands(ns, work.bindings, cells, Seen(work)')
    <3>1. WorkSaid
      BY <1>3 DEF ScopeInv, Declarations
    <3> QED  BY <2>2, <3>1 DEF WorkSaid
  <2>5. work'.bindings = work.bindings /\ work'.tag = work.tag /\ UNCHANGED <<ns, bound, inherited>>
    BY <1>1
  <2> HIDE DEF vars
  <2> QED  BY <1>3, <2>1, <2>2, <2>3, <2>4, <2>5, StillSaid
<1> QED  BY <1>2, <1>3

(* One lemma for every action.                                             *)
LEMMA NextScoped ==
  ASSUME ContentInv, ContentInv', ScopeInv, [Next]_vars
  PROVE  ScopeInv'
<1>1. CASE Parse \/ Resume \/ Return
  BY <1>1, CallScoped
<1>2. ASSUME NEW tag \in StartTags, NEW empty \in BOOLEAN, StartTag(tag, empty) PROVE ScopeInv'
  BY <1>2, StartTagScoped
<1>3. CASE Attribute \/ Default
  BY <1>3, AttributeScoped
<1>4. CASE AttributesDone \/ DefaultsDone
  BY <1>4, DoneScoped
<1>5. CASE Expand
  BY <1>5, ExpandScoped
<1>6. CASE ElementName
  BY <1>6, NameScoped
<1>7. CASE StartCall
  BY <1>7, StartEmptyScoped, StartOpenScoped
<1>8. CASE EmptyEnd
  BY <1>8, EmptyEndScoped
<1>9. CASE Withdraw
  BY <1>9, WithdrawScoped
<1>10. ASSUME NEW name \in Names, EndTag(name) PROVE ScopeInv'
  BY <1>10, EndTagScoped
<1>11. CASE \/ Content \/ ExternalEntity \/ OpenCdata \/ Misc \/ CdataText \/ CloseCdata \/ CdataEnds
            \/ PieceEnds \/ TrailingText \/ Check \/ Left \/ InvalidToken \/ Junk
  BY <1>11, QuietScoped
<1>12. CASE UNCHANGED vars
  BY <1>12, StutterScoped
<1> HIDE DEF vars
<1> QED  BY <1>1, <1>2, <1>3, <1>4, <1>5, <1>6, <1>7, <1>8, <1>9, <1>10, <1>11, <1>12 DEF Next

(* The scopes are kept by every step.                                      *)
LEMMA ScopesInductive == Spec => [](ContentInv /\ ScopeInv)
<1>1. Init => ContentInv /\ ScopeInv
  BY InitInv, InitScoped
<1>2. ContentInv /\ ScopeInv /\ [Next]_vars => (ContentInv /\ ScopeInv)'
  BY NextInv, NextScoped
<1> QED  BY <1>1, <1>2, PTL DEF Spec

-----------------------------------------------------------------------------
(* Prefixes between tokens.                                                *)
(* What a tag declares is what its bindings say.                           *)
LEMMA TagDeclares ==
  ASSUME NEW tag, NEW list, Stands(ns, list, cells, AttsOf(tag)), NEW prefix, Distinct(list, prefix),
         \A c \in ToSet(list) : prefix[c] = cells[c].prefix, NEW p
  PROVE  /\ (\A c \in ToSet(list) : prefix[c] # p) => DeclaredBy(tag, p) = {}
         /\ \A c \in ToSet(list) : prefix[c] = p => DeclaredBy(tag, p) = {cells[c].uri}
<1>1. \A name : Declares(name) <=> ns /\ Says(name)
  BY DEF Declares, Says
<1>2. ASSUME NEW a \in AttsOf(tag), Declares(a.name), DeclaredPrefix(a.name) = p
      PROVE  \E c \in ToSet(list) : prefix[c] = p /\ cells[c].uri = a.value
  <2>1. PICK c \in ToSet(list) : StandsFor(cells[c], a)
    BY <1>1, <1>2 DEF Stands
  <2> QED  BY <1>2, <2>1 DEF StandsFor
<1>3. ASSUME NEW c \in ToSet(list), prefix[c] = p
      PROVE  cells[c].uri \in DeclaredBy(tag, p)
  <2>1. PICK a \in AttsOf(tag) : ns /\ Says(a.name) /\ StandsFor(cells[c], a)
    BY DEF Stands
  <2>2. Declares(a.name) /\ DeclaredPrefix(a.name) = p /\ a.value = cells[c].uri
    BY <1>1, <1>3, <2>1 DEF StandsFor
  <2> HIDE DEF Declares, DeclaredPrefix, AttsOf
  <2> QED  BY <2>2 DEF DeclaredBy
<1>4. \A u \in DeclaredBy(tag, p) : \E a \in AttsOf(tag) : Declares(a.name) /\ DeclaredPrefix(a.name) = p /\ a.value = u
  <2> HIDE DEF Declares, DeclaredPrefix, AttsOf
  <2> QED  BY DEF DeclaredBy
<1> HIDE DEF Declares, DeclaredPrefix, AttsOf, DeclaredBy
<1>5. \A u \in DeclaredBy(tag, p) : \E c \in ToSet(list) : prefix[c] = p /\ cells[c].uri = u
  <2> TAKE u \in DeclaredBy(tag, p)
  <2>1. PICK a \in AttsOf(tag) : Declares(a.name) /\ DeclaredPrefix(a.name) = p /\ a.value = u
    BY <1>4
  <2> QED  BY <1>2, <2>1
<1>6. ASSUME NEW c \in ToSet(list), prefix[c] = p
      PROVE  DeclaredBy(tag, p) = {cells[c].uri}
  <2>1. \A d \in ToSet(list) : prefix[d] = p => d = c
    BY <1>6 DEF Distinct
  <2> QED  BY <1>3, <1>5, <1>6, <2>1
<1> QED  BY <1>5, <1>6

(* The greatest element of a set is the one that no other exceeds.         *)
LEMMA GreatestIs ==
  ASSUME NEW n \in Nat, NEW T \in SUBSET (1..n), NEW j \in T, \A i \in T : i <= j
  PROVE  Max(T) = j
<1> DEFINE m == Max(T)
<1>1. m \in T /\ \A i \in T : i <= m
  BY Greatest
<1> HIDE DEF m
<1>2. m <= j /\ j <= m /\ m \in 1..n /\ j \in 1..n
  BY <1>1
<1>3. m = j
  BY <1>2
<1> QED  BY <1>3 DEF m

(* The levels of the stack, when the lists of bindings fit the tags.       *)
Declaring(p) == {i \in DOMAIN tags : DeclaredBy(tags[i], p) # {}}
LEMMA InScopeIs ==
  ASSUME NEW p
  PROVE  /\ Declaring(p) # {} => InScope(tags, p) = CHOOSE uri \in DeclaredBy(tags[Max(Declaring(p))], p) : TRUE
         /\ Declaring(p) = {} /\ (\E c \in ToSet(inherited) : cells[c].prefix = p) =>
              InScope(tags, p) = cells[CHOOSE c \in ToSet(inherited) : cells[c].prefix = p].uri
         /\ Declaring(p) = {} /\ ~(\E c \in ToSet(inherited) : cells[c].prefix = p) => InScope(tags, p) = ""
  BY DEF InScope, Declaring

(* Between tokens the bindings are those of the open tags.                 *)
Settled ==
  /\ Len(tags) \in Nat /\ DOMAIN tags = 1 .. Len(tags) /\ Depth = Len(tags) + 1
  /\ Held[0] = inherited /\ Held[Depth] = <<>>
  /\ \A i \in 1 .. Len(tags) : Held[i] = tags[i].bindings /\ Stands(ns, tags[i].bindings, cells, AttsOf(tags[i]))
  /\ \A i \in 0 .. Depth : \A c \in ToSet(Held[i]) : c \in 1 .. Len(cells)
  /\ Scoped(Held, Depth, Prefix(cells), Prev(cells), Uri(cells), bound)
LEMMA BetweenSettled ==
  ASSUME ContentInv, ScopeInv, Between
  PROVE  Settled
<1> DEFINE n == Len(tags)
<1>1. error = "NONE" /\ work.at = "token" /\ work.bindings = <<>> /\ ~Handling
  BY DEF Between, ContentInv, Control, Handling, StoringAtts
<1>2. n \in Nat /\ DOMAIN tags = 1..n /\ Depth = n + 1
  BY AnySeq DEF ContentInv, Typed, TypedTags, Depth
<1>3. 0 \in 0 .. Depth /\ Depth \in 0 .. Depth /\ Depth # 0 /\ \A i \in 1..n : i \in 0 .. Depth /\ i # 0 /\ i # Depth
  BY <1>2
<1>4. Held[0] = inherited /\ Held[Depth] = <<>> /\ \A i \in 1..n : Held[i] = tags[i].bindings
  <2> HIDE DEF n, Depth
  <2> QED  BY <1>1, <1>3 DEF Held
<1>5. Parted(Held, Depth, freeBindings, Len(cells))
  BY DEF ContentInv, Bindings
<1>6. Scoped(Held, Depth, Prefix(cells), Prev(cells), Uri(cells), bound)
  BY <1>1 DEF ScopeInv, Scopes
<1>7. \A i \in 1..n : Stands(ns, tags[i].bindings, cells, AttsOf(tags[i]))
  BY <1>1 DEF ScopeInv, Declarations, OpenSaid, Closed
<1> HIDE DEF Held, Depth
<1>8. \A i \in 0 .. Depth : ToSet(Held[i]) \subseteq 1 .. Len(cells)
  BY <1>5, HeldCells
<1>9. \A i \in 0 .. Depth : \A c \in ToSet(Held[i]) : c \in 1 .. Len(cells)
  BY <1>8
<1> QED  BY <1>2, <1>4, <1>6, <1>7, <1>9 DEF Settled

(* What the lists of bindings show is what the tags say.                   *)
LEMMA ShownInScope ==
  ASSUME Settled, NEW p, NEW u, Shows(Held, Depth, Prefix(cells), Uri(cells), p, u)
  PROVE  InScope(tags, p) = u
<1> DEFINE n == Len(tags)
           h == Held
           prefix == Prefix(cells)
           uri == Uri(cells)
           D == Declaring(p)
<1>1. n \in Nat /\ DOMAIN tags = 1..n /\ Depth = n + 1
  BY DEF Settled
<1>2. \A i \in 0 .. n + 1 : \A c \in ToSet(h[i]) : prefix[c] = cells[c].prefix /\ uri[c] = cells[c].uri
  BY <1>1 DEF Settled, Prefix, Uri
<1>3. \A i \in 0 .. n + 1 : Distinct(h[i], prefix)
  BY <1>1 DEF Settled, Scoped
<1>4. ToSet(h[n + 1]) = {}
  BY <1>1, NoneSet DEF Settled
<1>5. Shows(h, n, prefix, uri, p, u)
  <2> DEFINE m == n + 1
  <2>1. m \in Nat /\ m - 1 = n /\ ToSet(h[m]) = {} /\ Shows(h, m, prefix, uri, p, u)
    BY <1>1, <1>4
  <2> HIDE DEF m, h, prefix, uri
  <2>2. \A c \in ToSet(h[m]) : prefix[c] # p
    BY <2>1
  <2>3. Shows(h, m - 1, prefix, uri, p, u)
    BY <2>1, <2>2, ShowsBelow
  <2> QED  BY <2>1, <2>3
<1>6. \A i \in 1..n : i \in 0 .. n + 1
  BY <1>1
<1>7. h[0] = inherited /\ 0 \in 0 .. n + 1
  BY <1>1 DEF Settled
<1>8. ASSUME NEW i \in 1..n
      PROVE  /\ (\A c \in ToSet(h[i]) : prefix[c] # p) => DeclaredBy(tags[i], p) = {}
             /\ \A c \in ToSet(h[i]) : prefix[c] = p => DeclaredBy(tags[i], p) = {uri[c]}
  <2> DEFINE list == tags[i].bindings
             tag == tags[i]
  <2>1. h[i] = list /\ Stands(ns, list, cells, AttsOf(tag))
    BY DEF Settled
  <2>2. Distinct(list, prefix) /\ \A c \in ToSet(list) : prefix[c] = cells[c].prefix /\ uri[c] = cells[c].uri
    BY <1>2, <1>3, <1>6, <2>1
  <2> HIDE DEF list, tag, h, prefix, uri
  <2>3. /\ (\A c \in ToSet(list) : prefix[c] # p) => DeclaredBy(tag, p) = {}
        /\ \A c \in ToSet(list) : prefix[c] = p => DeclaredBy(tag, p) = {cells[c].uri}
    BY <2>1, <2>2, TagDeclares
  <2> QED  BY <2>1, <2>2, <2>3 DEF tag
<1>9. D = {i \in 1..n : DeclaredBy(tags[i], p) # {}}
  BY <1>1 DEF Declaring
<1> DEFINE Bound(c) == cells[c].prefix = p
<1>10. /\ D # {} => InScope(tags, p) = CHOOSE x \in DeclaredBy(tags[Max(D)], p) : TRUE
       /\ D = {} /\ (\E c \in ToSet(inherited) : Bound(c)) =>
            InScope(tags, p) = cells[CHOOSE c \in ToSet(inherited) : Bound(c)].uri
       /\ D = {} /\ ~(\E c \in ToSet(inherited) : Bound(c)) => InScope(tags, p) = ""
  BY InScopeIs
<1> HIDE DEF h, prefix, uri, D, n
<1>11. ASSUME NEW k \in Int, None(h, k, n, prefix, p)
       PROVE  \A i \in D : i < k
  <2> SUFFICES ASSUME NEW i \in D, ~(i < k) PROVE FALSE
    OBVIOUS
  <2>1. i \in 1..n /\ DeclaredBy(tags[i], p) # {} /\ i \in k..n
    BY <1>1, <1>9
  <2>2. \A c \in ToSet(h[i]) : prefix[c] # p
    BY <1>11, <2>1 DEF None
  <2> QED  BY <1>8, <2>1, <2>2
<1>12. ASSUME u = "", None(h, 0, n, prefix, p) PROVE InScope(tags, p) = u
  <2> DEFINE k == 0
  <2>5. k \in Int
    OBVIOUS
  <2>6. None(h, k, n, prefix, p)
    BY <1>12, Zenon
  <2>0. k \in Int /\ None(h, k, n, prefix, p)
    BY <2>5, <2>6
  <2> HIDE DEF k
  <2>3. \A i \in D : i < k
    BY <1>11, <2>0
  <2>1. \A i \in D : i < 0 /\ i \in 1..n
    BY <1>9, <2>3 DEF k
  <2>2. D = {}
    BY <2>1
  <2>4. \A c \in ToSet(inherited) : ~Bound(c)
    <3>1. 0 \in 0..n
      BY <1>1
    <3>2. \A c \in ToSet(h[0]) : prefix[c] # p
      BY <1>12, <3>1 DEF None
    <3> QED  BY <1>2, <1>7, <3>2
  <2> HIDE DEF Bound
  <2> QED  BY <1>10, <1>12, <2>2, <2>4
<1>13. ASSUME NEW j \in 0..n, NEW c \in ToSet(h[j]), prefix[c] = p, uri[c] = u, None(h, j + 1, n, prefix, p)
       PROVE  InScope(tags, p) = u
  <2>1. \A i \in D : i < j + 1 /\ i \in 1..n
    BY <1>9, <1>11, <1>13
  <2>2. CASE j = 0
    <3>1. D = {}
      BY <2>1, <2>2
    <3>2. c \in ToSet(inherited) /\ Bound(c) /\ cells[c].uri = u
      BY <1>2, <1>7, <1>13, <2>2
    <3>3. \A d \in ToSet(inherited) : Bound(d) => d = c
      BY <1>2, <1>3, <1>7, <1>13, <2>2 DEF Distinct
    <3> HIDE DEF Bound
    <3>4. (CHOOSE d \in ToSet(inherited) : Bound(d)) = c
      BY <3>2, <3>3
    <3> QED  BY <1>10, <3>1, <3>2, <3>4
  <2>3. CASE j # 0
    <3>1. j \in 1..n
      BY <2>3
    <3>2. DeclaredBy(tags[j], p) = {u}
      BY <1>8, <1>13, <3>1
    <3>8. j \in D
      BY <1>9, <3>1, <3>2
    <3>9. D \in SUBSET (1..n)
      BY <1>9
    <3>10. \A i \in D : i <= j
      BY <2>1, <3>1
    <3>3. j \in D /\ D \in SUBSET (1..n) /\ \A i \in D : i <= j
      BY <3>8, <3>9, <3>10
    <3>4. Max(D) = j
      BY <1>1, <3>3, GreatestIs
    <3>5. InScope(tags, p) = CHOOSE x \in DeclaredBy(tags[j], p) : TRUE
      BY <1>10, <3>3, <3>4
    <3>6. \A x : x \in DeclaredBy(tags[j], p) <=> x = u
      BY <3>2
    <3>7. (CHOOSE x \in DeclaredBy(tags[j], p) : TRUE) = u
      BY <3>6
    <3> QED  BY <3>5, <3>7
  <2> QED  BY <2>2, <2>3
<1> QED  BY <1>5, <1>12, <1>13 DEF Shows

(* The first part of ScopesKept.                                           *)
LEMMA MeansInScope ==
  ASSUME ContentInv, ScopeInv, Between, NEW p \in NsPrefixes
  PROVE  (IF bound[p] = 0 THEN "" ELSE cells[bound[p]].uri) = InScope(tags, p)
<1> DEFINE u == Val(Uri(cells), bound[p])
<1>1. Settled
  BY BetweenSettled
<1>2. Shows(Held, Depth, Prefix(cells), Uri(cells), p, u)
  BY <1>1 DEF Settled, Scoped
<1> HIDE DEF u
<1>3. InScope(tags, p) = u
  BY <1>1, <1>2, ShownInScope
<1>4. bound[p] # 0 => bound[p] \in 1 .. Len(cells)
  BY BoundCell DEF Between
<1>5. u = IF bound[p] = 0 THEN "" ELSE cells[bound[p]].uri
  BY <1>4 DEF u, Val, Uri
<1> QED  BY <1>3, <1>5

-----------------------------------------------------------------------------
(* The context.                                                            *)
(* SetToSeq puts the elements of a set in an order.                        *)
IsOrder(order, P) ==
  /\ Len(order) \in Nat /\ order \in [1 .. Len(order) -> P]
  /\ \A p \in P : \E i \in 1 .. Len(order) : order[i] = p
  /\ \A i, j \in 1 .. Len(order) : order[i] = order[j] => i = j
LEMMA SetOrder ==
  ASSUME NEW P, IsFiniteSet(P)
  PROVE  IsOrder(SetToSeq(P), P)
<1> DEFINE n == Cardinality(P)
           s == SetToSeq(P)
<1>1. n \in Nat /\ \E f : f \in Bijection(1..n, P)
  BY FS_CardinalityType DEF ExistsBijection
<1>2. PICK f : f \in Bijection(1..n, P)
  BY <1>1
<1>3. \E g \in [1..n -> P] : IsInjective(g)
  BY <1>2 DEF Bijection, Injection
<1>4. s \in [1..n -> P] /\ IsInjective(s)
  BY <1>3, Zenon DEF SetToSeq
<1> HIDE DEF s
<1>5. s \in Seq(P) /\ Len(s) = n
  BY <1>1, <1>4, IsASeq, LenProperties
<1>6. IsFiniteSet(1..n) /\ Cardinality(1..n) = n /\ s \in Injection(1..n, P)
  BY <1>1, <1>4, FS_Interval DEF Injection
<1>7. s \in Surjection(1..n, P)
  BY <1>6, FS_Injection
<1> QED  BY <1>1, <1>4, <1>5, <1>7 DEF IsOrder, Surjection, IsInjective, s

(* A prefix has a cell of its own, so there are not more than cells.       *)
BoundTo == {p \in NsPrefixes \ {""} : bound[p] # 0}
LEMMA BoundFinite ==
  ASSUME ContentInv, error = "NONE"
  PROVE  IsFiniteSet(BoundTo)
<1> DEFINE P == BoundTo
           f == [p \in P |-> bound[p]]
           T == 1 .. Len(cells)
<1>1. \A p \in P : bound[p] \in T /\ cells[bound[p]].prefix = p
  BY BoundCell DEF BoundTo
<1>2. IsFiniteSet(T)
  <2>1. Len(cells) \in Nat
    BY AnySeq DEF ContentInv, Typed, TypedCells
  <2> QED  BY <2>1, FS_Interval
<1> HIDE DEF P, T
<1>3. f \in [P -> T] /\ \A p, q \in P : f[p] = f[q] => p = q
  BY <1>1
<1>4. f \in Injection(P, T)
  BY <1>3 DEF Injection, IsInjective
<1> HIDE DEF f
<1>5. IsFiniteSet(P)
  BY <1>2, <1>4, FS_Injection
<1> QED  BY <1>5 DEF P

(* A list of pairs has every bound prefix once, with its URI.              *)
Pair(p) == <<p, cells[bound[p]].uri>>
Listing(s, P) ==
  /\ Len(s) \in Nat /\ IsSeq(s)
  /\ \A i \in 1 .. Len(s) : \E p \in P : s[i] = Pair(p)
  /\ \A p \in P : \E i \in 1 .. Len(s) : s[i] = Pair(p)
  /\ \A i, j \in 1 .. Len(s) : s[i][1] = s[j][1] => i = j

(* The other prefixes.                                                     *)
LEMMA OthersListed ==
  ASSUME NEW P, IsFiniteSet(P)
  PROVE  LET others == SetToSeq(P) IN Listing([i \in DOMAIN others |-> Pair(others[i])], P)
<1> DEFINE others == SetToSeq(P)
           n == Len(others)
           s == [i \in DOMAIN others |-> Pair(others[i])]
           S == {Pair(p) : p \in P}
<1>1. IsOrder(others, P)
  BY SetOrder
<1> HIDE DEF others
<1>2. /\ n \in Nat /\ DOMAIN others = 1..n /\ \A i \in 1..n : others[i] \in P
      /\ \A p \in P : \E i \in 1..n : others[i] = p
      /\ \A i, j \in 1..n : others[i] = others[j] => i = j
  BY <1>1 DEF IsOrder
<1> HIDE DEF n
<1>3. DOMAIN s = 1..n /\ \A i \in 1..n : s[i] = Pair(others[i])
  BY <1>2
<1>4. s \in [1..n -> S]
  BY <1>2
<1> HIDE DEF s, S
<1>5. s \in Seq(S)
  BY <1>2, <1>4, SeqDef
<1>6. IsSeq(s) /\ Len(s) \in Nat /\ DOMAIN s = 1 .. Len(s)
  BY <1>5, SeqFacts
<1> DEFINE m == Len(s)
<1>7. m = n
  <2>1. m \in Nat /\ 1..m = 1..n
    BY <1>3, <1>6
  <2> HIDE DEF m
  <2> QED  BY <1>2, <2>1
<1>8. \A p : Pair(p)[1] = p
  BY DEF Pair
<1> HIDE DEF Pair
<1>9. \A i \in 1..n : \E p \in P : s[i] = Pair(p)
  BY <1>2, <1>3
<1>10. \A p \in P : \E i \in 1..n : s[i] = Pair(p)
  BY <1>2, <1>3
<1>11. \A i, j \in 1..n : s[i][1] = s[j][1] => i = j
  BY <1>2, <1>3, <1>8
<1>12. Listing(s, P)
  BY <1>6, <1>7, <1>9, <1>10, <1>11 DEF Listing
<1> QED  BY <1>12 DEF s, others

(* With one more in front.                                                 *)
LEMMA FrontListed ==
  ASSUME NEW s, NEW P, Listing(s, P), NEW p, p \notin P
  PROVE  Listing(<<Pair(p)>> \o s, P \cup {p})
<1> DEFINE e == Pair(p)
           S == ToSet(s) \cup {e}
           t == <<e>> \o s
           n == Len(s)
<1>1. s \in Seq(S) /\ e \in S /\ n \in Nat
  <2>1. s \in Seq(ToSet(s)) /\ n \in Nat
    BY DEF Listing, IsSeq
  <2> QED  BY <2>1, SeqMonotonic
<1> HIDE DEF S, e
<1>2. t \in Seq(S) /\ Len(t) = n + 1 /\ t[1] = e /\ \A i \in 1..n : t[i + 1] = s[i]
  BY <1>1, ConsSeq
<1> HIDE DEF t
<1>3. IsSeq(t)
  BY <1>2, SeqFacts
<1>4. /\ \A i \in 1..n : \E q \in P : s[i] = Pair(q)
      /\ \A q \in P : \E i \in 1..n : s[i] = Pair(q)
      /\ \A i, j \in 1..n : s[i][1] = s[j][1] => i = j
  BY DEF Listing
<1> HIDE DEF n
<1>5. \A q : Pair(q)[1] = q
  BY DEF Pair
<1> HIDE DEF Pair
<1>6. \A i \in 1 .. n + 1 : i = 1 \/ (i - 1 \in 1..n /\ (i - 1) + 1 = i)
  BY <1>1
<1>7. \A i \in 1..n : i + 1 \in 1 .. n + 1
  BY <1>1
<1>8. 1 \in 1 .. n + 1
  BY <1>1
<1>9. \A i \in 1 .. n + 1 : i = 1 \/ (i - 1 \in 1..n /\ t[i] = s[i - 1])
  BY <1>2, <1>6
<1>10. \A i \in 1 .. n + 1 : \E q \in P \cup {p} : t[i] = Pair(q)
  BY <1>2, <1>4, <1>9 DEF e
<1>11. \A q \in P \cup {p} : \E i \in 1 .. n + 1 : t[i] = Pair(q)
  <2> TAKE q \in P \cup {p}
  <2>1. CASE q = p
    BY <1>2, <1>8, <2>1 DEF e
  <2>2. CASE q \in P
    <3>1. PICK i \in 1..n : s[i] = Pair(q)
      BY <1>4, <2>2
    <3> QED  BY <1>2, <1>7, <3>1
  <2> QED  BY <2>1, <2>2
<1>12. \A i \in 1..n : s[i][1] # p
  BY <1>4, <1>5
<1>13. ASSUME NEW i \in 1 .. n + 1, NEW j \in 1 .. n + 1, t[i][1] = t[j][1]
       PROVE  i = j
  <2>1. t[1][1] = p
    BY <1>2, <1>5 DEF e
  <2>2. CASE i = 1
    <3>1. j = 1 \/ (j - 1 \in 1..n /\ t[j][1] = s[j - 1][1])
      BY <1>9
    <3> QED  BY <1>12, <1>13, <2>1, <2>2, <3>1
  <2>3. CASE j = 1
    <3>1. i = 1 \/ (i - 1 \in 1..n /\ t[i][1] = s[i - 1][1])
      BY <1>9
    <3> QED  BY <1>12, <1>13, <2>1, <2>3, <3>1
  <2>4. CASE i # 1 /\ j # 1
    <3>1. i - 1 \in 1..n /\ j - 1 \in 1..n /\ t[i] = s[i - 1] /\ t[j] = s[j - 1]
      BY <1>9, <2>4
    <3>2. i - 1 = j - 1
      BY <1>4, <1>13, <3>1
    <3>3. (i - 1) + 1 = i /\ (j - 1) + 1 = j
      BY <1>6, <2>4
    <3> QED  BY <3>2, <3>3
  <2> QED  BY <2>2, <2>3, <2>4
<1>14. Len(t) = n + 1 /\ n + 1 \in Nat
  BY <1>1, <1>2
<1>15. Listing(t, P \cup {p})
  BY <1>3, <1>10, <1>11, <1>13, <1>14 DEF Listing
<1> QED  BY <1>15 DEF t, e

(* getContext lists every prefix that is bound.                            *)
LEMMA ContextListed ==
  ASSUME ContentInv, error = "NONE"
  PROVE  Listing(GetContext, {p \in NsPrefixes : bound[p] # 0})
<1> DEFINE P == BoundTo
           others == SetToSeq(P)
           s == [i \in DOMAIN others |-> Pair(others[i])]
           All == {p \in NsPrefixes : bound[p] # 0}
<1>1. Listing(s, P)
  BY BoundFinite, OthersListed
<1>2. GetContext = (IF bound[""] # 0 THEN <<Pair("")>> ELSE <<>>) \o s
  BY DEF GetContext, BoundTo, Pair
<1>3. "" \in NsPrefixes /\ "" \notin P
  BY ContentAssumption DEF BoundTo
<1> HIDE DEF s, others
<1>4. CASE bound[""] # 0
  <2>1. All = P \cup {""}
    BY <1>3, <1>4 DEF BoundTo
  <2> HIDE DEF P, All
  <2>2. Listing(<<Pair("")>> \o s, P \cup {""})
    BY <1>1, <1>3, FrontListed
  <2> QED  BY <1>2, <1>4, <2>1, <2>2 DEF All
<1>5. CASE bound[""] = 0
  <2>1. All = P
    BY <1>5 DEF BoundTo
  <2>2. <<>> \o s = s
    <3>1. s \in Seq(ToSet(s))
      BY <1>1 DEF Listing, IsSeq
    <3> QED  BY <3>1, ConcatEmptySeq
  <2>3. GetContext = s
    BY <1>2, <1>5, <2>2
  <2> QED  BY <1>1, <2>1, <2>3
<1> QED  BY <1>4, <1>5

(* The second part of ScopesKept.                                          *)
LEMMA PassedInScope ==
  ASSUME ContentInv, ScopeInv, Between
  PROVE  LET b == SetContext(GetContext) IN
         \A p \in NsPrefixes : (IF b.bound[p] = 0 THEN "" ELSE b.cells[b.bound[p]].uri) = InScope(tags, p)
<1> DEFINE C == GetContext
           P == {p \in NsPrefixes : bound[p] # 0}
<1>1. error = "NONE"
  BY DEF Between
<1>2. Listing(C, P)
  BY <1>1, ContextListed
<1> HIDE DEF C
<1>3. \A p \in P : cells[bound[p]].uri \in Uris
  <2> TAKE p \in P
  <2>1. bound[p] \in Below(Held, Depth + 1)
    BY <1>1, BoundCell
  <2> QED  BY <1>1, <2>1 DEF ContentInv, Bindings
<1>4. \A p : Pair(p)[1] = p /\ Pair(p)[2] = cells[bound[p]].uri
  BY DEF Pair
<1>5. IsContext(C)
  <2>1. Len(C) \in Nat /\ \A i \in 1 .. Len(C) : \E p \in P : C[i] = Pair(p)
    BY <1>2 DEF Listing
  <2>2. \A i \in 1 .. Len(C) : C[i][1] \in NsPrefixes /\ C[i][2] \in Uris
    <3> TAKE i \in 1 .. Len(C)
    <3>1. PICK p \in P : C[i] = Pair(p)
      BY <2>1
    <3> QED  BY <1>3, <1>4, <3>1
  <2> QED  BY <2>1, <2>2 DEF IsContext
<1>6. Each(C)
  BY <1>2 DEF Listing, Each
<1> DEFINE b == SetContext(C)
<1>7. /\ \A j \in 1 .. Len(C) : Meaning(b, C[j][1]) = C[j][2]
      /\ \A p \in NsPrefixes : (\A j \in 1 .. Len(C) : C[j][1] # p) => Meaning(b, p) = ""
  BY <1>5, <1>6, ContextMeans
<1> HIDE DEF b
<1>8. ASSUME NEW p \in NsPrefixes PROVE Meaning(b, p) = InScope(tags, p)
  <2>1. (IF bound[p] = 0 THEN "" ELSE cells[bound[p]].uri) = InScope(tags, p)
    BY MeansInScope
  <2>2. CASE bound[p] # 0
    <3>1. p \in P /\ \A q \in P : \E i \in 1 .. Len(C) : C[i] = Pair(q)
      BY <1>2, <2>2 DEF Listing
    <3>2. PICK i \in 1 .. Len(C) : C[i] = Pair(p)
      BY <3>1
    <3>3. Meaning(b, C[i][1]) = C[i][2]
      BY <1>7
    <3>4. C[i][1] = p /\ C[i][2] = cells[bound[p]].uri
      BY <1>4, <3>2
    <3> QED  BY <2>1, <2>2, <3>3, <3>4
  <2>3. CASE bound[p] = 0
    <3>1. \A j \in 1 .. Len(C) : C[j][1] # p
      BY <1>2, <1>4, <2>3 DEF Listing
    <3> QED  BY <1>7, <2>1, <2>3, <3>1
  <2> QED  BY <2>2, <2>3
<1> HIDE DEF InScope
<1> QED  BY <1>8 DEF Meaning, b, C

-----------------------------------------------------------------------------
(* Prefixes mean the same by the chains of bindings as by the open tags,   *)
(* between any two tokens, and the context given for an external entity    *)
(* makes them mean the same there (addBinding, doContent, freeBindings,    *)
(* getContext, setContext): for any tags, defaults, contexts and depth.    *)
THEOREM ScopesKeptHolds == Spec => []ScopesKept
<1>1. ContentInv /\ ScopeInv => PrefixesScoped
  BY MeansInScope DEF PrefixesScoped
<1>2. ContentInv /\ ScopeInv => ContextPassed
  BY PassedInScope DEF ContextPassed
<1>3. ContentInv /\ ScopeInv => ScopesKept
  BY <1>1, <1>2 DEF ScopesKept
<1> QED  BY ScopesInductive, <1>3, PTL
=============================================================================
