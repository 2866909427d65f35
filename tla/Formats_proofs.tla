--------------------------- MODULE Formats_proofs ---------------------------
(***************************************************************************)
(* What the program writes for another program, or for itself, to read.    *)
(*                                                                         *)
(* The cache file: for any feeds, limits, characters and properties, a     *)
(* cache that was written is read as the feed it was written from, and a   *)
(* torn one never is.                                                      *)
(* The dates: the algorithm of datetime.zig agrees with the calendar,      *)
(* along every walk, for every choice of Starts and WalkYears.             *)
(***************************************************************************)
EXTENDS CacheFile, DateTime, WellFoundedInduction, SequenceTheorems, FiniteSetTheorems, TLAPS

-----------------------------------------------------------------------------
(* Induction.                                                              *)
(* A set of numbers that is not empty has a least element.                 *)
LEMMA Least ==
  ASSUME NEW T, T \in SUBSET Nat, T # {}
  PROVE  \E n \in T : \A m \in T : n <= m
<1> DEFINE R == OpToRel(<, Nat)
<1>1. IsWellFoundedOn(R, Nat)
  BY NatLessThanWellFounded
<1>2. \A x, y \in Nat : y < x => <<y, x>> \in R
  BY Zenon DEF OpToRel
<1> HIDE DEF R
<1>3. \E x \in T : \A y \in T : ~ (<<y, x>> \in R)
  BY <1>1, WFMin
<1>4. PICK x \in T : \A y \in T : ~ (<<y, x>> \in R)
  BY <1>3
<1>5. ASSUME NEW y \in T PROVE x <= y
  <2>1. x \in Nat /\ y \in Nat
    OBVIOUS
  <2>2. ~(y < x)
    BY <1>2, <1>4, <2>1
  <2> QED  BY <2>1, <2>2
<1> QED  BY <1>5

(* Induction, for a set.                                                   *)
LEMMA Induct ==
  ASSUME NEW S, 0 \in S, \A n \in Nat : n \in S => n + 1 \in S
  PROVE  Nat \subseteq S
<1> SUFFICES ASSUME ~ (Nat \subseteq S) PROVE FALSE
  OBVIOUS
<1> DEFINE T == Nat \ S
<1>1. T \in SUBSET Nat /\ T # {}
  OBVIOUS
<1>2. PICK n \in T : \A m \in T : n <= m
  BY <1>1, Least
<1>3. n # 0 /\ n - 1 \in Nat
  BY <1>2
<1>4. n - 1 \in S
  BY <1>2, <1>3
<1> QED  BY <1>2, <1>3, <1>4

-----------------------------------------------------------------------------
(* Sequences of words.                                                     *)
LEMMA Joined ==
  ASSUME NEW W, NEW a \in Seq(W), NEW b \in Seq(W)
  PROVE  /\ a \o b \in Seq(W) /\ Len(a \o b) = Len(a) + Len(b)
         /\ \A i \in 1 .. Len(a) : (a \o b)[i] = a[i]
         /\ \A i \in 1 .. Len(b) : (a \o b)[Len(a) + i] = b[i]
         /\ a \o <<>> = a /\ <<>> \o a = a
<1>1. Len(a) \in Nat /\ Len(b) \in Nat
  BY LenProperties
<1>2. \A i \in 1 .. Len(a) + Len(b) : (a \o b)[i] = IF i <= Len(a) THEN a[i] ELSE b[i - Len(a)]
  BY ConcatProperties
<1>3. a \o b \in Seq(W) /\ Len(a \o b) = Len(a) + Len(b)
  BY ConcatProperties
<1>4. \A i \in 1 .. Len(a) : (a \o b)[i] = a[i]
  BY <1>1, <1>2
<1>5. \A i \in 1 .. Len(b) : (a \o b)[Len(a) + i] = b[i]
  <2> TAKE i \in 1 .. Len(b)
  <2>1. Len(a) + i \in 1 .. Len(a) + Len(b) /\ ~(Len(a) + i <= Len(a)) /\ Len(a) + i - Len(a) = i
    BY <1>1
  <2> QED  BY <1>2, <2>1
<1>6. a \o <<>> = a /\ <<>> \o a = a
  BY ConcatEmptySeq
<1> QED  BY <1>3, <1>4, <1>5, <1>6

(* Sequences are equal that have the same length and elements.             *)
LEMMA SameSeq ==
  ASSUME NEW W, NEW a \in Seq(W), NEW b \in Seq(W), Len(a) = Len(b), \A i \in 1 .. Len(a) : a[i] = b[i]
  PROVE  a = b
  BY SeqEqual

Associates(a, b, c) == (a \o b) \o c = a \o (b \o c)
LEMMA Assoc ==
  ASSUME NEW W, NEW a \in Seq(W), NEW b \in Seq(W), NEW c \in Seq(W)
  PROVE  Associates(a, b, c)
  BY ConcatAssociative DEF Associates

(* What follows the same beginning is the same.                            *)
LEMMA Cancel ==
  ASSUME NEW W, NEW a \in Seq(W), NEW b \in Seq(W), NEW c \in Seq(W), a \o b = a \o c
  PROVE  b = c
<1>1. Len(a) \in Nat /\ Len(b) \in Nat /\ Len(c) \in Nat
  BY LenProperties
<1>2. Len(b) = Len(c)
  BY <1>1, Joined
<1>3. \A i \in 1 .. Len(b) : b[i] = (a \o b)[Len(a) + i] /\ c[i] = (a \o c)[Len(a) + i]
  BY <1>2, Joined
<1> QED  BY <1>2, <1>3, SameSeq

(* Beginnings of the same length of one sequence are the same.             *)
LEMMA Begins ==
  ASSUME NEW W, NEW a \in Seq(W), NEW b \in Seq(W), NEW c \in Seq(W), NEW d \in Seq(W),
         Len(a) = Len(b), a \o c = b \o d
  PROVE  a = b /\ c = d
<1>1. \A i \in 1 .. Len(a) : (a \o c)[i] = a[i] /\ (b \o d)[i] = b[i]
  BY Joined
<1>2. a = b
  BY <1>1, SameSeq
<1> QED  BY <1>2, Cancel

(* The first word of what is ahead.                                        *)
OneTaken(W, n, ahead, lost, rest) ==
  /\ ahead = <<>> => lost # <<>>
  /\ ahead # <<>> => Head(ahead) = n /\ Tail(ahead) \in Seq(W) /\ Tail(ahead) \o lost = rest
LEMMA TakesOne ==
  ASSUME NEW W, NEW n \in W, NEW ahead \in Seq(W), NEW lost \in Seq(W), NEW rest \in Seq(W),
         ahead \o lost = <<n>> \o rest
  PROVE  OneTaken(W, n, ahead, lost, rest)
<1>1. <<n>> \in Seq(W) /\ Len(<<n>>) = 1 /\ <<n>>[1] = n
  OBVIOUS
<1>2. Len(rest) \in Nat /\ Len(<<n>> \o rest) = 1 + Len(rest) /\ (<<n>> \o rest)[1] = n
  BY <1>1, LenProperties, Joined
<1>3. ASSUME ahead = <<>>, lost = <<>> PROVE FALSE
  <2>1. ahead \o lost = <<>> /\ Len(<<>>) = 0
    BY <1>3, Joined
  <2> QED  BY <1>2, <2>1
<1>4. ASSUME ahead # <<>> PROVE Head(ahead) = n /\ Tail(ahead) \in Seq(W) /\ Tail(ahead) \o lost = rest
  <2>1. /\ Head(ahead) \in W /\ Tail(ahead) \in Seq(W)
        /\ ahead = <<Head(ahead)>> \o Tail(ahead)
    BY <1>4, HeadTailProperties, HeadTailAppend
  <2> DEFINE h == Head(ahead)
             t == Tail(ahead)
  <2> HIDE DEF h, t
  <2>2. h \in W /\ t \in Seq(W) /\ ahead = <<h>> \o t
    BY <2>1 DEF h, t
  <2>3. <<h>> \in Seq(W) /\ Len(<<h>>) = 1 /\ <<h>>[1] = h
    BY <2>2
  <2>4. ahead \o lost = <<h>> \o (t \o lost) /\ t \o lost \in Seq(W)
    <3>1. t \o lost \in Seq(W)
      BY <2>2, Joined
    <3>2. Associates(<<h>>, t, lost)
      BY <2>2, <2>3, Assoc
    <3> QED  BY <2>2, <3>1, <3>2 DEF Associates
  <2>5. (<<h>> \o (t \o lost))[1] = h
    BY <2>3, <2>4, Joined
  <2>6. h = n
    BY <1>2, <2>4, <2>5
  <2>7. t \o lost = rest
    BY <1>1, <2>4, <2>6, Cancel
  <2> QED  BY <2>2, <2>6, <2>7 DEF h, t
<1> QED  BY <1>3, <1>4 DEF OneTaken

(* A sequence is cut in two.                                               *)
IsCut(W, s, m) ==
  \E f, t \in Seq(W) :
    /\ f = SubSeq(s, 1, m) /\ t = SubSeq(s, m + 1, Len(s))
    /\ s = f \o t /\ Len(f) = m /\ Len(t) = Len(s) - m
LEMMA Cut ==
  ASSUME NEW W, NEW s \in Seq(W), NEW m \in 0 .. Len(s)
  PROVE  IsCut(W, s, m)
<1>1. Len(s) \in Nat /\ m \in Nat /\ m <= Len(s)
  BY LenProperties
<1>2. PICK f : f = SubSeq(s, 1, m)
  OBVIOUS
<1>3. PICK t : t = SubSeq(s, m + 1, Len(s))
  OBVIOUS
<1>4. f \in Seq(W) /\ Len(f) = m /\ \A i \in 1..m : f[i] = s[i]
  BY <1>1, <1>2, SubSeqProperties
<1>5. t \in Seq(W) /\ Len(t) = Len(s) - m /\ \A i \in 1 .. Len(t) : t[i] = s[m + i]
  BY <1>1, <1>3, SubSeqProperties
<1>6. PICK c : c = f \o t
  OBVIOUS
<1>7. /\ c \in Seq(W) /\ Len(c) = Len(f) + Len(t)
      /\ \A i \in 1 .. Len(f) : c[i] = f[i]
      /\ \A i \in 1 .. Len(t) : c[Len(f) + i] = t[i]
  BY <1>4, <1>5, <1>6, Joined
<1>8. Len(c) = Len(s)
  BY <1>1, <1>4, <1>5, <1>7
<1>9. \A i \in 1 .. Len(s) : s[i] = c[i]
  <2> TAKE i \in 1 .. Len(s)
  <2>1. CASE i <= m
    BY <1>1, <1>4, <1>7, <2>1
  <2>2. CASE i > m
    <3>1. i - m \in 1 .. Len(t) /\ m + (i - m) = i
      BY <1>1, <1>5, <2>2
    <3>2. c[m + (i - m)] = t[i - m] /\ t[i - m] = s[m + (i - m)]
      BY <1>4, <1>5, <1>7, <3>1
    <3> QED  BY <3>1, <3>2
  <2> QED  BY <1>1, <2>1, <2>2
<1>10. s = c
  BY <1>7, <1>8, <1>9, SameSeq
<1> QED  BY <1>2, <1>3, <1>4, <1>5, <1>6, <1>10 DEF IsCut

(* As many words as a value has.                                           *)
SomeTaken(W, v, ahead, lost, rest) ==
  /\ Len(v) > Len(ahead) => lost # <<>>
  /\ Len(v) <= Len(ahead) =>
       /\ SubSeq(ahead, 1, Len(v)) = v
       /\ SubSeq(ahead, Len(v) + 1, Len(ahead)) \in Seq(W)
       /\ SubSeq(ahead, Len(v) + 1, Len(ahead)) \o lost = rest
LEMMA TakesSome ==
  ASSUME NEW W, NEW v \in Seq(W), NEW ahead \in Seq(W), NEW lost \in Seq(W), NEW rest \in Seq(W)
  PROVE  ahead \o lost = v \o rest => SomeTaken(W, v, ahead, lost, rest)
<1>1. Len(v) \in Nat /\ Len(ahead) \in Nat /\ Len(lost) \in Nat /\ Len(rest) \in Nat
  BY LenProperties
<1>2. Len(ahead \o lost) = Len(ahead) + Len(lost) /\ Len(v \o rest) = Len(v) + Len(rest)
  BY Joined
<1>3. ASSUME ahead \o lost = v \o rest, Len(v) > Len(ahead) PROVE lost # <<>>
  <2>1. Len(lost) > 0
    BY <1>1, <1>2, <1>3
  <2> QED  BY <2>1
<1>4. ASSUME ahead \o lost = v \o rest, Len(v) <= Len(ahead)
      PROVE  /\ SubSeq(ahead, 1, Len(v)) = v
             /\ SubSeq(ahead, Len(v) + 1, Len(ahead)) \in Seq(W)
             /\ SubSeq(ahead, Len(v) + 1, Len(ahead)) \o lost = rest
  <2>1. Len(v) \in 0 .. Len(ahead)
    BY <1>1, <1>4
  <2>0. IsCut(W, ahead, Len(v))
    BY <2>1, Cut
  <2>2. PICK f \in Seq(W), t \in Seq(W) :
          /\ f = SubSeq(ahead, 1, Len(v)) /\ t = SubSeq(ahead, Len(v) + 1, Len(ahead))
          /\ ahead = f \o t /\ Len(f) = Len(v) /\ Len(t) = Len(ahead) - Len(v)
    BY <2>0 DEF IsCut
  <2>3. t \o lost \in Seq(W)
    BY Joined
  <2>4. Associates(f, t, lost)
    BY Assoc
  <2>5. PICK u : u = t \o lost
    OBVIOUS
  <2>6. u \in Seq(W) /\ f \o u = v \o rest /\ Len(f) = Len(v)
    BY <1>4, <2>2, <2>3, <2>4, <2>5 DEF Associates
  <2>7. f = v /\ u = rest
    BY <2>6, Begins
  <2> QED  BY <2>2, <2>5, <2>7
<1> QED  BY <1>1, <1>3, <1>4 DEF SomeTaken

-----------------------------------------------------------------------------
(* Reading.  What is ahead of a reader begins with what was written: words *)
(* that were lost with the rest of the file may be missing at the end.     *)
Ahead(r, words, rest, lost) == r.ahead \o lost = words \o rest
IsReader(r) ==
  /\ DOMAIN r = {"ahead", "error", "num", "text", "props", "items", "channels"}
  /\ r.ahead \in Seq(Word)
Refusals == {"panic", "TooManyItems", "TooManyChannels"}
(* A reader s has read what it had to, or the words ran out, or they do    *)
(* not fit the limits.                                                     *)
Outcome(s, rest, lost, fits) ==
  /\ IsReader(s)
  /\ \/ s.error = "EndOfStream" /\ lost # <<>>
     \/ s.error \in Refusals /\ ~fits
     \/ s.error = "none" /\ fits /\ s.ahead \o lost = rest
SameFeed(r, s) == s.items = r.items /\ s.channels = r.channels

(* What is written first is read first.                                    *)
LEMMA AheadSplits ==
  ASSUME NEW r, NEW a \in Seq(Word), NEW b \in Seq(Word), NEW rest \in Seq(Word), NEW lost \in Seq(Word),
         Ahead(r, a \o b, rest, lost)
  PROVE  Ahead(r, a, b \o rest, lost) /\ b \o rest \in Seq(Word)
<1>1. Associates(a, b, rest)
  BY Assoc
<1>2. b \o rest \in Seq(Word)
  BY Joined
<1> QED  BY <1>1, <1>2 DEF Ahead, Associates

LEMMA OutcomeAhead ==
  ASSUME NEW s, NEW a, NEW rest, NEW lost, NEW fits, Outcome(s, a \o rest, lost, fits), s.error = "none"
  PROVE  IsReader(s) /\ fits /\ Ahead(s, a, rest, lost)
  BY DEF Outcome, Ahead, Refusals

(* An error of one step is the error of the whole.                         *)
LEMMA OutcomeStops ==
  ASSUME NEW s, NEW rest, NEW lost, NEW fits, NEW rest2, NEW fits2,
         Outcome(s, rest, lost, fits), s.error # "none", fits2 => fits
  PROVE  Outcome(s, rest2, lost, fits2)
  BY DEF Outcome

(* A number.                                                               *)
IntTaken(r, s, n, rest, lost) ==
  /\ Outcome(s, rest, lost, TRUE)
  /\ s.error = "none" => s.num = n /\ s.props = r.props /\ SameFeed(r, s)
LEMMA IntRead ==
  ASSUME NEW r, IsReader(r), r.error = "none",
         NEW n \in Word, NEW rest \in Seq(Word), NEW lost \in Seq(Word), Ahead(r, <<n>>, rest, lost)
  PROVE  IntTaken(r, TakeInt(r), n, rest, lost)
<1> DEFINE s == TakeInt(r)
<1>1. ~Stopped(r) /\ r.ahead \in Seq(Word)
  BY DEF Stopped, IsReader
<1>a. r.ahead \o lost = <<n>> \o rest
  BY DEF Ahead
<1>b. OneTaken(Word, n, r.ahead, lost, rest)
  BY <1>1, <1>a, TakesOne
<1>2. /\ r.ahead = <<>> => lost # <<>>
      /\ r.ahead # <<>> => Head(r.ahead) = n /\ Tail(r.ahead) \in Seq(Word) /\ Tail(r.ahead) \o lost = rest
  BY <1>b DEF OneTaken
<1>3. CASE r.ahead = <<>>
  <2>1. s = [r EXCEPT !.error = "EndOfStream"]
    BY <1>1, <1>3 DEF TakeInt, Stop
  <2>2. IsReader(s) /\ s.error = "EndOfStream"
    BY <2>1 DEF IsReader
  <2> QED  BY <1>2, <1>3, <2>2 DEF IntTaken, Outcome
<1>4. CASE r.ahead # <<>>
  <2>1. s = [r EXCEPT !.num = Head(r.ahead), !.ahead = Tail(r.ahead)]
    BY <1>1, <1>4 DEF TakeInt
  <2>2. /\ DOMAIN s = DOMAIN r /\ s.num = Head(r.ahead) /\ s.ahead = Tail(r.ahead)
        /\ s.error = r.error /\ s.props = r.props /\ s.items = r.items /\ s.channels = r.channels
    BY <2>1 DEF IsReader
  <2> HIDE DEF s
  <2>3. s.ahead \in Seq(Word) /\ s.ahead \o lost = rest /\ s.num = n
    BY <1>2, <1>4, <2>2
  <2>4. IsReader(s)
    BY <2>2, <2>3 DEF IsReader
  <2>5. Outcome(s, rest, lost, TRUE)
    BY <2>2, <2>3, <2>4 DEF Outcome
  <2> QED  BY <2>2, <2>3, <2>5 DEF IntTaken, SameFeed, s
<1> QED  BY <1>3, <1>4

(* The characters of a value.                                              *)
TextTaken(r, s, v, rest, lost) ==
  /\ Outcome(s, rest, lost, Len(v) <= BufLen)
  /\ s.error = "none" => s.text = v /\ s.props = r.props /\ SameFeed(r, s)
LEMMA TextRead ==
  ASSUME NEW r, IsReader(r), r.error = "none",
         NEW v \in Seq(Word), NEW rest \in Seq(Word), NEW lost \in Seq(Word), Ahead(r, v, rest, lost), r.num = Len(v)
  PROVE  TextTaken(r, Take(r), v, rest, lost)
<1> DEFINE s == Take(r)
           a == r.ahead
<1>1. ~Stopped(r) /\ a \in Seq(Word)
  BY DEF Stopped, IsReader
<1>2. Len(v) \in Nat /\ Len(a) \in Nat /\ BufLen \in Nat
  BY <1>1, LenProperties, CacheAssumption
<1>a. a \o lost = v \o rest
  BY DEF Ahead
<1>b. SomeTaken(Word, v, a, lost, rest)
  BY <1>1, <1>a, TakesSome
<1>3. /\ Len(v) > Len(a) => lost # <<>>
      /\ Len(v) <= Len(a) =>
           /\ SubSeq(a, 1, Len(v)) = v
           /\ SubSeq(a, Len(v) + 1, Len(a)) \in Seq(Word)
           /\ SubSeq(a, Len(v) + 1, Len(a)) \o lost = rest
  BY <1>b DEF SomeTaken
<1>4. CASE Len(v) > BufLen
  <2>1. s = [r EXCEPT !.error = "panic"]
    BY <1>1, <1>4 DEF Take, Stop
  <2>2. IsReader(s) /\ s.error = "panic"
    BY <2>1 DEF IsReader
  <2>3. ~(Len(v) <= BufLen)
    BY <1>2, <1>4
  <2> QED  BY <2>2, <2>3 DEF TextTaken, Outcome, Refusals
<1>5. CASE ~(Len(v) > BufLen) /\ Len(v) > Len(a)
  <2>1. s = [r EXCEPT !.error = "EndOfStream"]
    BY <1>1, <1>5 DEF Take, Stop
  <2>2. IsReader(s) /\ s.error = "EndOfStream"
    BY <2>1 DEF IsReader
  <2> QED  BY <1>3, <1>5, <2>2 DEF TextTaken, Outcome
<1>6. CASE ~(Len(v) > BufLen) /\ ~(Len(v) > Len(a))
  <2>1. s = [r EXCEPT !.text = SubSeq(a, 1, Len(v)), !.ahead = SubSeq(a, Len(v) + 1, Len(a))]
    BY <1>1, <1>6 DEF Take
  <2>2. Len(v) <= Len(a) /\ Len(v) <= BufLen
    BY <1>2, <1>6
  <2>3. PICK f, t : f = SubSeq(a, 1, Len(v)) /\ t = SubSeq(a, Len(v) + 1, Len(a))
    OBVIOUS
  <2>4. f = v /\ t \in Seq(Word) /\ t \o lost = rest
    BY <1>3, <2>2, <2>3
  <2>5. s = [r EXCEPT !.text = f, !.ahead = t]
    BY <2>1, <2>3
  <2>6. /\ DOMAIN s = DOMAIN r /\ s.text = f /\ s.ahead = t
        /\ s.error = r.error /\ s.props = r.props /\ s.items = r.items /\ s.channels = r.channels
    BY <2>5 DEF IsReader
  <2> HIDE DEF s
  <2>7. s.ahead \in Seq(Word) /\ s.ahead \o lost = rest /\ s.text = v
    BY <2>4, <2>6
  <2>8. IsReader(s)
    BY <2>6, <2>7 DEF IsReader
  <2>9. Outcome(s, rest, lost, Len(v) <= BufLen)
    BY <2>2, <2>6, <2>7, <2>8 DEF Outcome
  <2> QED  BY <2>6, <2>7, <2>9 DEF TextTaken, SameFeed, s
<1> QED  BY <1>4, <1>5, <1>6

(* A value.                                                                *)
Value == Text \cup {Null}
FitsValue(v) == v # Null => Len(v) <= BufLen
LEMMA ValueEncoded ==
  ASSUME NEW v \in Value
  PROVE  /\ EncodeValue(v) \in Seq(Word)
         /\ v # Null => v \in Seq(Word) /\ Len(v) \in Nat /\ <<Len(v)>> \in Seq(Word)
         /\ Stored(v) = Null => EncodeValue(v) = <<0>> /\ FitsValue(v)
         /\ Stored(v) # Null => v # Null /\ Stored(v) = v /\ Len(v) # 0 /\ EncodeValue(v) = <<Len(v)>> \o v
<1>1. <<0>> \in Seq(Word)
  BY DEF Word
<1>2. CASE v = Null
  <2>1. <<>> \in Text
    BY DEF Text
  <2>2. v # <<>>
    BY <1>2, <2>1, NullAssumption
  <2> QED  BY <1>1, <1>2, <2>2 DEF EncodeValue, Stored, FitsValue
<1>3. CASE v # Null
  <2>1. v \in Seq(Char)
    BY <1>3 DEF Value, Text
  <2>2. v \in Seq(Word)
    BY <2>1 DEF Word
  <2>3. Len(v) \in Nat /\ <<Len(v)>> \in Seq(Word)
    BY <2>1, LenProperties DEF Word
  <2>4. EncodeValue(v) = <<Len(v)>> \o v
    BY <1>3 DEF EncodeValue
  <2>5. EncodeValue(v) \in Seq(Word)
    BY <2>2, <2>3, <2>4, Joined
  <2>6. CASE v = <<>>
    <3>1. Len(v) = 0 /\ <<Len(v)>> \o v = <<Len(v)>>
      BY <2>2, <2>3, <2>6, Joined
    <3>2. FitsValue(v)
      BY <3>1, CacheAssumption DEF FitsValue
    <3> QED  BY <1>3, <2>2, <2>3, <2>4, <2>5, <2>6, <3>1, <3>2 DEF Stored
  <2>7. CASE v # <<>>
    <3>1. Len(v) # 0
      BY <2>1, <2>7, EmptySeq
    <3> QED  BY <1>3, <2>2, <2>3, <2>4, <2>5, <2>7, <3>1 DEF Stored
  <2> QED  BY <2>6, <2>7
<1> QED  BY <1>2, <1>3

(* A property.                                                             *)
PropTaken(r, s, p, v, rest, lost) ==
  /\ Outcome(s, rest, lost, FitsValue(v))
  /\ s.error = "none" => s.props = [r.props EXCEPT ![p] = Stored(v)] /\ SameFeed(r, s)
LEMMA PropRead ==
  ASSUME NEW r, IsReader(r), r.error = "none", NEW P, NEW p \in P, r.props \in [P -> Value], r.props[p] = Null,
         NEW v \in Value, NEW rest \in Seq(Word), NEW lost \in Seq(Word), Ahead(r, EncodeValue(v), rest, lost)
  PROVE  PropTaken(r, ReadProp(r, p), p, v, rest, lost)
<1> DEFINE len == TakeInt(r)
           data == Take(len)
           s == ReadProp(r, p)
<1>1. s = IF Stopped(len) \/ len.num = 0 THEN len
          ELSE IF Stopped(data) THEN data ELSE [data EXCEPT !.props[p] = data.text]
  BY DEF ReadProp
<1>2. CASE Stored(v) = Null
  <2>1. EncodeValue(v) = <<0>> /\ FitsValue(v) /\ 0 \in Word
    BY <1>2, ValueEncoded DEF Word
  <2>2. IntTaken(r, len, 0, rest, lost)
    BY <2>1, IntRead
  <2> HIDE DEF len, data
  <2>3. Stopped(len) \/ len.num = 0
    BY <2>2 DEF IntTaken, Stopped
  <2>4. s = len
    BY <1>1, <2>3
  <2>5. [r.props EXCEPT ![p] = Null] = r.props
    OBVIOUS
  <2>6. Outcome(s, rest, lost, FitsValue(v))
    BY <2>1, <2>2, <2>4 DEF IntTaken, Outcome
  <2> HIDE DEF s
  <2> QED  BY <1>2, <2>2, <2>4, <2>5, <2>6 DEF IntTaken, PropTaken, s
<1>3. CASE Stored(v) # Null
  <2>1. /\ v # Null /\ Stored(v) = v /\ Len(v) # 0 /\ EncodeValue(v) = <<Len(v)>> \o v
        /\ v \in Seq(Word) /\ Len(v) \in Word /\ <<Len(v)>> \in Seq(Word)
    BY <1>3, ValueEncoded DEF Word
  <2>2. Ahead(r, <<Len(v)>>, v \o rest, lost) /\ v \o rest \in Seq(Word)
    <3>1. Ahead(r, <<Len(v)>> \o v, rest, lost)
      BY <2>1
    <3> QED  BY <2>1, <3>1, AheadSplits
  <2>3. IntTaken(r, len, Len(v), v \o rest, lost)
    BY <2>1, <2>2, IntRead
  <2> HIDE DEF len
  <2>4. FitsValue(v) <=> Len(v) <= BufLen
    BY <2>1 DEF FitsValue
  <2>5. CASE len.error # "none"
    <3>1. s = len
      BY <1>1, <2>5 DEF Stopped
    <3>2. Outcome(len, v \o rest, lost, TRUE)
      BY <2>3 DEF IntTaken
    <3>3. Outcome(len, rest, lost, FitsValue(v))
      BY <2>5, <3>2, OutcomeStops
    <3> HIDE DEF s
    <3> QED  BY <2>5, <3>1, <3>3 DEF PropTaken, s
  <2>6. CASE len.error = "none"
    <3>1. len.num = Len(v) /\ len.props = r.props /\ SameFeed(r, len)
      BY <2>3, <2>6 DEF IntTaken
    <3>2. IsReader(len) /\ Ahead(len, v, rest, lost)
      BY <2>3, <2>6, OutcomeAhead DEF IntTaken
    <3>3. TextTaken(len, data, v, rest, lost)
      BY <2>1, <2>6, <3>1, <3>2, TextRead
    <3> HIDE DEF data
    <3>4. Outcome(data, rest, lost, FitsValue(v))
      BY <2>4, <3>3 DEF TextTaken, Outcome
    <3>5. CASE data.error # "none"
      <4>1. s = data
        BY <1>1, <2>1, <2>6, <3>1, <3>5 DEF Stopped
      <4> HIDE DEF s
      <4> QED  BY <3>4, <3>5, <4>1 DEF PropTaken, s
    <3>6. CASE data.error = "none"
      <4>1. s = [data EXCEPT !.props[p] = data.text]
        BY <1>1, <2>1, <2>6, <3>1, <3>6 DEF Stopped
      <4>2. data.text = v /\ data.props = r.props /\ SameFeed(r, data)
        BY <3>1, <3>3, <3>6 DEF TextTaken, SameFeed
      <4>3. DOMAIN data = {"ahead", "error", "num", "text", "props", "items", "channels"} /\ data.ahead \in Seq(Word)
        BY <3>4 DEF Outcome, IsReader
      <4> HIDE DEF s
      <4>4. /\ DOMAIN s = DOMAIN data /\ s.ahead = data.ahead /\ s.error = data.error
            /\ s.items = data.items /\ s.channels = data.channels
            /\ s.props = [data.props EXCEPT ![p] = data.text]
        BY <4>1, <4>3
      <4>5. Outcome(s, rest, lost, FitsValue(v))
        BY <3>4, <4>4 DEF Outcome, IsReader
      <4> QED  BY <2>1, <4>2, <4>4, <4>5 DEF PropTaken, SameFeed, s
    <3> QED  BY <3>5, <3>6
  <2> QED  BY <2>5, <2>6
<1> QED  BY <1>2, <1>3

(* Nothing is read once a reader has stopped.                              *)
LEMMA StoppedStays ==
  ASSUME NEW r, Stopped(r), NEW p
  PROVE  TakeInt(r) = r /\ ReadProp(r, p) = r
  BY DEF TakeInt, ReadProp

-----------------------------------------------------------------------------
(* Loops.  Each goes on from what it had before: the three of Data.read    *)
(* and the concatenation of Data.write have one form.                      *)
Step(kind, x, before, i) ==
  IF kind = "property" THEN ReadProp(before, x[i])
  ELSE IF kind = "item" THEN ReadItem(before)
  ELSE IF kind = "channel" THEN ReadChannel(before)
  ELSE before \o x[i]
Loop(g, kind, x, base, a, n) == g = [i \in a..n |-> IF i = a THEN base ELSE Step(kind, x, g[i - 1], i)]

(* There is such a function, as long as one likes.                         *)
LEMMA LoopExists ==
  ASSUME NEW kind, NEW x, NEW base, NEW a \in {0, 1}
  PROVE  \A n \in Nat : \E g : Loop(g, kind, x, base, a, n)
<1> DEFINE T == {n \in Nat : \E g : Loop(g, kind, x, base, a, n)}
<1>1. 0 \in T
  <2> DEFINE g == [i \in a..0 |-> base]
  <2>1. \A i \in a..0 : i = a
    OBVIOUS
  <2>2. g = [i \in a..0 |-> IF i = a THEN base ELSE Step(kind, x, g[i - 1], i)]
    BY <2>1, Zenon
  <2>3. Loop(g, kind, x, base, a, 0)
    BY <2>2 DEF Loop
  <2> QED  BY <2>3
<1>2. ASSUME NEW k \in Nat, k \in T PROVE k + 1 \in T
  <2>1. PICK g : Loop(g, kind, x, base, a, k)
    BY <1>2
  <2> DEFINE final == IF k + 1 = a THEN base ELSE Step(kind, x, g[k], k + 1)
  <2> HIDE DEF final
  <2> DEFINE G == [i \in a .. k + 1 |-> IF i = k + 1 THEN final ELSE g[i]]
  <2>2. /\ DOMAIN G = a .. k + 1 /\ G[k + 1] = final
        /\ \A i \in a..k : G[i] = g[i]
    OBVIOUS
  <2>3. (k + 1) - 1 = k /\ (k + 1 # a => k \in a..k)
    OBVIOUS
  <2>4. \A i \in a .. k + 1 : i # k + 1 => i \in a..k /\ (i # a => i - 1 \in a..k)
    OBVIOUS
  <2>5. \A i \in a..k : g[i] = IF i = a THEN base ELSE Step(kind, x, g[i - 1], i)
    BY <2>1, Zenon DEF Loop
  <2>6. G = [i \in a .. k + 1 |-> G[i]]
    OBVIOUS
  <2> HIDE DEF G
  <2>7. G[k + 1] = IF k + 1 = a THEN base ELSE Step(kind, x, G[(k + 1) - 1], k + 1)
    <3>1. CASE k + 1 = a
      BY <2>2, <3>1 DEF final
    <3>2. CASE k + 1 # a
      BY <2>2, <2>3, <3>2 DEF final
    <3> QED  BY <3>1, <3>2
  <2>8. ASSUME NEW i \in a .. k + 1, i # k + 1 PROVE G[i] = IF i = a THEN base ELSE Step(kind, x, G[i - 1], i)
    <3>1. i \in a..k /\ G[i] = g[i]
      BY <2>2, <2>4, <2>8
    <3>2. i # a => G[i - 1] = g[i - 1]
      BY <2>2, <2>4, <2>8
    <3> QED  BY <2>5, <3>1, <3>2
  <2>9. \A i \in a .. k + 1 : G[i] = IF i = a THEN base ELSE Step(kind, x, G[i - 1], i)
    BY <2>7, <2>8
  <2>10. Loop(G, kind, x, base, a, k + 1)
    BY <2>6, <2>9, Zenon DEF Loop
  <2> QED  BY <2>10
<1> HIDE DEF T
<1>3. Nat \subseteq T
  BY <1>1, <1>2, Induct
<1> QED  BY <1>3 DEF T

(* What such a function is.                                                *)
Steps(g, kind, x, base, a, n) ==
  /\ n >= a => g[a] = base
  /\ \A i \in a + 1 .. n : g[i] = Step(kind, x, g[i - 1], i)
LEMMA LoopSteps ==
  ASSUME NEW kind, NEW x, NEW base, NEW a \in {0, 1}, NEW n \in Nat
  PROVE  Steps(CHOOSE g : Loop(g, kind, x, base, a, n), kind, x, base, a, n)
<1>1. PICK g : g = CHOOSE f : Loop(f, kind, x, base, a, n)
  OBVIOUS
<1>2. Loop(g, kind, x, base, a, n)
  BY <1>1, LoopExists, Zenon
<1>3. \A i \in a..n : g[i] = IF i = a THEN base ELSE Step(kind, x, g[i - 1], i)
  BY <1>2, Zenon DEF Loop
<1>4. (n >= a => a \in a..n) /\ \A i \in a + 1 .. n : i \in a..n /\ i # a
  OBVIOUS
<1> QED  BY <1>1, <1>3, <1>4 DEF Steps

LEMMA PropsSteps ==
  ASSUME NEW r, NEW order, Len(order) \in Nat
  PROVE  \E g : /\ ReadProps(r, order) = g[Len(order)] /\ g[0] = r
                /\ \A i \in 1 .. Len(order) : g[i] = ReadProp(g[i - 1], order[i])
<1> DEFINE g == CHOOSE f : Loop(f, "property", order, r, 0, Len(order))
<1>1. Steps(g, "property", order, r, 0, Len(order))
  BY LoopSteps
<1>2. ReadProps(r, order) = g[Len(order)]
  BY DEF ReadProps, Loop, Step
<1> HIDE DEF g
<1>3. g[0] = r /\ \A i \in 1 .. Len(order) : g[i] = ReadProp(g[i - 1], order[i])
  BY <1>1 DEF Steps, Step
<1> QED  BY <1>2, <1>3

LEMMA ItemsSteps ==
  ASSUME NEW r, ~Stopped(r), r.num \in Nat
  PROVE  \E g : /\ ReadItems(r) = g[r.num] /\ g[0] = r
                /\ \A i \in 1 .. r.num : g[i] = ReadItem(g[i - 1])
<1> DEFINE g == CHOOSE f : Loop(f, "item", 0, r, 0, r.num)
<1>1. Steps(g, "item", 0, r, 0, r.num)
  BY LoopSteps
<1>2. ReadItems(r) = g[r.num]
  BY DEF ReadItems, Loop, Step
<1> HIDE DEF g
<1>3. g[0] = r /\ \A i \in 1 .. r.num : g[i] = ReadItem(g[i - 1])
  BY <1>1 DEF Steps, Step
<1> QED  BY <1>2, <1>3

LEMMA ChannelsSteps ==
  ASSUME NEW r, ~Stopped(r), r.num \in Nat
  PROVE  \E g : /\ ReadChannels(r) = g[r.num] /\ g[0] = r
                /\ \A i \in 1 .. r.num : g[i] = ReadChannel(g[i - 1])
<1> DEFINE g == CHOOSE f : Loop(f, "channel", 0, r, 0, r.num)
<1>1. Steps(g, "channel", 0, r, 0, r.num)
  BY LoopSteps
<1>2. ReadChannels(r) = g[r.num]
  BY DEF ReadChannels, Loop, Step
<1> HIDE DEF g
<1>3. g[0] = r /\ \A i \in 1 .. r.num : g[i] = ReadChannel(g[i - 1])
  BY <1>1 DEF Steps, Step
<1> QED  BY <1>2, <1>3

(* What is written for a list is written one element after the other.      *)
Parts(flat, seqs, W) ==
  /\ flat[0] = <<>> /\ flat[Len(seqs)] = FlattenSeq(seqs)
  /\ \A i \in 0 .. Len(seqs) : flat[i] \in Seq(W)
  /\ \A i \in 1 .. Len(seqs) : flat[i] = flat[i - 1] \o seqs[i]
LEMMA FlattenSteps ==
  ASSUME NEW W, NEW n \in Nat, NEW seqs \in [1..n -> Seq(W)]
  PROVE  Len(seqs) = n /\ \E flat : Parts(flat, seqs, W)
<1>1. seqs \in Seq(Seq(W)) /\ Len(seqs) = n
  BY IsASeq, LenProperties
<1>2. <<>> \in Seq(W)
  BY EmptySeq
<1>3. CASE n = 0
  <2>1. FlattenSeq(seqs) = seqs /\ seqs = <<>>
    BY <1>1, <1>3, EmptySeq DEF FlattenSeq
  <2> DEFINE flat == [i \in 0..0 |-> <<>>]
  <2>2. \A i \in 0..0 : i = 0
    OBVIOUS
  <2>3. Parts(flat, seqs, W)
    BY <1>1, <1>2, <1>3, <2>1, <2>2 DEF Parts
  <2> QED  BY <1>1, <2>3
<1>4. CASE n # 0
  <2> DEFINE g == CHOOSE f : Loop(f, "text", seqs, seqs[1], 1, n)
  <2>1. Steps(g, "text", seqs, seqs[1], 1, n)
    BY LoopSteps
  <2>2. FlattenSeq(seqs) = g[n]
    <3> DEFINE P(f) == f = [i \in 1..n |-> IF i = 1 THEN seqs[i] ELSE f[i - 1] \o seqs[i]]
    <3>1. \A y, i : Step("text", seqs, y, i) = y \o seqs[i]
      BY DEF Step
    <3>2. ASSUME NEW f PROVE P(f) <=> Loop(f, "text", seqs, seqs[1], 1, n)
      <4>1. \A i \in 1..n : (IF i = 1 THEN seqs[i] ELSE f[i - 1] \o seqs[i])
                            = (IF i = 1 THEN seqs[1] ELSE Step("text", seqs, f[i - 1], i))
        BY <3>1, Zenon
      <4> QED  BY <4>1, Zenon DEF Loop
    <3>3. (CHOOSE f : P(f)) = g
      BY <3>2, Zenon
    <3>4. FlattenSeq(seqs) = (CHOOSE f : P(f))[n]
      BY <1>1, <1>4, Zenon DEF FlattenSeq
    <3> QED  BY <3>3, <3>4
  <2> HIDE DEF g
  <2>3. g[1] = seqs[1] /\ \A i \in 2..n : g[i] = g[i - 1] \o seqs[i]
    <3>1. 1 + 1 = 2 /\ n >= 1
      BY <1>4
    <3>2. g[1] = seqs[1] /\ \A i \in 2..n : g[i] = Step("text", seqs, g[i - 1], i)
      BY <2>1, <3>1 DEF Steps
    <3>3. \A y, i : Step("text", seqs, y, i) = y \o seqs[i]
      BY DEF Step
    <3> QED  BY <3>2, <3>3, Zenon
  <2> DEFINE T == {k \in Nat : k \in 1..n => g[k] \in Seq(W)}
  <2>4. 0 \in T
    OBVIOUS
  <2>5. ASSUME NEW k \in Nat, k \in T PROVE k + 1 \in T
    <3> SUFFICES ASSUME k + 1 \in 1..n PROVE g[k + 1] \in Seq(W)
      OBVIOUS
    <3>1. CASE k = 0
      BY <1>4, <2>3, <3>1
    <3>2. CASE k # 0
      <4>1. k \in 1..n /\ g[k] \in Seq(W) /\ k + 1 \in 2..n /\ (k + 1) - 1 = k
        BY <2>5, <3>2
      <4>2. g[k + 1] = g[k] \o seqs[k + 1] /\ seqs[k + 1] \in Seq(W)
        BY <2>3, <4>1
      <4> QED  BY <4>1, <4>2, Joined
    <3> QED  BY <3>1, <3>2
  <2> HIDE DEF T
  <2>6. Nat \subseteq T
    BY <2>4, <2>5, Induct
  <2>7. \A k \in 1..n : g[k] \in Seq(W)
    BY <2>6 DEF T
  <2> DEFINE flat == [i \in 0..n |-> IF i = 0 THEN <<>> ELSE g[i]]
  <2>8. flat[0] = <<>> /\ \A i \in 1..n : flat[i] = g[i]
    OBVIOUS
  <2> HIDE DEF flat
  <2>9. ASSUME NEW i \in 1..n PROVE flat[i] = flat[i - 1] \o seqs[i]
    <3>1. seqs[i] \in Seq(W) /\ <<>> \o seqs[i] = seqs[i]
      BY Joined
    <3>2. CASE i = 1
      BY <2>3, <2>8, <3>1, <3>2
    <3>3. CASE i # 1
      <4>1. i \in 2..n /\ i - 1 \in 1..n
        BY <3>3
      <4> QED  BY <2>3, <2>8, <4>1
    <3> QED  BY <3>2, <3>3
  <2>10. \A i \in 0..n : flat[i] \in Seq(W)
    <3>1. \A i \in 0..n : i = 0 \/ i \in 1..n
      OBVIOUS
    <3> QED  BY <1>2, <2>7, <2>8, <3>1, Zenon
  <2>11. flat[n] = FlattenSeq(seqs)
    BY <1>4, <2>2, <2>8
  <2>12. Parts(flat, seqs, W)
    BY <1>1, <2>8, <2>9, <2>10, <2>11 DEF Parts
  <2> QED  BY <1>1, <2>12
<1> QED  BY <1>3, <1>4

(* The same from the end: what is still to be read after each part.        *)
Tails(tail, seqs, n, rest) ==
  /\ tail \in [0..n -> Seq(Word)]
  /\ tail[0] = FlattenSeq(seqs) \o rest /\ tail[n] = rest
  /\ \A i \in 1..n : tail[i - 1] = seqs[i] \o tail[i]
LEMMA TailsExist ==
  ASSUME NEW n \in Nat, NEW seqs \in [1..n -> Seq(Word)], NEW rest \in Seq(Word)
  PROVE  FlattenSeq(seqs) \in Seq(Word) /\ \E tail : Tails(tail, seqs, n, rest)
<1>1. Len(seqs) = n /\ \E flat : Parts(flat, seqs, Word)
  BY FlattenSteps
<1>2. PICK flat : Parts(flat, seqs, Word)
  BY <1>1
<1>3. /\ flat[0] = <<>> /\ flat[n] = FlattenSeq(seqs)
      /\ \A i \in 0..n : flat[i] \in Seq(Word)
      /\ \A i \in 1..n : flat[i] = flat[i - 1] \o seqs[i]
  BY <1>1, <1>2 DEF Parts
<1>4. FlattenSeq(seqs) \in Seq(Word)
  BY <1>3
<1>5. PICK all : all = FlattenSeq(seqs) \o rest
  OBVIOUS
<1>6. all \in Seq(Word)
  BY <1>4, <1>5, Joined
<1> DEFINE BeginsAt(k) == \E t \in Seq(Word) : all = flat[k] \o t
           T == {j \in Nat : j <= n => BeginsAt(n - j)}
<1>a. BeginsAt(n)
  BY <1>3, <1>5
<1> HIDE DEF BeginsAt
<1>7. 0 \in T
  <2>1. n - 0 = n
    OBVIOUS
  <2> QED  BY <1>a, <2>1
<1>8. ASSUME NEW j \in Nat, j \in T PROVE j + 1 \in T
  <2> SUFFICES ASSUME j + 1 <= n PROVE BeginsAt(n - (j + 1))
    OBVIOUS
  <2>1. j <= n /\ n - j \in 1..n /\ (n - j) - 1 = n - (j + 1) /\ n - (j + 1) \in 0..n
    OBVIOUS
  <2>2. PICK t \in Seq(Word) : all = flat[n - j] \o t
    BY <1>8, <2>1 DEF BeginsAt
  <2>3. PICK a, b : a = flat[n - (j + 1)] /\ b = seqs[n - j]
    OBVIOUS
  <2>4. a \in Seq(Word) /\ b \in Seq(Word) /\ flat[n - j] = a \o b
    BY <1>3, <2>1, <2>3
  <2>5. Associates(a, b, t)
    BY <2>4, Assoc
  <2>6. b \o t \in Seq(Word)
    BY <2>4, Joined
  <2> QED  BY <2>2, <2>3, <2>4, <2>5, <2>6 DEF Associates, BeginsAt
<1> HIDE DEF T
<1>9. Nat \subseteq T
  BY <1>7, <1>8, Induct
<1>10. \A k \in 0..n : \E t \in Seq(Word) : all = flat[k] \o t
  <2> TAKE k \in 0..n
  <2>1. n - k \in Nat /\ n - k <= n /\ n - (n - k) = k
    OBVIOUS
  <2>2. n - k \in T
    BY <1>9, <2>1
  <2> QED  BY <2>1, <2>2 DEF T, BeginsAt
<1> DEFINE tail == [k \in 0..n |-> CHOOSE t \in Seq(Word) : all = flat[k] \o t]
<1>11. \A k \in 0..n : tail[k] \in Seq(Word) /\ all = flat[k] \o tail[k]
  BY <1>10, Zenon
<1>12. tail \in [0..n -> Seq(Word)]
  BY <1>11
<1> HIDE DEF tail
<1>13. tail[0] = all
  <2>1. 0 \in 0..n
    OBVIOUS
  <2>2. tail[0] \in Seq(Word) /\ all = <<>> \o tail[0]
    BY <1>3, <1>11, <2>1
  <2> QED  BY <2>2, Joined
<1>14. tail[n] = rest
  <2>1. n \in 0..n
    OBVIOUS
  <2>2. tail[n] \in Seq(Word) /\ flat[n] \in Seq(Word) /\ flat[n] \o tail[n] = flat[n] \o rest
    BY <1>3, <1>5, <1>11, <2>1
  <2> QED  BY <2>2, Cancel
<1>15. ASSUME NEW i \in 1..n PROVE tail[i - 1] = seqs[i] \o tail[i]
  <2>1. i - 1 \in 0..n /\ i \in 0..n
    OBVIOUS
  <2>2. PICK a, b, c, d : a = flat[i - 1] /\ b = seqs[i] /\ c = tail[i] /\ d = tail[i - 1]
    OBVIOUS
  <2>3. a \in Seq(Word) /\ b \in Seq(Word) /\ c \in Seq(Word) /\ d \in Seq(Word)
    BY <1>3, <1>11, <2>1, <2>2
  <2>4. all = a \o d /\ all = (a \o b) \o c
    BY <1>3, <1>11, <2>1, <2>2
  <2>5. Associates(a, b, c)
    BY <2>3, Assoc
  <2>6. PICK e : e = b \o c
    OBVIOUS
  <2>7. e \in Seq(Word)
    BY <2>3, <2>6, Joined
  <2>8. a \o d = a \o e
    BY <2>4, <2>5, <2>6 DEF Associates
  <2>9. d = e
    BY <2>3, <2>7, <2>8, Cancel
  <2> QED  BY <2>2, <2>6, <2>9
<1>16. Tails(tail, seqs, n, rest)
  BY <1>5, <1>12, <1>13, <1>14, <1>15 DEF Tails
<1> QED  BY <1>4, <1>16

(* A loop that reads one part after the other reads them all, and all is   *)
(* as it should be: or it stops for the reason one of them has.            *)
Reads(after, seqs, n, right, fits, lost) ==
  \A i \in 1..n : IsReader(after[i - 1]) =>
    /\ after[i - 1].error # "none" => IsReader(after[i]) /\ after[i].error = after[i - 1].error
    /\ after[i - 1].error = "none" /\ right[i - 1] =>
         \A t \in Seq(Word) : Ahead(after[i - 1], seqs[i], t, lost) =>
           Outcome(after[i], t, lost, fits[i]) /\ (after[i].error = "none" => right[i])
LEMMA ReadsAll ==
  ASSUME NEW n \in Nat, NEW seqs \in [1..n -> Seq(Word)], NEW after, NEW right, NEW fits,
         NEW rest \in Seq(Word), NEW lost \in Seq(Word),
         IsReader(after[0]), after[0].error = "none", right[0], Ahead(after[0], FlattenSeq(seqs), rest, lost),
         Reads(after, seqs, n, right, fits, lost)
  PROVE  /\ Outcome(after[n], rest, lost, \A i \in 1..n : fits[i])
         /\ after[n].error = "none" => right[n]
<1>1. PICK tail : Tails(tail, seqs, n, rest)
  BY TailsExist
<1>2. /\ \A i \in 0..n : tail[i] \in Seq(Word)
      /\ tail[0] = FlattenSeq(seqs) \o rest /\ tail[n] = rest
      /\ \A i \in 1..n : tail[i - 1] = seqs[i] \o tail[i]
  BY <1>1 DEF Tails
<1> DEFINE Fits(k) == \A i \in 1..k : fits[i]
           Done(k) == Outcome(after[k], tail[k], lost, Fits(k)) /\ (after[k].error = "none" => right[k])
           T == {k \in Nat : k <= n => Done(k)}
<1>3. 0 \in T
  <2>1. Outcome(after[0], tail[0], lost, Fits(0))
    BY <1>2 DEF Outcome, Ahead
  <2>3. Done(0)
    BY <2>1
  <2> HIDE DEF Done
  <2> QED  BY <2>3
<1>4. ASSUME NEW k \in Nat, k \in T PROVE k + 1 \in T
  <2> HIDE DEF Done
  <2> SUFFICES ASSUME k + 1 <= n PROVE Done(k + 1)
    OBVIOUS
  <2>1. k <= n /\ k + 1 \in 1..n /\ k + 1 \in 0..n /\ (k + 1) - 1 = k
    OBVIOUS
  <2>2. Outcome(after[k], tail[k], lost, Fits(k)) /\ (after[k].error = "none" => right[k])
    BY <1>4, <2>1 DEF Done
  <2>3. tail[k] = seqs[k + 1] \o tail[k + 1] /\ tail[k + 1] \in Seq(Word)
    BY <1>2, <2>1
  <2>4. Fits(k + 1) => Fits(k) /\ fits[k + 1]
    BY <2>1
  <2>5. IsReader(after[k])
    BY <2>2 DEF Outcome
  <2>6. /\ after[k].error # "none" => IsReader(after[k + 1]) /\ after[k + 1].error = after[k].error
        /\ after[k].error = "none" /\ right[k] =>
             \A t \in Seq(Word) : Ahead(after[k], seqs[k + 1], t, lost) =>
               Outcome(after[k + 1], t, lost, fits[k + 1]) /\ (after[k + 1].error = "none" => right[k + 1])
    BY <2>1, <2>5 DEF Reads
  <2> HIDE DEF Fits
  <2>7. CASE after[k].error # "none"
    <3>1. Outcome(after[k + 1], tail[k + 1], lost, Fits(k + 1))
      BY <2>2, <2>4, <2>6, <2>7 DEF Outcome
    <3>2. after[k + 1].error # "none"
      BY <2>6, <2>7
    <3> QED  BY <3>1, <3>2 DEF Done
  <2>8. CASE after[k].error = "none"
    <3>1. Ahead(after[k], seqs[k + 1], tail[k + 1], lost) /\ Fits(k)
      BY <2>2, <2>3, <2>8 DEF Outcome, Ahead, Refusals
    <3>2. Outcome(after[k + 1], tail[k + 1], lost, fits[k + 1]) /\ (after[k + 1].error = "none" => right[k + 1])
      BY <2>2, <2>3, <2>6, <2>8, <3>1
    <3>3. Fits(k + 1) <=> fits[k + 1]
      <4>1. \A i \in 1 .. k + 1 : i \in 1..k \/ i = k + 1
        OBVIOUS
      <4> QED  BY <2>4, <3>1, <4>1 DEF Fits
    <3>4. Outcome(after[k + 1], tail[k + 1], lost, Fits(k + 1))
      BY <3>2, <3>3 DEF Outcome
    <3> QED  BY <3>2, <3>4 DEF Done
  <2> QED  BY <2>7, <2>8
<1> HIDE DEF T
<1>5. Nat \subseteq T
  BY <1>3, <1>4, Induct
<1>6. n \in T /\ n <= n
  BY <1>5
<1>7. Outcome(after[n], tail[n], lost, Fits(n)) /\ (after[n].error = "none" => right[n])
  BY <1>6 DEF T, Done
<1> QED  BY <1>2, <1>7

-----------------------------------------------------------------------------
(* The properties of a channel or an item, in their order.                 *)
IsOrder(order, P) ==
  /\ Len(order) \in Nat /\ order \in [1 .. Len(order) -> P]
  /\ \A p \in P : \E i \in 1 .. Len(order) : order[i] = p
  /\ \A i, j \in 1 .. Len(order) : order[i] = order[j] => i = j
LEMMA SetOrder ==
  ASSUME NEW P, IsFiniteSet(P)
  PROVE  IsOrder(SetToSeq(P), P)
<1> DEFINE n == Cardinality(P)
<1>1. n \in Nat /\ \E f : f \in Bijection(1..n, P)
  BY FS_CardinalityType DEF ExistsBijection
<1>2. PICK f : f \in Bijection(1..n, P)
  BY <1>1
<1>3. f \in [1..n -> P] /\ \A a, b \in 1..n : f[a] = f[b] => a = b
  BY <1>2 DEF Bijection, Injection, IsInjective
<1>4. \E g \in [1..n -> P] : IsInjective(g)
  BY <1>3 DEF IsInjective
<1> DEFINE s == SetToSeq(P)
<1>5. s \in [1..n -> P] /\ IsInjective(s)
  BY <1>4, Zenon DEF SetToSeq
<1> HIDE DEF s
<1>6. s \in Seq(P) /\ Len(s) = n
  BY <1>1, <1>5, IsASeq, LenProperties
<1>7. s \in Injection(1..n, P)
  BY <1>5 DEF Injection
<1>8. IsFiniteSet(1..n) /\ Cardinality(1..n) = n
  BY <1>1, FS_Interval
<1>9. s \in Surjection(1..n, P)
  BY <1>7, <1>8, FS_Injection
<1>10. \A p \in P : \E i \in 1..n : s[i] = p
  BY <1>9 DEF Surjection
<1>11. \A i, j \in 1..n : s[i] = s[j] => i = j
  BY <1>5 DEF IsInjective
<1> QED  BY <1>1, <1>5, <1>6, <1>10, <1>11 DEF IsOrder, s

StoredProps(props, P) == [p \in P |-> Stored(props[p])]
FitsProps(props, P) == \A p \in P : FitsValue(props[p])
PropsTaken(r, s, props, P, rest, lost) ==
  /\ Outcome(s, rest, lost, FitsProps(props, P))
  /\ s.error = "none" => s.props = StoredProps(props, P) /\ SameFeed(r, s)
LEMMA PropsRead ==
  ASSUME NEW r, IsReader(r), r.error = "none", NEW P, NEW order, IsOrder(order, P),
         r.props = [p \in P |-> Null], NEW props \in [P -> Value],
         NEW rest \in Seq(Word), NEW lost \in Seq(Word), Ahead(r, EncodeProps(props, order), rest, lost)
  PROVE  PropsTaken(r, ReadProps(r, order), props, P, rest, lost)
<1> DEFINE n == Len(order)
           seqs == [i \in DOMAIN order |-> EncodeValue(props[order[i]])]
<1>1. /\ n \in Nat /\ order \in [1..n -> P]
      /\ \A p \in P : \E i \in 1..n : order[i] = p
      /\ \A i, j \in 1..n : order[i] = order[j] => i = j
  BY DEF IsOrder
<1>2. seqs \in [1..n -> Seq(Word)] /\ \A i \in 1..n : seqs[i] = EncodeValue(props[order[i]])
  BY <1>1, ValueEncoded
<1>3. EncodeProps(props, order) = FlattenSeq(seqs)
  BY DEF EncodeProps
<1>a. \E h : /\ ReadProps(r, order) = h[Len(order)] /\ h[0] = r
             /\ \A i \in 1 .. Len(order) : h[i] = ReadProp(h[i - 1], order[i])
  <2>1. Len(order) \in Nat
    BY <1>1
  <2> HIDE DEF n, seqs
  <2> QED  BY <2>1, PropsSteps
<1>4. PICK g : /\ ReadProps(r, order) = g[n] /\ g[0] = r
               /\ \A i \in 1..n : g[i] = ReadProp(g[i - 1], order[i])
  BY <1>a, Zenon
<1> DEFINE Seen(k) == [p \in P |-> IF \E i \in 1..k : order[i] = p THEN Stored(props[p]) ELSE Null]
           right == [k \in 0..n |-> g[k].props = Seen(k) /\ SameFeed(r, g[k])]
           fits == [i \in 1..n |-> FitsValue(props[order[i]])]
<1> HIDE DEF n, seqs
<1>5. Seen(0) = r.props
  <2>1. \A i \in 1..0 : FALSE
    OBVIOUS
  <2> QED  BY <2>1, Zenon
<1>6. right[0]
  <2>1. 0 \in 0..n
    BY <1>1
  <2> HIDE DEF Seen
  <2> QED  BY <1>4, <1>5, <2>1 DEF SameFeed
<1>7. Reads(g, seqs, n, right, fits, lost)
  <2> SUFFICES ASSUME NEW i \in 1..n, IsReader(g[i - 1])
               PROVE  /\ g[i - 1].error # "none" => IsReader(g[i]) /\ g[i].error = g[i - 1].error
                      /\ g[i - 1].error = "none" /\ right[i - 1] =>
                           \A t \in Seq(Word) : Ahead(g[i - 1], seqs[i], t, lost) =>
                             Outcome(g[i], t, lost, fits[i]) /\ (g[i].error = "none" => right[i])
    BY DEF Reads
  <2>1. g[i] = ReadProp(g[i - 1], order[i]) /\ order[i] \in P /\ i \in 0..n /\ i - 1 \in 0..n
    BY <1>1, <1>4
  <2>2. ASSUME g[i - 1].error # "none" PROVE IsReader(g[i]) /\ g[i].error = g[i - 1].error
    <3>1. g[i] = g[i - 1]
      BY <2>1, <2>2, StoppedStays DEF Stopped
    <3> QED  BY <3>1
  <2>3. ASSUME g[i - 1].error = "none", right[i - 1], NEW t \in Seq(Word), Ahead(g[i - 1], seqs[i], t, lost)
        PROVE  Outcome(g[i], t, lost, fits[i]) /\ (g[i].error = "none" => right[i])
    <3> DEFINE p == order[i]
               v == props[p]
    <3>1. g[i - 1].props = Seen(i - 1) /\ SameFeed(r, g[i - 1])
      BY <2>1, <2>3, Zenon
    <3>2. \A j \in 1 .. i - 1 : j \in 1..n /\ j # i
      BY <1>1
    <3>3. ~\E j \in 1 .. i - 1 : order[j] = p
      BY <1>1, <3>2
    <3>4. p \in P /\ v \in Value
      BY <2>1
    <3>5. Seen(i - 1)[p] = Null
      BY <3>3, <3>4
    <3>6. Seen(i - 1) \in [P -> Value]
      BY DEF Stored, Value
    <3>7. [Seen(i - 1) EXCEPT ![p] = Stored(v)] = Seen(i)
      <4>1. \A j \in 1..i : j \in 1 .. i - 1 \/ j = i
        BY <1>1
      <4>2. i \in 1..i /\ \A j \in 1 .. i - 1 : j \in 1..i
        BY <1>1
      <4>3. ASSUME NEW q \in P PROVE [Seen(i - 1) EXCEPT ![p] = Stored(v)][q] = Seen(i)[q]
        <5>1. CASE q = p
          BY <3>4, <4>2, <5>1
        <5>2. CASE q # p
          <6>1. (\E j \in 1 .. i - 1 : order[j] = q) <=> \E j \in 1..i : order[j] = q
            BY <4>1, <4>2, <5>2
          <6> QED  BY <5>2, <6>1
        <5> QED  BY <5>1, <5>2
      <4> QED  BY <4>3
    <3> HIDE DEF Seen
    <3>c. Ahead(g[i - 1], EncodeValue(v), t, lost)
      BY <1>2, <2>3
    <3>d. g[i - 1].props \in [P -> Value] /\ g[i - 1].props[p] = Null
      BY <3>1, <3>5, <3>6
    <3> HIDE DEF p, v
    <3>e. PropTaken(g[i - 1], ReadProp(g[i - 1], p), p, v, t, lost)
      BY <2>3, <3>4, <3>c, <3>d, PropRead
    <3>8. PropTaken(g[i - 1], g[i], p, v, t, lost)
      BY <2>1, <3>e DEF p
    <3>9. fits[i] = FitsValue(v)
      BY DEF v, p
    <3>10. ASSUME g[i].error = "none" PROVE right[i]
      <4>1. g[i].props = Seen(i) /\ SameFeed(r, g[i])
        BY <3>1, <3>7, <3>8, <3>10 DEF PropTaken, SameFeed
      <4> QED  BY <2>1, <4>1, Zenon
    <3>11. Outcome(g[i], t, lost, fits[i])
      BY <3>8, <3>9 DEF PropTaken
    <3> QED  BY <3>10, <3>11
  <2> QED  BY <2>2, <2>3
<1>8. /\ Outcome(g[n], rest, lost, \A i \in 1..n : fits[i])
      /\ g[n].error = "none" => right[n]
  <2> HIDE DEF right, fits
  <2>1. IsReader(g[0]) /\ g[0].error = "none" /\ Ahead(g[0], FlattenSeq(seqs), rest, lost)
    BY <1>3, <1>4
  <2>2. n \in Nat /\ seqs \in [1..n -> Seq(Word)]
    BY <1>1, <1>2
  <2> QED  BY <1>6, <1>7, <2>1, <2>2, ReadsAll
<1>9. (\A i \in 1..n : fits[i]) <=> FitsProps(props, P)
  BY <1>1 DEF FitsProps
<1>10. Seen(n) = StoredProps(props, P)
  BY <1>1 DEF StoredProps
<1>11. n \in 0..n
  BY <1>1
<1> HIDE DEF Seen, fits
<1>12. g[n].error = "none" => g[n].props = Seen(n) /\ SameFeed(r, g[n])
  BY <1>8, <1>11, Zenon
<1>13. Outcome(g[n], rest, lost, FitsProps(props, P))
  BY <1>8, <1>9 DEF Outcome
<1> QED  BY <1>4, <1>10, <1>12, <1>13 DEF PropsTaken

(* A reader that has stopped is left as it is by every loop.               *)
LEMMA StoppedProps ==
  ASSUME NEW r, Stopped(r), NEW order, Len(order) \in Nat
  PROVE  ReadProps(r, order) = r
<1>1. PICK g : /\ ReadProps(r, order) = g[Len(order)] /\ g[0] = r
               /\ \A i \in 1 .. Len(order) : g[i] = ReadProp(g[i - 1], order[i])
  BY PropsSteps
<1> DEFINE n == Len(order)
           T == {k \in Nat : k <= n => g[k] = r}
<1>2. 0 \in T
  BY <1>1
<1>3. ASSUME NEW k \in Nat, k \in T PROVE k + 1 \in T
  <2> SUFFICES ASSUME k + 1 <= n PROVE g[k + 1] = r
    OBVIOUS
  <2>1. k <= n /\ k + 1 \in 1..n /\ (k + 1) - 1 = k
    OBVIOUS
  <2>2. g[k] = r
    BY <1>3, <2>1
  <2>3. g[k + 1] = ReadProp(g[(k + 1) - 1], order[k + 1])
    BY <1>1, <2>1
  <2> QED  BY <2>1, <2>2, <2>3, StoppedStays
<1> HIDE DEF T
<1>4. Nat \subseteq T
  BY <1>2, <1>3, Induct
<1>5. n \in T /\ n <= n
  BY <1>4
<1> QED  BY <1>1, <1>5 DEF T

LEMMA StoppedItem ==
  ASSUME NEW r, IsReader(r), r.error # "none"
  PROVE  IsReader(ReadItem(r)) /\ ReadItem(r).error = r.error
<1> DEFINE e == [r EXCEPT !.props = EmptyItem]
<1>1. IsReader(e) /\ e.error = r.error
  BY DEF IsReader
<1>2. Len(ItemOrder) \in Nat
  BY SetOrder, CacheAssumption DEF IsOrder, ItemOrder
<1> HIDE DEF e
<1>3. ReadProps(e, ItemOrder) = e
  BY <1>1, <1>2, StoppedProps DEF Stopped
<1>4. ReadItem(r) = e
  BY <1>1, <1>3 DEF ReadItem, Stopped, e
<1> QED  BY <1>1, <1>4

(* An item.                                                                *)
ItemTaken(r, s, item, rest, lost) ==
  /\ Outcome(s, rest, lost, FitsProps(item, ItemProps))
  /\ s.error = "none" => /\ s.items = Append(r.items, StoredProps(item, ItemProps))
                         /\ s.channels = r.channels
LEMMA ItemRead ==
  ASSUME NEW r, IsReader(r), r.error = "none", NEW item \in [ItemProps -> Value],
         NEW rest \in Seq(Word), NEW lost \in Seq(Word), Ahead(r, EncodeProps(item, ItemOrder), rest, lost)
  PROVE  ItemTaken(r, ReadItem(r), item, rest, lost)
<1> DEFINE e == [r EXCEPT !.props = EmptyItem]
           d == ReadProps(e, ItemOrder)
           s == ReadItem(r)
<1>1. /\ IsReader(e) /\ e.error = "none" /\ e.props = [p \in ItemProps |-> Null]
      /\ e.items = r.items /\ e.channels = r.channels /\ e.ahead = r.ahead
  BY DEF IsReader, EmptyItem
<1>2. IsOrder(ItemOrder, ItemProps)
  BY SetOrder, CacheAssumption DEF ItemOrder
<1>3. s = IF Stopped(d) THEN d ELSE [d EXCEPT !.items = Append(d.items, d.props)]
  BY DEF ReadItem
<1>a. Ahead(e, EncodeProps(item, ItemOrder), rest, lost)
  BY <1>1 DEF Ahead
<1> HIDE DEF e
<1>4. PropsTaken(e, d, item, ItemProps, rest, lost)
  BY <1>1, <1>2, <1>a, PropsRead
<1> HIDE DEF d, s
<1>5. Outcome(d, rest, lost, FitsProps(item, ItemProps))
  BY <1>4 DEF PropsTaken
<1>6. CASE d.error # "none"
  <2>1. s = d
    BY <1>3, <1>6 DEF Stopped
  <2> QED  BY <1>5, <1>6, <2>1 DEF ItemTaken, s
<1>7. CASE d.error = "none"
  <2>1. s = [d EXCEPT !.items = Append(d.items, d.props)]
    BY <1>3, <1>7 DEF Stopped
  <2>2. d.props = StoredProps(item, ItemProps) /\ d.items = r.items /\ d.channels = r.channels
    BY <1>1, <1>4, <1>7 DEF PropsTaken, SameFeed
  <2>3. DOMAIN d = {"ahead", "error", "num", "text", "props", "items", "channels"}
    BY <1>5 DEF Outcome, IsReader
  <2>4. /\ DOMAIN s = DOMAIN d /\ s.ahead = d.ahead /\ s.error = d.error /\ s.channels = d.channels
        /\ s.items = Append(d.items, d.props)
    BY <2>1, <2>3
  <2>5. Outcome(s, rest, lost, FitsProps(item, ItemProps))
    BY <1>5, <2>4 DEF Outcome, IsReader
  <2> QED  BY <2>2, <2>4, <2>5 DEF ItemTaken, s
<1> QED  BY <1>6, <1>7

(* What is written is words.                                               *)
LEMMA PropsEncoded ==
  ASSUME NEW P, NEW order, IsOrder(order, P), NEW props \in [P -> Value]
  PROVE  EncodeProps(props, order) \in Seq(Word)
<1> DEFINE n == Len(order)
           seqs == [i \in DOMAIN order |-> EncodeValue(props[order[i]])]
<1>1. n \in Nat /\ order \in [1..n -> P]
  BY DEF IsOrder
<1>2. seqs \in [1..n -> Seq(Word)]
  BY <1>1, ValueEncoded
<1>3. <<>> \in Seq(Word)
  OBVIOUS
<1> HIDE DEF n, seqs
<1>4. FlattenSeq(seqs) \in Seq(Word)
  BY <1>1, <1>2, <1>3, TailsExist
<1> QED  BY <1>4 DEF EncodeProps, seqs

LEMMA ItemEncoded ==
  ASSUME NEW item \in [ItemProps -> Value]
  PROVE  EncodeProps(item, ItemOrder) \in Seq(Word)
<1>1. IsOrder(ItemOrder, ItemProps)
  BY SetOrder, CacheAssumption DEF ItemOrder
<1> QED  BY <1>1, PropsEncoded

(* A list grows by one element at its end.                                 *)
Firsts(f, k) == [j \in 1..k |-> f[j]]
LEMMA FirstsGrow ==
  ASSUME NEW f, NEW k \in Nat
  PROVE  Append(Firsts(f, k), f[k + 1]) = Firsts(f, k + 1) /\ Firsts(f, 0) = <<>>
<1>1. Len(Firsts(f, k)) = k
  BY DEF Firsts
<1>2. Firsts(f, k) \in Seq({f[j] : j \in 1..k})
  BY IsASeq DEF Firsts
<1>3. Append(Firsts(f, k), f[k + 1]) = [j \in 1 .. k + 1 |-> IF j <= k THEN Firsts(f, k)[j] ELSE f[k + 1]]
  BY <1>1, <1>2
<1>4. \A j \in 1 .. k + 1 : (j <= k => j \in 1..k) /\ (~(j <= k) => j = k + 1)
  OBVIOUS
<1>5. Append(Firsts(f, k), f[k + 1]) = Firsts(f, k + 1)
  BY <1>3, <1>4 DEF Firsts
<1>6. Firsts(f, 0) = <<>>
  BY DEF Firsts
<1> QED  BY <1>5, <1>6

(* The items of a channel.                                                 *)
StoredItem(items) == [j \in 1..Len(items) |-> StoredProps(items[j], ItemProps)]
FitsItems(items) == \A k \in 1..Len(items) : FitsProps(items[k], ItemProps)
ItemsTaken(r, s, items, rest, lost) ==
  /\ Outcome(s, rest, lost, FitsItems(items))
  /\ s.error = "none" => s.items = StoredItem(items) /\ s.channels = r.channels
EncodeItems(items) == FlattenSeq([i \in DOMAIN items |-> EncodeProps(items[i], ItemOrder)])
LEMMA ItemsRead ==
  ASSUME NEW n \in Nat, NEW items \in [1..n -> [ItemProps -> Value]], Len(items) = n,
         NEW r, IsReader(r), r.error = "none", r.num = n, r.items = <<>>,
         NEW rest \in Seq(Word), NEW lost \in Seq(Word), Ahead(r, EncodeItems(items), rest, lost)
  PROVE  ItemsTaken(r, ReadItems(r), items, rest, lost)
<1> DEFINE seqs == [i \in DOMAIN items |-> EncodeProps(items[i], ItemOrder)]
           f == [j \in 1..n |-> StoredProps(items[j], ItemProps)]
<1>1. seqs \in [1..n -> Seq(Word)] /\ \A i \in 1..n : seqs[i] = EncodeProps(items[i], ItemOrder)
  BY ItemEncoded
<1>2. EncodeItems(items) = FlattenSeq(seqs)
  BY DEF EncodeItems
<1>a. ~Stopped(r) /\ r.num \in Nat
  BY DEF Stopped
<1>b. \E h : /\ ReadItems(r) = h[r.num] /\ h[0] = r
             /\ \A i \in 1 .. r.num : h[i] = ReadItem(h[i - 1])
  BY <1>a, ItemsSteps
<1>3. PICK g : /\ ReadItems(r) = g[n] /\ g[0] = r
               /\ \A i \in 1..n : g[i] = ReadItem(g[i - 1])
  BY <1>b
<1> DEFINE right == [k \in 0..n |-> g[k].items = Firsts(f, k) /\ g[k].channels = r.channels]
           fits == [i \in 1..n |-> FitsProps(items[i], ItemProps)]
<1> HIDE DEF seqs, f
<1>4. right[0]
  <2>1. 0 \in 0..n /\ Firsts(f, 0) = <<>>
    BY FirstsGrow
  <2> QED  BY <1>3, <2>1
<1>5. Reads(g, seqs, n, right, fits, lost)
  <2> SUFFICES ASSUME NEW i \in 1..n, IsReader(g[i - 1])
               PROVE  /\ g[i - 1].error # "none" => IsReader(g[i]) /\ g[i].error = g[i - 1].error
                      /\ g[i - 1].error = "none" /\ right[i - 1] =>
                           \A t \in Seq(Word) : Ahead(g[i - 1], seqs[i], t, lost) =>
                             Outcome(g[i], t, lost, fits[i]) /\ (g[i].error = "none" => right[i])
    BY DEF Reads
  <2>1. g[i] = ReadItem(g[i - 1]) /\ items[i] \in [ItemProps -> Value] /\ i \in 0..n /\ i - 1 \in 0..n
    BY <1>3
  <2>2. ASSUME g[i - 1].error # "none" PROVE IsReader(g[i]) /\ g[i].error = g[i - 1].error
    BY <2>1, <2>2, StoppedItem
  <2>3. ASSUME g[i - 1].error = "none", right[i - 1], NEW t \in Seq(Word), Ahead(g[i - 1], seqs[i], t, lost)
        PROVE  Outcome(g[i], t, lost, fits[i]) /\ (g[i].error = "none" => right[i])
    <3>1. g[i - 1].items = Firsts(f, i - 1) /\ g[i - 1].channels = r.channels
      BY <2>1, <2>3, Zenon
    <3>2. Ahead(g[i - 1], EncodeProps(items[i], ItemOrder), t, lost)
      BY <1>1, <2>3
    <3>3. ItemTaken(g[i - 1], ReadItem(g[i - 1]), items[i], t, lost)
      BY <2>1, <2>3, <3>2, ItemRead
    <3>4. Append(Firsts(f, i - 1), f[i]) = Firsts(f, i)
      <4>1. i - 1 \in Nat /\ (i - 1) + 1 = i
        OBVIOUS
      <4> QED  BY <4>1, FirstsGrow
    <3>5. f[i] = StoredProps(items[i], ItemProps)
      BY DEF f
    <3>6. fits[i] = FitsProps(items[i], ItemProps)
      OBVIOUS
    <3>7. ASSUME g[i].error = "none" PROVE right[i]
      <4>1. g[i].items = Firsts(f, i) /\ g[i].channels = r.channels
        BY <2>1, <3>1, <3>3, <3>4, <3>5, <3>7 DEF ItemTaken
      <4> QED  BY <2>1, <4>1, Zenon
    <3>8. Outcome(g[i], t, lost, fits[i])
      BY <2>1, <3>3, <3>6 DEF ItemTaken
    <3> QED  BY <3>7, <3>8
  <2> QED  BY <2>2, <2>3
<1>6. /\ Outcome(g[n], rest, lost, \A i \in 1..n : fits[i])
      /\ g[n].error = "none" => right[n]
  <2> HIDE DEF right, fits
  <2>1. IsReader(g[0]) /\ g[0].error = "none" /\ Ahead(g[0], FlattenSeq(seqs), rest, lost)
    BY <1>2, <1>3
  <2> QED  BY <1>1, <1>4, <1>5, <2>1, ReadsAll
<1>7. (\A i \in 1..n : fits[i]) <=> FitsItems(items)
  BY DEF FitsItems
<1>8. Firsts(f, n) = StoredItem(items)
  BY DEF StoredItem, Firsts, f
<1>9. n \in 0..n
  OBVIOUS
<1> HIDE DEF fits
<1>10. g[n].error = "none" => g[n].items = Firsts(f, n) /\ g[n].channels = r.channels
  BY <1>6, <1>9, Zenon
<1>11. Outcome(g[n], rest, lost, FitsItems(items))
  BY <1>6, <1>7 DEF Outcome
<1> QED  BY <1>3, <1>8, <1>10, <1>11 DEF ItemsTaken

(* The number of items or channels, with its limit.                        *)
CountTaken(r, s, n, limit, rest, lost) ==
  /\ Outcome(s, rest, lost, n <= limit)
  /\ s.error = "none" => s.num = n /\ s.props = r.props /\ SameFeed(r, s)
LEMMA CountRead ==
  ASSUME NEW r, IsReader(r), r.error = "none", NEW n \in Nat, NEW limit \in Nat, NEW refusal \in Refusals,
         NEW rest \in Seq(Word), NEW lost \in Seq(Word), Ahead(r, <<n>>, rest, lost)
  PROVE  CountTaken(r, TakeCount(r, limit, refusal), n, limit, rest, lost)
<1> DEFINE count == TakeInt(r)
           s == TakeCount(r, limit, refusal)
<1>1. s = IF Stopped(count) \/ count.num <= limit THEN count ELSE Stop(count, refusal)
  BY DEF TakeCount
<1>2. n \in Word
  BY DEF Word
<1>3. IntTaken(r, count, n, rest, lost)
  BY <1>2, IntRead
<1> HIDE DEF count, s
<1>4. Outcome(count, rest, lost, TRUE)
  BY <1>3 DEF IntTaken
<1>5. CASE count.error # "none"
  <2>1. s = count
    BY <1>1, <1>5 DEF Stopped
  <2>2. Outcome(count, rest, lost, n <= limit)
    BY <1>4, <1>5 DEF Outcome
  <2> QED  BY <1>5, <2>1, <2>2 DEF CountTaken, s
<1>6. CASE count.error = "none"
  <2>1. count.num = n /\ count.props = r.props /\ SameFeed(r, count)
    BY <1>3, <1>6 DEF IntTaken
  <2>2. CASE n <= limit
    <3>1. s = count
      BY <1>1, <2>1, <2>2
    <3>2. Outcome(count, rest, lost, n <= limit)
      BY <1>4, <2>2 DEF Outcome
    <3> QED  BY <2>1, <3>1, <3>2 DEF CountTaken, s
  <2>3. CASE ~(n <= limit)
    <3>1. s = [count EXCEPT !.error = refusal]
      BY <1>1, <1>6, <2>1, <2>3 DEF Stop, Stopped
    <3>2. IsReader(s) /\ s.error = refusal
      BY <1>4, <3>1 DEF Outcome, IsReader
    <3>3. Outcome(s, rest, lost, n <= limit) /\ s.error # "none"
      BY <2>3, <3>2 DEF Outcome, Refusals
    <3> QED  BY <3>3 DEF CountTaken, s
  <2> QED  BY <2>2, <2>3
<1> QED  BY <1>5, <1>6

-----------------------------------------------------------------------------
(* A channel.                                                              *)
LEMMA ChannelEncoded ==
  ASSUME NEW c \in Channel
  PROVE  /\ c.props \in [ChannelProps -> Value]
         /\ Len(c.items) \in Nat /\ c.items \in [1 .. Len(c.items) -> [ItemProps -> Value]]
         /\ EncodeProps(c.props, ChannelOrder) \in Seq(Word) /\ EncodeItems(c.items) \in Seq(Word)
         /\ <<Len(c.items)>> \in Seq(Word)
         /\ EncodeProps(c.props, ChannelOrder) \o <<Len(c.items)>> \in Seq(Word)
         /\ EncodeChannel(c) \in Seq(Word)
         /\ EncodeChannel(c) = (EncodeProps(c.props, ChannelOrder) \o <<Len(c.items)>>) \o EncodeItems(c.items)
<1>1. c.props \in [ChannelProps -> Value] /\ c.items \in Seq([ItemProps -> Value])
  BY DEF Channel, Item, Value
<1>2. Len(c.items) \in Nat /\ c.items \in [1 .. Len(c.items) -> [ItemProps -> Value]]
  BY <1>1, LenProperties
<1>3. IsOrder(ChannelOrder, ChannelProps)
  BY SetOrder, CacheAssumption DEF ChannelOrder
<1>4. EncodeProps(c.props, ChannelOrder) \in Seq(Word)
  BY <1>1, <1>3, PropsEncoded
<1>5. <<Len(c.items)>> \in Seq(Word)
  BY <1>2 DEF Word
<1>6. EncodeItems(c.items) \in Seq(Word)
  <2> DEFINE n == Len(c.items)
             seqs == [i \in DOMAIN c.items |-> EncodeProps(c.items[i], ItemOrder)]
  <2>1. n \in Nat /\ seqs \in [1..n -> Seq(Word)]
    BY <1>2, ItemEncoded
  <2>2. <<>> \in Seq(Word)
    OBVIOUS
  <2> HIDE DEF n, seqs
  <2>3. FlattenSeq(seqs) \in Seq(Word)
    BY <2>1, <2>2, TailsExist
  <2> QED  BY <2>3 DEF EncodeItems, seqs
<1>7. EncodeProps(c.props, ChannelOrder) \o <<Len(c.items)>> \in Seq(Word)
  BY <1>4, <1>5, Joined
<1>8. EncodeChannel(c) = (EncodeProps(c.props, ChannelOrder) \o <<Len(c.items)>>) \o EncodeItems(c.items)
  BY DEF EncodeChannel, EncodeItems
<1>9. EncodeChannel(c) \in Seq(Word)
  BY <1>6, <1>7, <1>8, Joined
<1> QED  BY <1>1, <1>2, <1>4, <1>5, <1>6, <1>7, <1>8, <1>9

FitsChannel(c) ==
  FitsProps(c.props, ChannelProps) /\ Len(c.items) <= MaxItems /\ FitsItems(c.items)
StoredChannel(c) == [props |-> StoredProps(c.props, ChannelProps), items |-> StoredItem(c.items)]
ChannelTaken(r, s, c, rest, lost) ==
  /\ Outcome(s, rest, lost, FitsChannel(c))
  /\ s.error = "none" => s.channels = Append(r.channels, StoredChannel(c))

(* A reader that stops in the middle of a channel reads nothing more of it.*)
LEMMA StoppedItems ==
  ASSUME NEW r, IsReader(r), r.error # "none", NEW limit, NEW refusal
  PROVE  TakeCount(r, limit, refusal) = r /\ ReadItems(r) = r /\ ReadChannels(r) = r
  BY StoppedStays DEF TakeCount, ReadItems, ReadChannels, Stopped, TakeInt

(* The four parts of ReadChannel.                                          *)
Begun(r) == [r EXCEPT !.props = EmptyChannel.props]
Headed(r) == ReadProps(Begun(r), ChannelOrder)
Emptied(r) == [Headed(r) EXCEPT !.items = <<>>]
Counted(r) == TakeCount(Emptied(r), MaxItems, "TooManyItems")
Bodied(r) == ReadItems(Counted(r))
LEMMA ChannelParts ==
  ASSUME NEW r
  PROVE  ReadChannel(r) = IF Stopped(Bodied(r)) THEN Bodied(r)
                          ELSE [Bodied(r) EXCEPT !.channels =
                                  Append(@, [props |-> Headed(r).props, items |-> Bodied(r).items])]
  BY DEF ReadChannel, Begun, Headed, Emptied, Counted, Bodied

LEMMA StoppedChannel ==
  ASSUME NEW r, IsReader(r), r.error # "none"
  PROVE  IsReader(ReadChannel(r)) /\ ReadChannel(r).error = r.error
<1>1. IsReader(Begun(r)) /\ Begun(r).error = r.error
  BY DEF IsReader, Begun
<1>2. Len(ChannelOrder) \in Nat
  BY SetOrder, CacheAssumption DEF IsOrder, ChannelOrder
<1>3. Headed(r) = Begun(r)
  BY <1>1, <1>2, StoppedProps DEF Stopped, Headed
<1>4. IsReader(Emptied(r)) /\ Emptied(r).error = r.error
  BY <1>1, <1>3 DEF IsReader, Emptied
<1>5. Bodied(r) = Emptied(r)
  BY <1>4, StoppedItems DEF Counted, Bodied
<1>6. ReadChannel(r) = Bodied(r)
  BY <1>4, <1>5, ChannelParts DEF Stopped
<1> QED  BY <1>4, <1>5, <1>6

LEMMA ChannelRead ==
  ASSUME NEW r, IsReader(r), r.error = "none", NEW c \in Channel,
         NEW rest \in Seq(Word), NEW lost \in Seq(Word), Ahead(r, EncodeChannel(c), rest, lost)
  PROVE  ChannelTaken(r, ReadChannel(r), c, rest, lost)
<1> DEFINE a == EncodeProps(c.props, ChannelOrder)
           m == <<Len(c.items)>>
           b == EncodeItems(c.items)
           s == ReadChannel(r)
<1>1. /\ c.props \in [ChannelProps -> Value]
      /\ Len(c.items) \in Nat /\ c.items \in [1 .. Len(c.items) -> [ItemProps -> Value]]
      /\ a \in Seq(Word) /\ b \in Seq(Word) /\ m \in Seq(Word) /\ a \o m \in Seq(Word)
      /\ EncodeChannel(c) = (a \o m) \o b
  BY ChannelEncoded
<1>2. Ahead(r, a, m \o (b \o rest), lost) /\ b \o rest \in Seq(Word) /\ m \o (b \o rest) \in Seq(Word)
  <2> HIDE DEF a, m, b
  <2>a. Ahead(r, (a \o m) \o b, rest, lost)
    BY <1>1, Zenon
  <2>b. a \o m \in Seq(Word) /\ b \in Seq(Word) /\ rest \in Seq(Word) /\ lost \in Seq(Word)
    BY <1>1
  <2> DEFINE am == a \o m
  <2> HIDE DEF am
  <2>c. Ahead(r, am, b \o rest, lost) /\ b \o rest \in Seq(Word)
    BY <2>a, <2>b, AheadSplits DEF am
  <2>1. Ahead(r, a \o m, b \o rest, lost) /\ b \o rest \in Seq(Word)
    BY <2>c DEF am
  <2> QED  BY <1>1, <2>1, AheadSplits
<1>3. IsOrder(ChannelOrder, ChannelProps)
  BY SetOrder, CacheAssumption DEF ChannelOrder
<1>4. /\ IsReader(Begun(r)) /\ Begun(r).error = "none" /\ Begun(r).props = [p \in ChannelProps |-> Null]
      /\ Begun(r).ahead = r.ahead /\ Begun(r).channels = r.channels
  BY DEF Begun, IsReader, EmptyChannel
<1>5. Ahead(Begun(r), a, m \o (b \o rest), lost)
  BY <1>2, <1>4 DEF Ahead
<1>6. PropsTaken(Begun(r), Headed(r), c.props, ChannelProps, m \o (b \o rest), lost)
  <2> DEFINE t == m \o (b \o rest)
             e == Begun(r)
             props == c.props
  <2>1. t \in Seq(Word) /\ Ahead(e, EncodeProps(props, ChannelOrder), t, lost)
    BY <1>2, <1>5
  <2>2. IsReader(e) /\ e.error = "none" /\ e.props = [p \in ChannelProps |-> Null] /\ props \in [ChannelProps -> Value]
    BY <1>1, <1>4
  <2> HIDE DEF t, e, props
  <2>3. PropsTaken(e, ReadProps(e, ChannelOrder), props, ChannelProps, t, lost)
    BY <1>3, <2>1, <2>2, PropsRead
  <2> QED  BY <2>3 DEF Headed, t, e, props
<1> DEFINE t == b \o rest
           fitsProps == FitsProps(c.props, ChannelProps)
<1>7. t \in Seq(Word)
  BY <1>2
<1> HIDE DEF a, m, b, s, t, fitsProps
<1>8. Outcome(Headed(r), m \o t, lost, fitsProps)
  BY <1>6 DEF PropsTaken, t, fitsProps
<1>9. FitsChannel(c) <=> fitsProps /\ Len(c.items) <= MaxItems /\ FitsItems(c.items)
  BY DEF FitsChannel, fitsProps
<1>10. /\ Emptied(r).error = Headed(r).error /\ Emptied(r).ahead = Headed(r).ahead
       /\ IsReader(Emptied(r)) /\ Emptied(r).items = <<>> /\ Emptied(r).channels = Headed(r).channels
  BY <1>8 DEF Outcome, IsReader, Emptied
<1>11. s = IF Stopped(Bodied(r)) THEN Bodied(r)
           ELSE [Bodied(r) EXCEPT !.channels =
                   Append(@, [props |-> Headed(r).props, items |-> Bodied(r).items])]
  BY ChannelParts DEF s
<1>12. CASE Headed(r).error # "none"
  <2>1. Counted(r) = Emptied(r) /\ Bodied(r) = Emptied(r)
    BY <1>10, <1>12, StoppedItems DEF Counted, Bodied
  <2>2. s = Emptied(r)
    BY <1>10, <1>11, <1>12, <2>1 DEF Stopped
  <2>3. Outcome(Emptied(r), rest, lost, FitsChannel(c))
    BY <1>8, <1>9, <1>10, <1>12 DEF Outcome
  <2> QED  BY <1>10, <1>12, <2>2, <2>3 DEF ChannelTaken, s
<1>13. CASE Headed(r).error = "none"
  <2>1. fitsProps /\ Ahead(Headed(r), m, t, lost)
    BY <1>8, <1>13, OutcomeAhead
  <2>2. Headed(r).props = StoredProps(c.props, ChannelProps) /\ Headed(r).channels = r.channels
    BY <1>4, <1>6, <1>13 DEF PropsTaken, SameFeed
  <2>3. Ahead(Emptied(r), <<Len(c.items)>>, t, lost)
    BY <1>10, <2>1 DEF Ahead, m
  <2>4. CountTaken(Emptied(r), Counted(r), Len(c.items), MaxItems, t, lost)
    <3>1. "TooManyItems" \in Refusals /\ MaxItems \in Nat
      BY CacheAssumption DEF Refusals
    <3>2. Emptied(r).error = "none"
      BY <1>10, <1>13
    <3> QED  BY <1>1, <1>7, <1>10, <2>3, <3>1, <3>2, CountRead DEF Counted
  <2>5. Outcome(Counted(r), t, lost, Len(c.items) <= MaxItems)
    BY <2>4 DEF CountTaken
  <2>6. CASE Counted(r).error # "none"
    <3>1. Bodied(r) = Counted(r)
      BY <2>5, <2>6, StoppedItems DEF Bodied, Outcome
    <3>2. s = Counted(r)
      BY <1>11, <2>6, <3>1 DEF Stopped
    <3>3. Outcome(Counted(r), rest, lost, FitsChannel(c))
      BY <1>9, <2>5, <2>6 DEF Outcome
    <3> QED  BY <2>6, <3>2, <3>3 DEF ChannelTaken, s
  <2>7. CASE Counted(r).error = "none"
    <3>1. Counted(r).num = Len(c.items) /\ Counted(r).items = <<>> /\ Counted(r).channels = r.channels
      BY <1>10, <2>2, <2>4, <2>7 DEF CountTaken, SameFeed
    <3>2. IsReader(Counted(r)) /\ Len(c.items) <= MaxItems /\ Ahead(Counted(r), b, rest, lost)
      BY <2>5, <2>7, OutcomeAhead DEF t
    <3>3. ItemsTaken(Counted(r), Bodied(r), c.items, rest, lost)
      <4>1. Ahead(Counted(r), EncodeItems(c.items), rest, lost)
        BY <3>2 DEF b
      <4> DEFINE n == Len(c.items)
                 items == c.items
                 e == Counted(r)
      <4>2. n \in Nat /\ items \in [1..n -> [ItemProps -> Value]] /\ Len(items) = n
        BY <1>1
      <4>3. IsReader(e) /\ e.error = "none" /\ e.num = n /\ e.items = <<>> /\ Ahead(e, EncodeItems(items), rest, lost)
        BY <2>7, <3>1, <3>2, <4>1
      <4> HIDE DEF n, items, e
      <4>4. ItemsTaken(e, ReadItems(e), items, rest, lost)
        BY <4>2, <4>3, ItemsRead
      <4> QED  BY <4>4 DEF Bodied, items, e
    <3>4. Outcome(Bodied(r), rest, lost, FitsItems(c.items))
      BY <3>3 DEF ItemsTaken
    <3>5. Outcome(Bodied(r), rest, lost, FitsChannel(c))
      BY <1>9, <2>1, <3>2, <3>4 DEF Outcome
    <3>6. CASE Bodied(r).error # "none"
      <4>1. s = Bodied(r)
        BY <1>11, <3>6 DEF Stopped
      <4> QED  BY <3>5, <3>6, <4>1 DEF ChannelTaken, s
    <3>7. CASE Bodied(r).error = "none"
      <4>1. s = [Bodied(r) EXCEPT !.channels =
                   Append(Bodied(r).channels, [props |-> Headed(r).props, items |-> Bodied(r).items])]
        BY <1>11, <3>7 DEF Stopped
      <4>2. Bodied(r).items = StoredItem(c.items) /\ Bodied(r).channels = r.channels
        BY <3>1, <3>3, <3>7 DEF ItemsTaken
      <4>3. DOMAIN Bodied(r) = {"ahead", "error", "num", "text", "props", "items", "channels"}
        BY <3>5 DEF Outcome, IsReader
      <4>4. /\ DOMAIN s = DOMAIN Bodied(r) /\ s.ahead = Bodied(r).ahead /\ s.error = Bodied(r).error
            /\ s.channels = Append(Bodied(r).channels, [props |-> Headed(r).props, items |-> Bodied(r).items])
        BY <4>1, <4>3
      <4>5. Outcome(s, rest, lost, FitsChannel(c))
        BY <3>5, <4>4 DEF Outcome, IsReader
      <4> QED  BY <2>2, <4>2, <4>4, <4>5 DEF ChannelTaken, StoredChannel, s
    <3> QED  BY <3>6, <3>7
  <2> QED  BY <2>6, <2>7
<1> QED  BY <1>12, <1>13

(* The channels of a feed.                                                 *)
FitsChannels(feed) == \A k \in 1..Len(feed) : FitsChannel(feed[k])
StoredChannels(feed) == [k \in 1..Len(feed) |-> StoredChannel(feed[k])]
EncodeChannels(feed) == FlattenSeq([i \in DOMAIN feed |-> EncodeChannel(feed[i])])
ChannelsTaken(s, feed, rest, lost) ==
  /\ Outcome(s, rest, lost, FitsChannels(feed))
  /\ s.error = "none" => s.channels = StoredChannels(feed)
LEMMA ChannelsRead ==
  ASSUME NEW n \in Nat, NEW feed \in [1..n -> Channel], Len(feed) = n,
         NEW r, IsReader(r), r.error = "none", r.num = n, r.channels = <<>>,
         NEW rest \in Seq(Word), NEW lost \in Seq(Word), Ahead(r, EncodeChannels(feed), rest, lost)
  PROVE  ChannelsTaken(ReadChannels(r), feed, rest, lost)
<1> DEFINE seqs == [i \in DOMAIN feed |-> EncodeChannel(feed[i])]
           f == [j \in 1..n |-> StoredChannel(feed[j])]
<1>1. seqs \in [1..n -> Seq(Word)] /\ \A i \in 1..n : seqs[i] = EncodeChannel(feed[i])
  BY ChannelEncoded
<1>2. EncodeChannels(feed) = FlattenSeq(seqs)
  BY DEF EncodeChannels
<1>a. ~Stopped(r) /\ r.num \in Nat
  BY DEF Stopped
<1>b. \E h : /\ ReadChannels(r) = h[r.num] /\ h[0] = r
             /\ \A i \in 1 .. r.num : h[i] = ReadChannel(h[i - 1])
  BY <1>a, ChannelsSteps
<1>3. PICK g : /\ ReadChannels(r) = g[n] /\ g[0] = r
               /\ \A i \in 1..n : g[i] = ReadChannel(g[i - 1])
  BY <1>b
<1> DEFINE right == [k \in 0..n |-> g[k].channels = Firsts(f, k)]
           fits == [i \in 1..n |-> FitsChannel(feed[i])]
<1> HIDE DEF seqs, f
<1>4. right[0]
  <2>1. 0 \in 0..n /\ Firsts(f, 0) = <<>>
    BY FirstsGrow
  <2> QED  BY <1>3, <2>1
<1>5. Reads(g, seqs, n, right, fits, lost)
  <2> SUFFICES ASSUME NEW i \in 1..n, IsReader(g[i - 1])
               PROVE  /\ g[i - 1].error # "none" => IsReader(g[i]) /\ g[i].error = g[i - 1].error
                      /\ g[i - 1].error = "none" /\ right[i - 1] =>
                           \A t \in Seq(Word) : Ahead(g[i - 1], seqs[i], t, lost) =>
                             Outcome(g[i], t, lost, fits[i]) /\ (g[i].error = "none" => right[i])
    BY DEF Reads
  <2>1. g[i] = ReadChannel(g[i - 1]) /\ feed[i] \in Channel /\ i \in 0..n /\ i - 1 \in 0..n
    BY <1>3
  <2>2. ASSUME g[i - 1].error # "none" PROVE IsReader(g[i]) /\ g[i].error = g[i - 1].error
    BY <2>1, <2>2, StoppedChannel
  <2>3. ASSUME g[i - 1].error = "none", right[i - 1], NEW t \in Seq(Word), Ahead(g[i - 1], seqs[i], t, lost)
        PROVE  Outcome(g[i], t, lost, fits[i]) /\ (g[i].error = "none" => right[i])
    <3>1. g[i - 1].channels = Firsts(f, i - 1)
      BY <2>1, <2>3, Zenon
    <3>2. Ahead(g[i - 1], EncodeChannel(feed[i]), t, lost)
      BY <1>1, <2>3
    <3>3. ChannelTaken(g[i - 1], ReadChannel(g[i - 1]), feed[i], t, lost)
      BY <2>1, <2>3, <3>2, ChannelRead
    <3>4. Append(Firsts(f, i - 1), f[i]) = Firsts(f, i)
      <4>1. i - 1 \in Nat /\ (i - 1) + 1 = i
        OBVIOUS
      <4> QED  BY <4>1, FirstsGrow
    <3>5. f[i] = StoredChannel(feed[i])
      BY DEF f
    <3>6. fits[i] = FitsChannel(feed[i])
      OBVIOUS
    <3>7. ASSUME g[i].error = "none" PROVE right[i]
      <4>1. g[i].channels = Firsts(f, i)
        BY <2>1, <3>1, <3>3, <3>4, <3>5, <3>7 DEF ChannelTaken
      <4> QED  BY <2>1, <4>1, Zenon
    <3>8. Outcome(g[i], t, lost, fits[i])
      BY <2>1, <3>3, <3>6 DEF ChannelTaken
    <3> QED  BY <3>7, <3>8
  <2> QED  BY <2>2, <2>3
<1>6. /\ Outcome(g[n], rest, lost, \A i \in 1..n : fits[i])
      /\ g[n].error = "none" => right[n]
  <2> HIDE DEF right, fits
  <2>1. IsReader(g[0]) /\ g[0].error = "none" /\ Ahead(g[0], FlattenSeq(seqs), rest, lost)
    BY <1>2, <1>3
  <2> QED  BY <1>1, <1>4, <1>5, <2>1, ReadsAll
<1>7. (\A i \in 1..n : fits[i]) <=> FitsChannels(feed)
  BY DEF FitsChannels
<1>8. Firsts(f, n) = StoredChannels(feed)
  BY DEF StoredChannels, Firsts, f
<1>9. n \in 0..n
  OBVIOUS
<1> HIDE DEF fits
<1>10. g[n].error = "none" => g[n].channels = Firsts(f, n)
  BY <1>6, <1>9, Zenon
<1>11. Outcome(g[n], rest, lost, FitsChannels(feed))
  BY <1>6, <1>7 DEF Outcome
<1> QED  BY <1>3, <1>8, <1>10, <1>11 DEF ChannelsTaken

(* A feed: Data.read after Data.write.                                     *)
LEMMA FeedEncoded ==
  ASSUME NEW feed \in Seq(Channel)
  PROVE  /\ Len(feed) \in Nat /\ feed \in [1 .. Len(feed) -> Channel]
         /\ EncodeChannels(feed) \in Seq(Word) /\ Encode(feed) \in Seq(Word) /\ Encode(feed) # <<>>
         /\ Magic \in Word /\ <<Magic>> \in Seq(Word) /\ <<Len(feed)>> \in Seq(Word)
         /\ <<Magic>> \o <<Len(feed)>> \in Seq(Word)
         /\ Encode(feed) = (<<Magic>> \o <<Len(feed)>>) \o EncodeChannels(feed)
<1>1. Len(feed) \in Nat /\ feed \in [1 .. Len(feed) -> Channel]
  BY LenProperties
<1>2. EncodeChannels(feed) \in Seq(Word)
  <2> DEFINE n == Len(feed)
             seqs == [i \in DOMAIN feed |-> EncodeChannel(feed[i])]
  <2>1. n \in Nat /\ seqs \in [1..n -> Seq(Word)]
    BY <1>1, ChannelEncoded
  <2>2. <<>> \in Seq(Word)
    OBVIOUS
  <2> HIDE DEF n, seqs
  <2>3. FlattenSeq(seqs) \in Seq(Word)
    BY <2>1, <2>2, TailsExist
  <2> QED  BY <2>3 DEF EncodeChannels, seqs
<1>3. Magic \in Word /\ Len(feed) \in Word
  BY <1>1 DEF Word
<1>4. <<Magic>> \in Seq(Word) /\ <<Len(feed)>> \in Seq(Word)
  BY <1>3
<1>5. <<Magic>> \o <<Len(feed)>> \in Seq(Word)
  BY <1>4, Joined
<1>6. <<Magic>> \o <<Len(feed)>> = <<Magic, Len(feed)>>
  <2> DEFINE x == Magic
             y == Len(feed)
  <2>1. x \in Word /\ y \in Word /\ <<x>> \in Seq(Word)
    BY <1>3
  <2> HIDE DEF x, y
  <2>2. Append(<<x>>, y) = <<x>> \o <<y>>
    BY <2>1, AppendIsConcat
  <2>3. Append(<<x>>, y) = <<x, y>>
    <3>1. /\ Append(<<x>>, y) \in Seq(Word) /\ Len(Append(<<x>>, y)) = Len(<<x>>) + 1
          /\ \A i \in 1 .. Len(<<x>>) : Append(<<x>>, y)[i] = <<x>>[i]
          /\ Append(<<x>>, y)[Len(<<x>>) + 1] = y
      BY <2>1, AppendProperties
    <3> DEFINE s == Append(<<x>>, y)
    <3> HIDE DEF s
    <3>2. s \in Seq(Word) /\ Len(s) = 2 /\ s[1] = x /\ s[2] = y
      BY <3>1 DEF s
    <3>3. <<x, y>> \in Seq(Word) /\ Len(<<x, y>>) = 2 /\ <<x, y>>[1] = x /\ <<x, y>>[2] = y
      BY <2>1
    <3>4. \A i \in 1..2 : i = 1 \/ i = 2
      OBVIOUS
    <3>5. s = <<x, y>>
      BY <3>2, <3>3, <3>4, SameSeq
    <3> QED  BY <3>5 DEF s
  <2> QED  BY <2>2, <2>3 DEF x, y
<1>7. Encode(feed) = (<<Magic>> \o <<Len(feed)>>) \o EncodeChannels(feed)
  BY <1>6 DEF Encode, EncodeChannels
<1>8. Encode(feed) \in Seq(Word)
  BY <1>2, <1>5, <1>7, Joined
<1>9. Encode(feed) # <<>>
  <2> DEFINE head == <<Magic>> \o <<Len(feed)>>
             tail == EncodeChannels(feed)
  <2>1. Len(head) = 2
    BY <1>6
  <2>2. head \in Seq(Word) /\ tail \in Seq(Word) /\ Encode(feed) = head \o tail
    BY <1>2, <1>5, <1>7
  <2> HIDE DEF head, tail
  <2>3. Len(head \o tail) = Len(head) + Len(tail) /\ Len(tail) \in Nat
    BY <2>2, ConcatProperties, LenProperties
  <2> QED  BY <2>1, <2>2, <2>3, EmptySeq
<1> QED  BY <1>1, <1>2, <1>3, <1>4, <1>5, <1>7, <1>8, <1>9

FitsFeed(feed) == Len(feed) <= MaxChannels /\ FitsChannels(feed)
FeedTaken(s, feed, lost) ==
  /\ Outcome(s, <<>>, lost, FitsFeed(feed))
  /\ s.error = "none" => s.channels = StoredChannels(feed)
LEMMA FeedRead ==
  ASSUME NEW feed \in Seq(Channel), NEW words \in Seq(Word), NEW lost \in Seq(Word), words \o lost = Encode(feed)
  PROVE  FeedTaken(Decode(words), feed, lost)
<1> DEFINE r == [ahead |-> words, error |-> "none", num |-> 0, text |-> <<>>,
                 props |-> EmptyItem, items |-> <<>>, channels |-> <<>>]
           magic == TakeInt(r)
           count == TakeCount(magic, MaxChannels, "TooManyChannels")
           s == Decode(words)
           n == Len(feed)
           a == <<Magic>>
           m == <<n>>
           b == EncodeChannels(feed)
<1>1. /\ n \in Nat /\ feed \in [1..n -> Channel] /\ Magic \in Word
      /\ a \in Seq(Word) /\ m \in Seq(Word) /\ b \in Seq(Word) /\ a \o m \in Seq(Word)
      /\ Encode(feed) = (a \o m) \o b /\ Encode(feed) \in Seq(Word)
  BY FeedEncoded
<1>2. s = IF Stopped(magic) THEN magic
          ELSE IF magic.num # Magic THEN Stop(magic, "InvalidFormat") ELSE ReadChannels(count)
  BY DEF Decode
<1>3. IsReader(r) /\ r.error = "none" /\ r.channels = <<>> /\ r.ahead = words
  BY DEF IsReader
<1> DEFINE none == <<>>
<1>4. none \in Seq(Word)
  OBVIOUS
<1> HIDE DEF r, s, a, m, b, n, none
<1>5. b \o none \in Seq(Word) /\ b \o none = b
  BY <1>1, Joined DEF none
<1>6. Ahead(r, a, m \o b, lost) /\ m \o b \in Seq(Word)
  <2> DEFINE am == a \o m
             all == am \o b
  <2>1. all \in Seq(Word) /\ am \in Seq(Word) /\ all = Encode(feed)
    BY <1>1
  <2> HIDE DEF all
  <2>2. all \o none = all
    BY <2>1 DEF none
  <2>3. Ahead(r, all, none, lost)
    BY <1>3, <2>1, <2>2 DEF Ahead
  <2>4. Ahead(r, am \o b, none, lost)
    BY <2>3 DEF all
  <2> HIDE DEF am
  <2>5. Ahead(r, am, b \o none, lost)
    BY <1>1, <1>4, <2>1, <2>4, AheadSplits
  <2>6. Ahead(r, am, b, lost)
    BY <1>5, <2>5
  <2>7. Ahead(r, a \o m, b, lost)
    BY <2>6 DEF am
  <2> QED  BY <1>1, <2>7, AheadSplits
<1>7. IntTaken(r, magic, Magic, m \o b, lost)
  BY <1>1, <1>3, <1>6, IntRead DEF a
<1> HIDE DEF magic
<1>8. Outcome(magic, m \o b, lost, TRUE)
  BY <1>7 DEF IntTaken
<1>9. CASE magic.error # "none"
  <2>1. s = magic
    BY <1>2, <1>9 DEF Stopped
  <2>2. Outcome(magic, none, lost, FitsFeed(feed))
    BY <1>8, <1>9 DEF Outcome
  <2> QED  BY <1>9, <2>1, <2>2 DEF FeedTaken, s, none
<1>10. CASE magic.error = "none"
  <2>1. magic.num = Magic /\ magic.channels = <<>>
    BY <1>3, <1>7, <1>10 DEF IntTaken, SameFeed
  <2>2. s = ReadChannels(count)
    BY <1>2, <1>10, <2>1 DEF Stopped
  <2>3. IsReader(magic) /\ Ahead(magic, m, b, lost)
    BY <1>8, <1>10, OutcomeAhead
  <2>4. CountTaken(magic, count, n, MaxChannels, b, lost)
    <3>1. "TooManyChannels" \in Refusals /\ MaxChannels \in Nat
      BY CacheAssumption DEF Refusals
    <3> QED  BY <1>1, <1>10, <2>3, <3>1, CountRead DEF m
  <2> HIDE DEF count
  <2>5. Outcome(count, b, lost, n <= MaxChannels)
    BY <2>4 DEF CountTaken
  <2>6. FitsFeed(feed) <=> n <= MaxChannels /\ FitsChannels(feed)
    BY DEF FitsFeed, n
  <2>7. CASE count.error # "none"
    <3>1. s = count
      BY <2>2, <2>5, <2>7, StoppedItems DEF Outcome
    <3>2. Outcome(count, none, lost, FitsFeed(feed))
      BY <2>5, <2>6, <2>7 DEF Outcome
    <3> QED  BY <2>7, <3>1, <3>2 DEF FeedTaken, s, none
  <2>8. CASE count.error = "none"
    <3>1. count.num = n /\ count.channels = <<>>
      BY <2>1, <2>4, <2>8 DEF CountTaken, SameFeed
    <3>2. Outcome(count, b \o none, lost, n <= MaxChannels)
      BY <1>5, <2>5
    <3>3. IsReader(count) /\ n <= MaxChannels /\ Ahead(count, EncodeChannels(feed), none, lost)
      BY <2>8, <3>2, OutcomeAhead DEF b
    <3>4. ChannelsTaken(s, feed, none, lost)
      <4>1. Len(feed) = n
        BY DEF n
      <4> QED  BY <1>1, <1>4, <2>2, <2>8, <3>1, <3>3, <4>1, ChannelsRead
    <3>5. Outcome(s, none, lost, FitsFeed(feed))
      BY <2>6, <3>3, <3>4 DEF ChannelsTaken, Outcome
    <3> QED  BY <3>4, <3>5 DEF FeedTaken, ChannelsTaken, s, none
  <2> QED  BY <2>7, <2>8
<1> QED  BY <1>9, <1>10

-----------------------------------------------------------------------------
(* The limits of what is read, and what comes back, as CacheFile says it.  *)
LEMMA LimitsFit ==
  ASSUME NEW feed \in Seq(Channel), WithinLimits(feed)
  PROVE  FitsFeed(feed)
<1>1. Len(feed) \in Nat /\ feed \in [1 .. Len(feed) -> Channel]
  BY FeedEncoded
<1>2. \A k \in 1..Len(feed) : feed[k] \in ToSet(feed)
  BY <1>1 DEF ToSet
<1>3. ASSUME NEW k \in 1..Len(feed) PROVE FitsChannel(feed[k])
  <2> DEFINE c == feed[k]
  <2>1. c \in Channel /\ c \in ToSet(feed)
    BY <1>1, <1>2
  <2> HIDE DEF c
  <2>2. Len(c.items) <= MaxItems
    BY <2>1 DEF WithinLimits
  <2>3. \A v \in Values(feed) : FitsValue(v)
    BY DEF WithinLimits, FitsValue
  <2>4. ASSUME NEW p \in ChannelProps PROVE c.props[p] \in Values(feed)
    <3>1. c.props[p] \in {c.props[q] : q \in ChannelProps}
      BY Zenon
    <3>2. {c.props[q] : q \in ChannelProps} \in {{d.props[q] : q \in ChannelProps} : d \in ToSet(feed)}
      BY <2>1, Zenon
    <3> QED  BY <3>1, <3>2, Zenon DEF Values
  <2>5. FitsProps(c.props, ChannelProps)
    BY <2>3, <2>4 DEF FitsProps
  <2>6. Len(c.items) \in Nat /\ c.items \in [1 .. Len(c.items) -> [ItemProps -> Value]]
    BY <2>1, ChannelEncoded
  <2>7. ASSUME NEW i \in 1 .. Len(c.items) PROVE FitsProps(c.items[i], ItemProps)
    <3> DEFINE item == c.items[i]
    <3>1. item \in ToSet(c.items)
      BY <2>6 DEF ToSet
    <3> HIDE DEF item
    <3>2. item \in UNION {ToSet(d.items) : d \in ToSet(feed)}
      BY <2>1, <3>1
    <3>3. ASSUME NEW p \in ItemProps PROVE item[p] \in Values(feed)
      <4>1. item[p] \in {item[q] : q \in ItemProps}
        BY Zenon
      <4>2. {item[q] : q \in ItemProps} \in
              {{i2[q] : q \in ItemProps} : i2 \in UNION {ToSet(d.items) : d \in ToSet(feed)}}
        BY <3>2, Zenon
      <4> QED  BY <4>1, <4>2, Zenon DEF Values
    <3>4. FitsProps(item, ItemProps)
      BY <2>3, <3>3 DEF FitsProps
    <3> QED  BY <3>4 DEF item
  <2>8. FitsItems(c.items)
    BY <2>7 DEF FitsItems
  <2>9. FitsChannel(c)
    BY <2>2, <2>5, <2>8 DEF FitsChannel
  <2> QED  BY <2>9 DEF c
<1>4. Len(feed) <= MaxChannels
  BY DEF WithinLimits
<1> QED  BY <1>3, <1>4 DEF FitsFeed, FitsChannels

LEMMA StoredIs ==
  ASSUME NEW feed \in Seq(Channel)
  PROVE  StoredChannels(feed) = StoredFeed(feed) /\ StoredFeed(feed) \in Seq(Channel)
<1>1. Len(feed) \in Nat /\ feed \in [1 .. Len(feed) -> Channel] /\ DOMAIN feed = 1 .. Len(feed)
  BY FeedEncoded
<1>2. ASSUME NEW c \in Channel
      PROVE  /\ StoredChannel(c) \in Channel
             /\ StoredChannel(c) = [props |-> [p \in ChannelProps |-> Stored(c.props[p])],
                                    items |-> [k \in DOMAIN c.items |->
                                                 [p \in ItemProps |-> Stored(c.items[k][p])]]]
  <2>1. /\ c.props \in [ChannelProps -> Value]
        /\ Len(c.items) \in Nat /\ c.items \in [1 .. Len(c.items) -> [ItemProps -> Value]]
        /\ DOMAIN c.items = 1 .. Len(c.items)
    BY ChannelEncoded
  <2>2. \A v \in Value : Stored(v) \in Text \cup {Null}
    BY DEF Stored, Value
  <2>3. StoredProps(c.props, ChannelProps) \in [ChannelProps -> Text \cup {Null}]
    BY <2>1, <2>2 DEF StoredProps
  <2>4. StoredItem(c.items) \in [1 .. Len(c.items) -> Item]
    BY <2>1, <2>2 DEF StoredItem, StoredProps, Item
  <2>5. StoredItem(c.items) \in Seq(Item)
    BY <2>1, <2>4, IsASeq
  <2>6. StoredChannel(c) \in Channel
    BY <2>3, <2>5 DEF StoredChannel, Channel
  <2>7. StoredItem(c.items) = [k \in DOMAIN c.items |-> [p \in ItemProps |-> Stored(c.items[k][p])]]
    BY <2>1 DEF StoredItem, StoredProps
  <2> QED  BY <2>6, <2>7 DEF StoredChannel, StoredProps
<1>3. StoredChannels(feed) = StoredFeed(feed)
  <2>1. ASSUME NEW i \in 1 .. Len(feed) PROVE StoredChannels(feed)[i] = StoredFeed(feed)[i]
    <3>1. feed[i] \in Channel
      BY <1>1
    <3>2. StoredChannels(feed)[i] = StoredChannel(feed[i])
      BY DEF StoredChannels
    <3>3. StoredFeed(feed)[i] = [props |-> [p \in ChannelProps |-> Stored(feed[i].props[p])],
                                 items |-> [k \in DOMAIN feed[i].items |->
                                              [p \in ItemProps |-> Stored(feed[i].items[k][p])]]]
      BY <1>1 DEF StoredFeed
    <3> QED  BY <1>2, <3>1, <3>2, <3>3
  <2>2. StoredChannels(feed) = [i \in 1 .. Len(feed) |-> StoredChannels(feed)[i]]
    BY DEF StoredChannels
  <2>3. StoredFeed(feed) = [i \in 1 .. Len(feed) |-> StoredFeed(feed)[i]]
    BY <1>1 DEF StoredFeed
  <2> QED  BY <2>1, <2>2, <2>3
<1>4. StoredChannels(feed) \in [1 .. Len(feed) -> Channel]
  BY <1>1, <1>2 DEF StoredChannels
<1>5. StoredChannels(feed) \in Seq(Channel)
  BY <1>1, <1>4, IsASeq
<1> QED  BY <1>3, <1>5

-----------------------------------------------------------------------------
(* The invariant: the file is a beginning of the feed that was written     *)
(* last, and an error is left only by the run that met it.                 *)
IsBeginning(words, all) == words \in Seq(Word) /\ \E lost \in Seq(Word) : words \o lost = all
CacheInv ==
  /\ CacheTypeOK
  /\ CacheIsLastFeed
  /\ ReadErrorsExplained
  /\ file # Absent => IsBeginning(file, Encode(last))
  /\ pc \in {"idle", "open"} => cache = Null
  /\ pc = "write" => file # Absent /\ last = fetched
  /\ pc # "idle" => error = "none"

(* What a run finds in such a file.                                        *)
LEMMA Found ==
  ASSUME CacheInv, file # Absent
  PROVE  /\ Stopped(Decode(file)) =>
              /\ Decode(file).error \in ReadErrors \ {"InvalidFormat"}
              /\ Decode(file).error = "EndOfStream" => file # Encode(last)
              /\ Decode(file).error # "EndOfStream" => ~WithinLimits(last)
         /\ ~Stopped(Decode(file)) => file = Encode(last) /\ Decode(file).channels = StoredFeed(last)
<1>1. last \in Seq(Channel)
  BY DEF CacheInv, CacheTypeOK
<1>2. file \in Seq(Word) /\ \E l \in Seq(Word) : file \o l = Encode(last)
  BY DEF CacheInv, IsBeginning
<1>3. PICK lost \in Seq(Word) : file \o lost = Encode(last)
  BY <1>2
<1>4. FeedTaken(Decode(file), last, lost)
  BY <1>1, <1>2, <1>3, FeedRead
<1> DEFINE s == Decode(file)
           all == Encode(last)
<1> HIDE DEF s, all
<1>5. Outcome(s, <<>>, lost, FitsFeed(last)) /\ (s.error = "none" => s.channels = StoredChannels(last))
  BY <1>4 DEF FeedTaken, s
<1>6. lost # <<>> <=> file # all
  <2>1. file \o lost = all
    BY <1>3 DEF all
  <2>2. file \o lost = file <=> lost = <<>>
    BY <1>2, <1>3, ConcatSimplifications
  <2> QED  BY <2>1, <2>2
<1>7. CASE s.error # "none"
  <2>a. \/ s.error = "EndOfStream" /\ lost # <<>>
        \/ s.error \in Refusals /\ ~FitsFeed(last)
        \/ s.error = "none" /\ FitsFeed(last) /\ s.ahead \o lost = <<>>
    BY <1>5, Zenon DEF Outcome
  <2>1. (s.error = "EndOfStream" /\ lost # <<>>) \/ (s.error \in Refusals /\ ~FitsFeed(last))
    BY <1>7, <2>a, Zenon
  <2>2. ~FitsFeed(last) => ~WithinLimits(last)
    BY <1>1, LimitsFit
  <2> QED  BY <1>6, <1>7, <2>1, <2>2 DEF Stopped, Refusals, ReadErrors, s, all
<1>8. CASE s.error = "none"
  <2>1. s.ahead \in Seq(Word) /\ s.ahead \o lost = <<>>
    BY <1>5, <1>8 DEF Outcome, IsReader, Refusals
  <2>2. lost = <<>>
    BY <1>3, <2>1, ConcatSimplifications
  <2>3. s.channels = StoredFeed(last)
    BY <1>1, <1>5, <1>8, StoredIs
  <2> QED  BY <1>6, <1>8, <2>2, <2>3 DEF Stopped, s, all
<1> QED  BY <1>7, <1>8

(* No file, no run, no error.                                              *)
LEMMA InvInit == CacheInit => CacheInv
<1> SUFFICES ASSUME CacheInit PROVE CacheInv
  OBVIOUS
<1>1. <<>> \in Seq(Channel)
  OBVIOUS
<1>2. CacheTypeOK
  BY <1>1 DEF CacheInit, CacheTypeOK
<1>3. CacheIsLastFeed
  BY DEF CacheInit, CacheIsLastFeed
<1>4. ReadErrorsExplained
  BY DEF CacheInit, ReadErrorsExplained, ReadErrors
<1> QED  BY <1>2, <1>3, <1>4 DEF CacheInit, CacheInv

(* A run that ends leaves the file, and its error has a cause.             *)
LEMMA InvEnd ==
  ASSUME CacheInv, NEW e \in {"none", "other"} \cup ReadErrors, EndRun(e), UNCHANGED <<file, last>>,
         e # "InvalidFormat", e = "EndOfStream" => file # Encode(last),
         e \in ReadErrors \ {"EndOfStream"} => ~WithinLimits(last)
  PROVE  CacheInv'
<1>1. <<>> \in Seq(Channel)
  OBVIOUS
<1>2. pc' = "idle" /\ error' = e /\ fetched' = <<>> /\ cache' = Null /\ file' = file /\ last' = last
  BY DEF EndRun
<1>3. CacheTypeOK'
  BY <1>1, <1>2 DEF CacheInv, CacheTypeOK
<1>4. CacheIsLastFeed'
  BY <1>2 DEF CacheIsLastFeed
<1>5. ReadErrorsExplained'
  BY <1>2 DEF ReadErrorsExplained
<1>6. (file # Absent => IsBeginning(file, Encode(last)))'
  BY <1>2 DEF CacheInv
<1> QED  BY <1>2, <1>3, <1>4, <1>5, <1>6 DEF CacheInv

(* One step of a run.                                                      *)
LEMMA InvNext == CacheInv /\ [CacheNext]_cacheVars => CacheInv'
<1> SUFFICES ASSUME CacheInv, [CacheNext]_cacheVars PROVE CacheInv'
  OBVIOUS
<1>t. /\ file = Absent \/ file \in Seq(Word)
      /\ fetched \in Seq(Channel) /\ last \in Seq(Channel)
      /\ cache = Null \/ cache \in Seq(Channel)
      /\ pc \in {"idle", "open", "create", "write", "merge"}
      /\ error \in {"none", "other"} \cup ReadErrors
  BY DEF CacheInv, CacheTypeOK
<1>i. /\ pc = "create" => cache = IF file = Absent THEN Null ELSE StoredFeed(last)
      /\ file # Absent => IsBeginning(file, Encode(last))
      /\ pc \in {"idle", "open"} => cache = Null
      /\ pc = "write" => file # Absent /\ last = fetched
      /\ pc # "idle" => error = "none"
  BY DEF CacheInv, CacheIsLastFeed
<1>n. "none" \notin ReadErrors /\ "other" \notin ReadErrors /\ "none" # "InvalidFormat" /\ "other" # "InvalidFormat"
      /\ "none" # "EndOfStream" /\ "other" # "EndOfStream"
  BY DEF ReadErrors
<1>1. CASE Fetch
  <2>1. /\ fetched' \in Seq(Channel) /\ pc' = "open" /\ error' = "none"
        /\ file' = file /\ cache' = cache /\ last' = last /\ pc = "idle"
    BY <1>1, CacheAssumption DEF Fetch
  <2>2. CacheTypeOK'
    BY <1>t, <2>1 DEF CacheTypeOK
  <2>3. CacheIsLastFeed'
    BY <2>1 DEF CacheIsLastFeed
  <2>4. ReadErrorsExplained'
    BY <1>n, <2>1 DEF ReadErrorsExplained
  <2> QED  BY <1>i, <2>1, <2>2, <2>3, <2>4 DEF CacheInv
<1>2. CASE FileNotFound
  <2>1. /\ pc = "open" /\ file = Absent /\ pc' = "create"
        /\ file' = file /\ fetched' = fetched /\ cache' = cache /\ error' = error /\ last' = last
    BY <1>2 DEF FileNotFound
  <2>2. CacheTypeOK'
    BY <1>t, <2>1 DEF CacheTypeOK
  <2>3. CacheIsLastFeed'
    BY <1>i, <2>1 DEF CacheIsLastFeed
  <2>4. ReadErrorsExplained'
    BY <1>i, <1>n, <2>1 DEF ReadErrorsExplained
  <2> QED  BY <1>i, <2>1, <2>2, <2>3, <2>4 DEF CacheInv
<1>3. CASE Read
  <2> DEFINE r == Decode(file)
  <2>1. pc = "open" /\ file # Absent /\ UNCHANGED <<file, last>>
    BY <1>3 DEF Read
  <2>2. IF Stopped(r) THEN EndRun(r.error)
        ELSE cache' = r.channels /\ pc' = "create" /\ UNCHANGED <<fetched, error>>
    BY <1>3 DEF Read
  <2>3. /\ Stopped(r) => /\ r.error \in ReadErrors \ {"InvalidFormat"}
                         /\ r.error = "EndOfStream" => file # Encode(last)
                         /\ r.error # "EndOfStream" => ~WithinLimits(last)
        /\ ~Stopped(r) => file = Encode(last) /\ r.channels = StoredFeed(last)
    BY <2>1, Found
  <2> HIDE DEF r
  <2>4. CASE Stopped(r)
    <3> DEFINE e == r.error
    <3>1. EndRun(e) /\ e \in ReadErrors /\ e # "InvalidFormat"
      BY <2>2, <2>3, <2>4
    <3>2. (e = "EndOfStream" => file # Encode(last)) /\ (e # "EndOfStream" => ~WithinLimits(last))
      BY <2>3, <2>4
    <3> HIDE DEF e
    <3> QED  BY <2>1, <3>1, <3>2, InvEnd
  <2>5. CASE ~Stopped(r)
    <3>1. cache' = StoredFeed(last) /\ pc' = "create" /\ fetched' = fetched /\ error' = error /\ file' = file /\ last' = last
      BY <2>1, <2>2, <2>3, <2>5
    <3>2. StoredFeed(last) \in Seq(Channel)
      BY <1>t, StoredIs
    <3>3. CacheTypeOK'
      BY <1>t, <3>1, <3>2 DEF CacheTypeOK
    <3>4. CacheIsLastFeed'
      BY <2>1, <3>1 DEF CacheIsLastFeed
    <3>5. ReadErrorsExplained'
      BY <1>i, <1>n, <2>1, <3>1 DEF ReadErrorsExplained
    <3> QED  BY <1>i, <2>1, <3>1, <3>3, <3>4, <3>5 DEF CacheInv
  <2> QED  BY <2>4, <2>5
<1>4. CASE Create
  <2>1. /\ pc = "create" /\ file' = <<>> /\ last' = fetched /\ pc' = "write"
        /\ fetched' = fetched /\ cache' = cache /\ error' = error
    BY <1>4 DEF Create
  <2>2. Encode(fetched) \in Seq(Word) /\ <<>> \in Seq(Word) /\ <<>> \o Encode(fetched) = Encode(fetched)
    <3>1. Encode(fetched) \in Seq(Word)
      BY <1>t, FeedEncoded
    <3> DEFINE all == Encode(fetched)
    <3> HIDE DEF all
    <3>2. all \in Seq(Word) => <<>> \o all = all
      BY ConcatEmptySeq
    <3> QED  BY <3>1, <3>2 DEF all
  <2>3. file' # Absent
    BY <2>1, <2>2, CacheAssumption
  <2>4. IsBeginning(<<>>, Encode(fetched))
    BY <2>2 DEF IsBeginning
  <2>5. IsBeginning(file', Encode(last'))
    BY <2>1, <2>4
  <2>6. CacheTypeOK'
    BY <1>t, <2>1, <2>2 DEF CacheTypeOK
  <2>7. CacheIsLastFeed'
    BY <2>1 DEF CacheIsLastFeed
  <2>8. ReadErrorsExplained'
    BY <1>i, <1>n, <2>1 DEF ReadErrorsExplained
  <2> QED  BY <1>i, <2>1, <2>3, <2>5, <2>6, <2>7, <2>8 DEF CacheInv
<1>5. CASE Drain
  <2>1. /\ pc = "write" /\ fetched' = fetched /\ cache' = cache /\ error' = error /\ last' = last
        /\ pc' \in {"write", "merge"}
        /\ \E n \in Len(file)+1..Len(Encode(fetched)) : file' = SubSeq(Encode(fetched), 1, n)
    BY <1>5 DEF Drain
  <2>2. last = fetched /\ file \in Seq(Word)
    BY <1>t, <1>i, <2>1
  <2>3. PICK n \in Len(file)+1..Len(Encode(last)) : file' = SubSeq(Encode(last), 1, n)
    BY <2>1, <2>2
  <2>4. Encode(last) \in Seq(Word) /\ Len(file) \in Nat
    BY <1>t, <2>2, FeedEncoded, LenProperties
  <2> DEFINE all == Encode(last)
  <2> HIDE DEF all
  <2>5. all \in Seq(Word) /\ n \in Len(file)+1..Len(all) /\ file' = SubSeq(all, 1, n)
    BY <2>3, <2>4 DEF all
  <2>6. n \in 0..Len(all)
    <3>1. Len(all) \in Nat
      BY <2>5, LenProperties
    <3> QED  BY <2>4, <2>5, <3>1
  <2>7. IsCut(Word, all, n)
    BY <2>5, <2>6, Cut
  <2>8. PICK f \in Seq(Word), t \in Seq(Word) : f = SubSeq(all, 1, n) /\ all = f \o t
    BY <2>7 DEF IsCut
  <2>9. file' \in Seq(Word) /\ file' # Absent
    BY <2>5, <2>8, CacheAssumption
  <2>10. IsBeginning(file', all)
    BY <2>5, <2>8 DEF IsBeginning
  <2>11. IsBeginning(file', Encode(last'))
    BY <2>1, <2>10 DEF all
  <2>12. CacheTypeOK'
    BY <1>t, <2>1, <2>9 DEF CacheTypeOK
  <2>13. CacheIsLastFeed'
    BY <2>1 DEF CacheIsLastFeed
  <2>14. ReadErrorsExplained'
    BY <1>i, <1>n, <2>1 DEF ReadErrorsExplained
  <2> QED  BY <1>i, <2>1, <2>2, <2>9, <2>11, <2>12, <2>13, <2>14 DEF CacheInv
<1>6. CASE Fail
  <2>1. EndRun("other") /\ UNCHANGED <<file, last>>
    BY <1>6 DEF Fail
  <2> QED  BY <1>n, <2>1, InvEnd
<1>7. CASE Compare
  <2>1. EndRun("none") /\ UNCHANGED <<file, last>>
    BY <1>7 DEF Compare
  <2> QED  BY <1>n, <2>1, InvEnd
<1>8. CASE UNCHANGED cacheVars
  <2>1. /\ file' = file /\ fetched' = fetched /\ cache' = cache /\ pc' = pc /\ error' = error /\ last' = last
    BY <1>8 DEF cacheVars
  <2> QED  BY <2>1 DEF CacheInv, CacheTypeOK, CacheIsLastFeed, ReadErrorsExplained
<1> QED  BY <1>1, <1>2, <1>3, <1>4, <1>5, <1>6, <1>7, <1>8 DEF CacheNext

-----------------------------------------------------------------------------
(* The invariant holds throughout.                                         *)
LEMMA InvHolds == CacheSpec => []CacheInv
<1>1. CacheInit => CacheInv
  BY InvInit
<1>2. CacheInv /\ [CacheNext]_cacheVars => CacheInv'
  BY InvNext
<1> QED  BY <1>1, <1>2, PTL DEF CacheSpec

(* Whatever was fetched and written, and wherever runs were cut short: what *)
(* Data.read returns is the feed of the run that wrote the file last, with  *)
(* every value in its place; and it fails only on a file that is not whole  *)
(* or on a feed beyond its limits.                                         *)
THEOREM ReadsLastFeedHolds == CacheSpec => []ReadsLastFeed
<1>1. CacheInv => ReadsLastFeed
  BY DEF CacheInv, ReadsLastFeed
<1> QED  BY <1>1, InvHolds, PTL

(* A file that is not the whole of what its run had to write is never read *)
(* as a feed: the next run that opens it fails and leaves it.              *)
THEOREM TornIsNoticedHolds == CacheSpec => TornIsNoticed
<1> DEFINE Noticed == (pc = "open" /\ file # Absent /\ file # Encode(last)) => file' = file /\ pc' = "idle"
<1>1. CacheInv /\ [CacheNext]_cacheVars => [Noticed]_cacheVars
  <2> SUFFICES ASSUME CacheInv, CacheNext, pc = "open", file # Absent, file # Encode(last)
               PROVE  file' = file /\ pc' = "idle"
    BY Zenon
  <2>1. CASE Read
    <3>1. Stopped(Decode(file))
      BY Found
    <3>2. EndRun(Decode(file).error) /\ UNCHANGED <<file, last>>
      BY <2>1, <3>1 DEF Read
    <3> QED  BY <3>2 DEF EndRun
  <2>2. CASE Fail
    BY <2>2 DEF Fail, EndRun
  <2>3. ~Fetch /\ ~FileNotFound /\ ~Create /\ ~Drain /\ ~Compare
    BY DEF Fetch, FileNotFound, Create, Drain, Compare
  <2> QED  BY <2>1, <2>2, <2>3 DEF CacheNext
<1>2. CacheSpec => [][Noticed]_cacheVars
  BY <1>1, InvHolds, PTL DEF CacheSpec
<1> QED  BY <1>2 DEF TornIsNoticed

-----------------------------------------------------------------------------
(* The dates.                                                              *)
(* Where the months begin in a year that is counted from March.          *)
MonthStart(m) ==
  CASE m = 3 -> 0 [] m = 4 -> 31 [] m = 5 -> 61 [] m = 6 -> 92 [] m = 7 -> 122
    [] m = 8 -> 153 [] m = 9 -> 184 [] m = 10 -> 214 [] m = 11 -> 245 [] m = 12 -> 275
    [] m = 1 -> 306 [] m = 2 -> 337

(* The formula with 153 in it finds the beginnings of all months.        *)
LEMMA MonthBegins ==
  ASSUME NEW m \in 1..12, NEW d \in Int
  PROVE  DayOfYear(m, d) = MonthStart(m) + d - 1
<1>1. CASE m = 1  BY <1>1 DEF DayOfYear, MonthOfYear, MonthStart
<1>2. CASE m = 2  BY <1>2 DEF DayOfYear, MonthOfYear, MonthStart
<1>3. CASE m = 3  BY <1>3 DEF DayOfYear, MonthOfYear, MonthStart
<1>4. CASE m = 4  BY <1>4 DEF DayOfYear, MonthOfYear, MonthStart
<1>5. CASE m = 5  BY <1>5 DEF DayOfYear, MonthOfYear, MonthStart
<1>6. CASE m = 6  BY <1>6 DEF DayOfYear, MonthOfYear, MonthStart
<1>7. CASE m = 7  BY <1>7 DEF DayOfYear, MonthOfYear, MonthStart
<1>8. CASE m = 8  BY <1>8 DEF DayOfYear, MonthOfYear, MonthStart
<1>9. CASE m = 9  BY <1>9 DEF DayOfYear, MonthOfYear, MonthStart
<1>10. CASE m = 10  BY <1>10 DEF DayOfYear, MonthOfYear, MonthStart
<1>11. CASE m = 11  BY <1>11 DEF DayOfYear, MonthOfYear, MonthStart
<1>12. CASE m = 12  BY <1>12 DEF DayOfYear, MonthOfYear, MonthStart
<1> QED  BY <1>1, <1>2, <1>3, <1>4, <1>5, <1>6, <1>7, <1>8, <1>9, <1>10, <1>11, <1>12

(* Every month but February is as long as the next one begins later.     *)
LEMMA MonthLengths ==
  ASSUME NEW m \in 1..11, m # 2, NEW y \in Int
  PROVE  MonthStart(m + 1) = MonthStart(m) + DaysIn(y, m)
<1>1. CASE m \in {1, 3, 4, 5}  BY <1>1 DEF MonthStart, DaysIn
<1>2. CASE m \in {6, 7, 8}  BY <1>2 DEF MonthStart, DaysIn
<1>3. CASE m \in {9, 10, 11}  BY <1>3 DEF MonthStart, DaysIn
<1> QED  BY <1>1, <1>2, <1>3

(* The number of leap days of the years 1 to y.                          *)
LeapDays(y) == y \div 4 - y \div 100 + y \div 400

(* The days before a year that begins in March, counted from the year 0, *)
(* and what the code adds up for an era e and a year r of the era.       *)
YearDays(s) == 365 * s + LeapDays(s)
EraDays(e, r) == e * 146097 + (r * 365 + r \div 4 - r \div 100)

(* Splitting a year into its era and its year of the era is no loss.     *)
LEMMA EraDaysAreYearDays ==
  ASSUME NEW s \in Int
  PROVE  EraDays(s \div 400, s - (s \div 400) * 400) = YearDays(s)
<1>1. PICK e \in Int : e = s \div 400
  OBVIOUS
<1>2. PICK r \in 0..399 : r = s - e * 400
  BY <1>1
<1>3. s = 400 * e + r
  BY <1>2
<1>4. s \div 4 = 100 * e + r \div 4
  BY <1>3
<1>5. s \div 100 = 4 * e + r \div 100
  BY <1>3
<1>6. r \div 4 \in Int /\ r \div 100 \in Int
  OBVIOUS
<1>7. EraDays(e, r) = YearDays(s)
  BY <1>1, <1>3, <1>4, <1>5, <1>6 DEF LeapDays, EraDays, YearDays
<1> QED  BY <1>1, <1>2, <1>7

(* The days since the epoch, without eras: years of 365 days, their leap *)
(* days, and the day of the year that begins in March.                   *)
LEMMA MarchYear ==
  ASSUME NEW y \in Int, NEW m \in 1..12, NEW d \in Int
  PROVE  DaysSinceEpoch(y, m, d) =
           365 * ShiftedYear(y, m) + LeapDays(ShiftedYear(y, m)) + DayOfYear(m, d) - 719468
<1>1. ShiftedYear(y, m) \in Int
  BY DEF ShiftedYear
<1>2. PICK e : e = Era(y, m)
  OBVIOUS
<1>3. PICK r : r = YearOfEra(y, m)
  OBVIOUS
<1>4. e \in Int /\ r \in Int
  BY <1>1, <1>2, <1>3 DEF Era, YearOfEra
<1>5. DayOfYear(m, d) \in Int /\ r \div 4 \in Int /\ r \div 100 \in Int
  BY <1>4 DEF DayOfYear, MonthOfYear
<1>6. DaysSinceEpoch(y, m, d) = EraDays(e, r) + DayOfYear(m, d) - 719468
  BY <1>2, <1>3, <1>4, <1>5 DEF DaysSinceEpoch, DayOfEra, EraDays
<1>7. EraDays(e, r) = YearDays(ShiftedYear(y, m))
  BY <1>1, <1>2, <1>3, EraDaysAreYearDays DEF Era, YearOfEra
<1> QED  BY <1>6, <1>7 DEF YearDays

(* A leap year has one leap day more than the year before.               *)
LEMMA LeapDay ==
  ASSUME NEW y \in Int
  PROVE  LeapDays(y) = LeapDays(y - 1) + (IF Leap(y) THEN 1 ELSE 0)
<1>1. y \div 4 = (y - 1) \div 4 + (IF y % 4 = 0 THEN 1 ELSE 0)
  OBVIOUS
<1>2. y \div 100 = (y - 1) \div 100 + (IF y % 100 = 0 THEN 1 ELSE 0)
  OBVIOUS
<1>3. y \div 400 = (y - 1) \div 400 + (IF y % 400 = 0 THEN 1 ELSE 0)
  OBVIOUS
<1>4. (y % 100 = 0 => y % 4 = 0) /\ (y % 400 = 0 => y % 100 = 0)
  OBVIOUS
<1> QED  BY <1>1, <1>2, <1>3, <1>4 DEF Leap, LeapDays

-----------------------------------------------------------------------------
(* The day after a date is one day further from the epoch, within a month, *)
(* from one month to the next, and from one year to the next.            *)
LEMMA DayAfter ==
  ASSUME NEW y \in Int, NEW m \in 1..12, NEW d \in Int
  PROVE  DaysSinceEpoch(y, m, d + 1) = DaysSinceEpoch(y, m, d) + 1
<1>1. DayOfYear(m, d + 1) = DayOfYear(m, d) + 1 /\ DayOfYear(m, d) \in Int
  BY DEF DayOfYear, MonthOfYear
<1>2. ShiftedYear(y, m) \in Int
  BY DEF ShiftedYear
<1>3. LeapDays(ShiftedYear(y, m)) \in Int
  BY <1>2 DEF LeapDays
<1> QED  BY <1>1, <1>2, <1>3, MarchYear

(* The first of a month follows the last of the month before it.         *)
LEMMA MonthAfter ==
  ASSUME NEW y \in Int, NEW m \in 1..11
  PROVE  DaysSinceEpoch(y, m + 1, 1) = DaysSinceEpoch(y, m, DaysIn(y, m)) + 1
<1>0. DaysIn(y, m) \in Int /\ m \in 1..12 /\ m + 1 \in 1..12
  BY DEF DaysIn
<1>1. LeapDays(y) \in Int /\ LeapDays(y - 1) \in Int
  BY DEF LeapDays
<1>2. DayOfYear(m, DaysIn(y, m)) = MonthStart(m) + DaysIn(y, m) - 1
  BY <1>0, MonthBegins
<1>3. DayOfYear(m + 1, 1) = MonthStart(m + 1)
  <2>1. MonthStart(m + 1) \in Int
    BY <1>0 DEF MonthStart
  <2> QED  BY <1>0, <2>1, MonthBegins
<1>4. MonthStart(m) \in Int /\ MonthStart(m + 1) \in Int
  BY <1>0 DEF MonthStart
<1>5. CASE m = 2
  <2>1. ShiftedYear(y, m) = y - 1 /\ ShiftedYear(y, m + 1) = y
    BY <1>5 DEF ShiftedYear
  <2>2. MonthStart(m) = 337 /\ MonthStart(m + 1) = 0
    BY <1>5 DEF MonthStart
  <2>3. DaysIn(y, m) = 28 + (IF Leap(y) THEN 1 ELSE 0)
    BY <1>5 DEF DaysIn
  <2>4. LeapDays(y) = LeapDays(y - 1) + (IF Leap(y) THEN 1 ELSE 0)
    BY LeapDay
  <2>5. DaysSinceEpoch(y, m + 1, 1) = 365 * y + LeapDays(y) - 719468
    BY <1>0, <1>1, <1>3, <2>1, <2>2, MarchYear
  <2>6. DaysSinceEpoch(y, m, DaysIn(y, m)) =
          365 * (y - 1) + LeapDays(y - 1) + (337 + DaysIn(y, m) - 1) - 719468
    BY <1>0, <1>1, <1>2, <2>1, <2>2, MarchYear
  <2> QED  BY <1>0, <1>1, <2>3, <2>4, <2>5, <2>6
<1>6. CASE m # 2
  <2>1. ShiftedYear(y, m + 1) = ShiftedYear(y, m) /\ ShiftedYear(y, m) \in {y, y - 1}
    BY <1>6 DEF ShiftedYear
  <2>2. MonthStart(m + 1) = MonthStart(m) + DaysIn(y, m)
    BY <1>6, MonthLengths
  <2>3. LeapDays(ShiftedYear(y, m)) \in Int
    BY <1>1, <2>1
  <2>4. DaysSinceEpoch(y, m + 1, 1) =
          365 * ShiftedYear(y, m) + LeapDays(ShiftedYear(y, m)) + MonthStart(m + 1) - 719468
    BY <1>0, <1>3, <2>1, MarchYear
  <2>5. DaysSinceEpoch(y, m, DaysIn(y, m)) =
          365 * ShiftedYear(y, m) + LeapDays(ShiftedYear(y, m))
            + (MonthStart(m) + DaysIn(y, m) - 1) - 719468
    BY <1>0, <1>2, MarchYear
  <2> QED  BY <1>0, <1>4, <2>1, <2>2, <2>3, <2>4, <2>5
<1> QED  BY <1>5, <1>6

(* The first of January follows the last of December.                    *)
LEMMA YearAfter ==
  ASSUME NEW y \in Int
  PROVE  DaysSinceEpoch(y + 1, 1, 1) = DaysSinceEpoch(y, 12, 31) + 1
<1>1. ShiftedYear(y + 1, 1) = y /\ ShiftedYear(y, 12) = y
  BY DEF ShiftedYear
<1>2. DayOfYear(1, 1) = 306 /\ DayOfYear(12, 31) = 305
  BY MonthBegins DEF MonthStart
<1>3. LeapDays(y) \in Int
  BY DEF LeapDays
<1> QED  BY <1>1, <1>2, <1>3, MarchYear

-----------------------------------------------------------------------------
(* A walk stays within the dates that can be read.                       *)
THEOREM TypeCorrect == Spec => []TypeOK
<1>1. Init => TypeOK
  BY DateTimeAssumption DEF Init, TypeOK
<1>2. TypeOK /\ [Next]_vars => TypeOK'
  <2> SUFFICES ASSUME TypeOK, [Next]_vars  PROVE TypeOK'
    OBVIOUS
  <2>1. CASE NextDay
    <3>1. DaysIn(year, month) \in 28..31
      BY DEF DaysIn
    <3> QED  BY <2>1, <3>1 DEF NextDay, TypeOK
  <2>2. CASE NextMonth
    BY <2>2 DEF NextMonth, TypeOK
  <2>3. CASE NextYear
    <3>1. year + 1 \in 0..9999
      BY <2>3, DateTimeAssumption DEF NextYear, TypeOK
    <3> QED  BY <2>3, <3>1 DEF NextYear, TypeOK
  <2>4. CASE UNCHANGED vars
    BY <2>4 DEF vars, TypeOK
  <2> QED  BY <2>1, <2>2, <2>3, <2>4 DEF Next
<1> QED  BY <1>1, <1>2, PTL DEF Spec

(* The day number the algorithm finds is the number of days one counts, on *)
(* every date of every walk; in particular it grows from day to day, so  *)
(* that comparing two dates by it puts them in the order of the calendar. *)
THEOREM DaysCorrectHolds == Spec => []DaysCorrect
<1> DEFINE Agrees == DaysSinceEpoch(year, month, day) = elapsed
<1>1. Init => Agrees
  <2> SUFFICES ASSUME Init  PROVE Agrees
    OBVIOUS
  <2>1. PICK k \in 0..24 : year = 400 * k
    BY DateTimeAssumption DEF Init
  <2>2. ShiftedYear(year, 1) = 400 * k - 1
    BY <2>1 DEF ShiftedYear
  <2>3. LeapDays(400 * k - 1) = 97 * k - 1
    BY DEF LeapDays
  <2>4. DayOfYear(1, 1) = 306
    BY MonthBegins DEF MonthStart
  <2>5. DaysSinceEpoch(year, 1, 1) =
          365 * (400 * k - 1) + (97 * k - 1) + 306 - 719468
    BY <2>1, <2>2, <2>3, <2>4, MarchYear
  <2>6. elapsed = k * 146097 - 719528 /\ month = 1 /\ day = 1
    BY <2>1 DEF Init
  <2> QED  BY <2>5, <2>6
<1>2. TypeOK /\ Agrees /\ [Next]_vars => Agrees'
  <2> SUFFICES ASSUME TypeOK, Agrees, [Next]_vars  PROVE Agrees'
    OBVIOUS
  <2>0. year \in Int /\ month \in 1..12 /\ day \in Int /\ elapsed \in Int
    BY DEF TypeOK
  <2>1. CASE NextDay
    BY <2>0, <2>1, DayAfter DEF NextDay
  <2>2. CASE NextMonth
    <3>1. month \in 1..11
      BY <2>0, <2>2 DEF NextMonth
    <3> QED  BY <2>0, <2>2, <3>1, MonthAfter DEF NextMonth
  <2>3. CASE NextYear
    <3>1. day = 31 /\ month = 12
      BY <2>3 DEF NextYear, DaysIn
    <3> QED  BY <2>0, <2>3, <3>1, YearAfter DEF NextYear
  <2>4. CASE UNCHANGED vars
    BY <2>4 DEF vars
  <2> QED  BY <2>1, <2>2, <2>3, <2>4 DEF Next
<1>3. DaysSinceEpoch(1970, 1, 1) = 0
  BY DEF DaysSinceEpoch, DayOfEra, DayOfYear, MonthOfYear, YearOfEra, Era, ShiftedYear
<1>4. Agrees => DaysCorrect
  BY <1>3 DEF DaysCorrect
<1> HIDE DEF Agrees
<1> QED  BY <1>1, <1>2, <1>4, TypeCorrect, PTL DEF Spec

-----------------------------------------------------------------------------
(* A walk visits no day that its month does not have.                    *)
DayExists == day <= DaysIn(year, month)

(* No step of the walk leaves the days of a month.                       *)
LEMMA DayExistsHolds == Spec => []DayExists
<1>1. Init => DayExists
  BY DEF Init, DayExists, DaysIn
<1>2. TypeOK /\ DayExists /\ [Next]_vars => DayExists'
  <2> SUFFICES ASSUME TypeOK, DayExists, [Next]_vars  PROVE DayExists'
    OBVIOUS
  <2>1. CASE NextDay
    <3>1. DaysIn(year, month) \in Int /\ day \in Int
      BY DEF DaysIn, TypeOK
    <3> QED  BY <2>1, <3>1 DEF NextDay, DayExists
  <2>2. CASE NextMonth \/ NextYear
    <3>1. \A y, m : 1 <= DaysIn(y, m)
      BY DEF DaysIn
    <3> QED  BY <2>2, <3>1 DEF NextMonth, NextYear, DayExists
  <2>3. CASE UNCHANGED vars
    BY <2>3 DEF vars, DayExists
  <2> QED  BY <2>1, <2>2, <2>3 DEF Next
<1> QED  BY <1>1, <1>2, TypeCorrect, PTL DEF Spec

(* The ranges the comments of the algorithm give are right for every date *)
(* of the calendar: no intermediate result leaves its i32.               *)
THEOREM RangesHoldAlways == Spec => []RangesHold
<1>1. TypeOK /\ DayExists => RangesHold
  <2> SUFFICES ASSUME TypeOK, DayExists  PROVE RangesHold
    OBVIOUS
  <2>1. ShiftedYear(year, month) \in Int
    BY DEF TypeOK, ShiftedYear
  <2>2. YearOfEra(year, month) \in 0..399
    BY <2>1 DEF YearOfEra, Era
  <2>3. MonthOfYear(month) \in 0..11
    BY DEF TypeOK, MonthOfYear
  <2>4. DayOfYear(month, day) = MonthStart(month) + day - 1
    BY MonthBegins DEF TypeOK
  <2>5. CASE month = 2
    <3>1. day \in 1..29
      BY <2>5 DEF TypeOK, DayExists, DaysIn
    <3>2. MonthStart(month) = 337
      BY <2>5 DEF MonthStart
    <3> QED  BY <2>2, <2>3, <2>4, <3>1, <3>2 DEF RangesHold
  <2>6. CASE month # 2
    <3>1. MonthStart(month) \in 0..306
      BY <2>6 DEF TypeOK, MonthStart
    <3> QED  BY <2>2, <2>3, <2>4, <3>1 DEF RangesHold, TypeOK
  <2> QED  BY <2>5, <2>6
<1> QED  BY <1>1, TypeCorrect, DayExistsHolds, PTL

(* How many days from the epoch the days of some years are: s is the year *)
(* that begins in March, l its leap days and d the day of it.            *)
LEMMA DaysOfYears ==
  ASSUME NEW y \in Int, NEW s \in Int, NEW l \in Int, NEW d \in Int,
         -1 <= s, s <= 9999,
         l = s \div 4 - s \div 100 + s \div 400,
         \/ s = y - 1 /\ d \in 306..365
         \/ s = y /\ d \in 0..305
  PROVE  LET n == 365 * s + l + d - 719468
         IN /\ y \in 1678..2261 => n >= 0 - 106751 /\ n <= 106750
            /\ y < 1677 => n < 0 - 106752
            /\ y > 2262 => n > 106751
<1>1. CASE y \in 1678..2261
  <2>1. s \div 4 \in 419..565 /\ s \div 100 \in 16..22 /\ s \div 400 \in 4..5
    BY <1>1, SMT
  <2>2. l \in 401..554
    BY <2>1, SMT
  <2> QED  BY <1>1, <2>2, SMT
<1>2. CASE y < 1677
  <2>1. s \div 4 \in -1..419 /\ s \div 100 \in -1..16 /\ s \div 400 \in -1..4
    BY <1>2, SMT
  <2>2. l \in -20..424
    BY <2>1, SMT
  <2> QED  BY <1>2, <2>2, SMT
<1>3. CASE y > 2262
  <2>1. s \div 4 \in 565..2500 /\ s \div 100 \in 22..99 /\ s \div 400 \in 5..24
    BY <1>3, SMT
  <2>2. l \in 471..2502
    BY <2>1, SMT
  <2> QED  BY <1>3, <2>2, SMT
<1>4. CASE y \in {1677, 2262}
  BY <1>4, SMT
<1> QED  BY <1>1, <1>2, <1>3, <1>4, SMT

(* Nanoseconds fit an i64 from 1678 to 2261, and neither before 1677 nor *)
(* after 2262.                                                           *)
THEOREM NanosFitHolds == Spec => []NanosFit
<1>1. TypeOK /\ RangesHold => NanosFit
  <2> SUFFICES ASSUME TypeOK, RangesHold  PROVE NanosFit
    OBVIOUS
  <2>1. PICK s : s = ShiftedYear(year, month)
    OBVIOUS
  <2>2. PICK l : l = LeapDays(s)
    OBVIOUS
  <2>3. PICK d : d = DayOfYear(month, day)
    OBVIOUS
  <2>4. s \in Int /\ -1 <= s /\ s <= 9999
    BY <2>1 DEF TypeOK, ShiftedYear
  <2>5. l \in Int /\ l = s \div 4 - s \div 100 + s \div 400
    BY <2>2, <2>4 DEF LeapDays
  <2>6. DaysSinceEpoch(year, month, day) = 365 * s + l + d - 719468
    BY <2>1, <2>2, <2>3, MarchYear DEF TypeOK
  <2>7. \/ s = year - 1 /\ d \in 306..365
        \/ s = year /\ d \in 0..305
    <3>1. d = MonthStart(month) + day - 1
      BY <2>3, MonthBegins DEF TypeOK
    <3>2. CASE month <= 2
      <4>1. s = year - 1 /\ MonthStart(month) \in {306, 337}
        BY <2>1, <3>2 DEF TypeOK, ShiftedYear, MonthStart
      <4>2. d <= 365
        BY <2>3 DEF RangesHold
      <4> QED  BY <3>1, <4>1, <4>2 DEF TypeOK
    <3>3. CASE month > 2
      <4>1. s = year /\ MonthStart(month) \in 0..275
        BY <2>1, <3>3 DEF TypeOK, ShiftedYear, MonthStart
      <4> QED  BY <3>1, <4>1 DEF TypeOK
    <3> QED  BY <3>2, <3>3 DEF TypeOK
  <2>8. d \in Int /\ year \in Int
    BY <2>7 DEF TypeOK
  <2>9. PICK n : n = DaysSinceEpoch(year, month, day)
    OBVIOUS
  <2>10. /\ n \in Int
         /\ year \in 1678..2261 => n >= 0 - 106751 /\ n <= 106750
         /\ year < 1677 => n < 0 - 106752
         /\ year > 2262 => n > 106751
    <3>1. n = 365 * s + l + d - 719468
      BY <2>6, <2>9
    <3> QED  BY <2>4, <2>5, <2>7, <2>8, <3>1, DaysOfYears
  <2>11. /\ year \in 1678..2261 => \A second \in {0, 86399} : ~Overflows(n, second)
         /\ year \notin 1677..2262 => \A second \in {0, 86399} : Overflows(n, second)
    BY <2>8, <2>10, SMT DEF Overflows
  <2> QED  BY <2>9, <2>11 DEF NanosFit
<1> QED  BY <1>1, TypeCorrect, RangesHoldAlways, PTL

(* On every date of the calendar the intermediate results stay in their  *)
(* ranges and the result in its i64.                                     *)
THEOREM NumbersFitHold == Spec => []NumbersFit
<1>1. RangesHold /\ NanosFit => NumbersFit
  BY DEF NumbersFit
<1> QED  BY <1>1, RangesHoldAlways, NanosFitHolds, PTL
=============================================================================
