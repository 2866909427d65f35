--------------------------- MODULE XmlInput_proofs ---------------------------
(***************************************************************************)
(* What XmlInput guarantees for input of any length, however it is cut     *)
(* into pieces, whatever the buffer's sizes: the buffer keeps what is      *)
(* still needed, positions are exact, tokens follow each other, and what a *)
(* parse call returns is so.                                               *)
(***************************************************************************)
EXTENDS XmlInput, TLAPS, SequenceTheorems

-----------------------------------------------------------------------------
(* The smaller of two numbers.                                             *)
LEMMA LeastIs ==
  ASSUME NEW a \in Int, NEW b \in Int
  PROVE  /\ Least(a, b) \in Int /\ Least(a, b) <= a /\ Least(a, b) <= b
         /\ Least(a, b) = a \/ Least(a, b) = b
         /\ a >= 0 /\ b >= 0 => Least(a, b) \in Nat
BY DEF Least

(* Reading on by n bytes makes the context longer by n bytes at most.      *)
LEMMA LeastMoves ==
  ASSUME NEW a \in Int, NEW b \in Int, NEW n \in Nat
  PROVE  Least(a + n, b) <= Least(a, b) + n
BY DEF Least

(* A function on 1 to n is a sequence of length n.                         *)
LEMMA FunctionIsSeq ==
  ASSUME NEW S, NEW n \in Nat, NEW f \in [1..n -> S]
  PROVE  f \in Seq(S) /\ Len(f) = n
<1>1. f \in Seq(S)
  BY SeqDef
<1>2. Len(f) \in Nat /\ DOMAIN f = 1..Len(f) /\ DOMAIN f = 1..n
  BY <1>1, LenProperties
<1> DEFINE len == Len(f)
<1>3. len \in Nat /\ \A i : i \in 1..len <=> i \in 1..n
  BY <1>2
<1> HIDE DEF len
<1>4. (len > 0 => len \in 1..n) /\ (n > 0 => n \in 1..len)
  BY <1>3
<1> QED  BY <1>1, <1>3, <1>4 DEF len

(* The types of the places in the buffer.                                  *)
LEMMA PlaceTypes ==
  ASSUME TypeOK
  PROVE  /\ Lim \in Nat /\ DOMAIN buffer = 1..Lim /\ buffer \in [1..Lim -> 0..MaxInput]
         /\ end \in Nat /\ end <= Lim /\ room \in Nat /\ end + room <= Lim
         /\ ptr # Null => ptr \in Nat /\ ptr <= end
         /\ eventPtr # Null => eventPtr \in Nat /\ eventPtr <= Lim
         /\ positionPtr # Null => positionPtr \in Nat /\ positionPtr <= Lim
         /\ history.received \in Nat /\ history.told \in Nat /\ history.event \in Nat
         /\ ContextBytes \in Nat /\ MaxInput \in Nat /\ IntMax \in Nat /\ Null \notin Int
         /\ call.at \in {"idle", "copied", "deferred", "processor", "handler"}
         /\ call.start \in Nat /\ call.next \in Nat /\ call.from \in Nat /\ call.len \in Nat
<1>1. Lim \in Nat /\ DOMAIN buffer = 1..Lim /\ buffer \in [1..Lim -> 0..MaxInput]
  BY LenProperties DEF TypeOK, Lim
<1>2. ContextBytes \in Nat /\ MaxInput \in Nat /\ IntMax \in Nat /\ Null \notin Int
  BY InputAssumption
<1>3. end \in 0..Lim /\ room \in 0..Lim - end
  BY DEF TypeOK, Places
<1>4. /\ ptr # Null => ptr \in 0..Lim /\ ptr <= end
      /\ eventPtr # Null => eventPtr \in 0..Lim
      /\ positionPtr # Null => positionPtr \in 0..Lim
  BY DEF TypeOK, Places
<1>5. history.received \in Nat /\ history.told \in Nat /\ history.event \in Nat
  BY DEF TypeOK, Histories
<1>6. /\ call.at \in {"idle", "copied", "deferred", "processor", "handler"}
      /\ call.start \in Nat /\ call.next \in Nat /\ call.from \in Nat /\ call.len \in Nat
  BY DEF TypeOK, Calls
<1> HIDE DEF Lim
<1> QED  BY <1>1, <1>2, <1>3, <1>4, <1>5, <1>6

(* The invariant holds before the first call.                              *)
LEMMA InitInv == Init => IndInv
<1> SUFFICES ASSUME Init PROVE IndInv
  OBVIOUS
<1>1. Lim = 0 /\ buffer \in Seq(0..MaxInput) /\ buffer = <<>> /\ MaxInput \in Nat
  BY InputAssumption DEF Init, Lim
<1>2. Idle \in Calls /\ HistoryInit \in Histories /\ HistoryInit.received = 0 /\ HistoryInit.told = 0
      /\ ~HistoryInit.failed /\ ~HistoryInit.forgot /\ Idle.at = "idle"
  BY DEF Idle, Calls, HistoryInit, Histories
<1>3. TypeOK
  <2>1. deferral \in BOOLEAN /\ end = 0 /\ room = 0 /\ 0 \in Places /\ room \in 0..Lim - end
    BY <1>1, InputAssumption DEF Init, Places
  <2>2. ptr = Null /\ buffer = <<>> /\ eventPtr = Null /\ positionPtr = Null /\ parseEnd = Null
    BY DEF Init
  <2>3. /\ position \in Int /\ endIndex \in Nat /\ last \in Nat /\ before \in Nat
        /\ call \in Calls /\ history \in Histories
    BY <1>2 DEF Init
  <2>4. final \in BOOLEAN /\ broken \in BOOLEAN
    BY DEF Init
  <2>5. /\ status \in {"INITIALIZED", "PARSING", "SUSPENDED", "FINISHED"}
        /\ returned \in {"none", "OK", "ERROR", "SUSPENDED"}
    BY DEF Init
  <2> QED  BY <1>1, <2>1, <2>2, <2>3, <2>4, <2>5 DEF TypeOK
<1>4. Filling
  BY <1>1, <1>2 DEF Init, Filling
<1>5. Calling /\ Placing /\ Failing /\ FinishedIsRead
  BY <1>2 DEF Init, Calling, Placing, Failing, FinishedIsRead, Reading
<1> QED  BY <1>3, <1>4, <1>5 DEF IndInv

-----------------------------------------------------------------------------
(* Moving the unread bytes and the context to the front, of this buffer or *)
(* of a larger one, leaves every one of them where it is counted to be.    *)
LEMMA MovedBuffer ==
  ASSUME TypeOK, Filling, NEW len \in Nat, NEW size \in Nat, size > 0, Needed(len) <= size,
         history.received + len <= MaxInput, UNCHANGED <<history, endIndex>>,
         buffer' = Moved(size), ptr' = Kept, end' = Kept + Unread, room' = len
  PROVE  /\ buffer' \in Seq(0..MaxInput) /\ Lim' = size /\ buffer' # <<>>
         /\ ptr' \in Nat /\ end' \in Nat /\ ptr' <= end' /\ end' + len <= size
         /\ BytesBefore(ptr)' = IF ptr = Null THEN 0 ELSE BytesBefore(ptr)
         /\ Filling'
<1> DEFINE n == Unread + Kept
<1> HIDE DEF Lim
<1>1. /\ Lim \in Nat /\ DOMAIN buffer = 1..Lim /\ buffer \in [1..Lim -> 0..MaxInput]
      /\ end \in Nat /\ end <= Lim /\ history.received \in Nat /\ ContextBytes \in Nat /\ MaxInput \in Nat
      /\ ptr # Null => ptr \in Nat /\ ptr <= end
      /\ Null \notin Int /\ (ptr = Null => Lim = 0)
  <2>1. ptr = Null => Lim = 0
    BY DEF TypeOK, Lim
  <2> QED  BY <2>1, PlaceTypes
<1>2. /\ Unread \in Nat /\ Kept \in Nat /\ Kept <= ContextBytes
      /\ ptr = Null => Unread = 0 /\ Kept = 0
      /\ ptr # Null => Unread = end - ptr /\ Kept <= ptr
                       /\ (Kept = ptr \/ Kept = ContextBytes)
  <2>1. CASE ptr = Null
    BY <2>1, <1>1 DEF Unread, Kept
  <2>2. CASE ptr # Null
    <3>1. Unread = end - ptr /\ Kept = Least(ptr, ContextBytes)
      BY <2>2 DEF Unread, Kept
    <3>2. end - ptr \in Nat
      BY <2>2, <1>1
    <3>3. Kept \in Nat /\ Kept <= ptr /\ Kept <= ContextBytes /\ (Kept = ptr \/ Kept = ContextBytes)
      <4>1. ptr \in Int /\ ContextBytes \in Int /\ ptr >= 0 /\ ContextBytes >= 0
        BY <2>2, <1>1
      <4> QED  BY <4>1, <3>1, LeastIs
    <3> QED  BY <3>1, <3>2, <3>3, <2>2
  <2> QED  BY <2>1, <2>2
<1>3. n \in Nat /\ n + len <= size /\ ptr' = Kept /\ end' = n /\ room' = len /\ endIndex' = endIndex
      /\ history' = history
  BY <1>2 DEF Needed
<1>4. \A i \in 1..size : /\ i <= n => buffer'[i] = buffer[ptr - Kept + i]
                         /\ ~(i <= n) => buffer'[i] = IF size = Lim /\ i <= Lim THEN buffer[i] ELSE 0
  BY <1>3 DEF Moved
<1>5. \A i \in 1..n : ptr # Null /\ ptr - Kept + i \in 1..end /\ 1..end \subseteq 1..Lim
  <2> TAKE i \in 1..n
  <2>1. i \in Nat /\ i >= 1 /\ i <= Unread + Kept
    BY <1>2
  <2>2. ptr # Null
    BY <2>1, <1>2
  <2>3. ptr - Kept + i \in 1..end
    <3>1. i <= end - ptr + Kept
      BY <2>1, <2>2, <1>1, <1>2
    <3>2. ptr \in Nat /\ Kept \in Nat /\ end \in Nat /\ Kept <= ptr
      BY <2>2, <1>1, <1>2
    <3> QED  BY <2>1, <3>1, <3>2
  <2> QED  BY <2>2, <2>3, <1>1
<1>6. buffer' \in [1..size -> 0..MaxInput]
  <2>1. \A i \in 1..size : buffer'[i] \in 0..MaxInput
    <3> TAKE i \in 1..size
    <3>1. CASE i <= n
      <4>1. i \in 1..n
        BY <3>1, <1>3
      <4> QED  BY <4>1, <3>1, <1>1, <1>4, <1>5
    <3>2. CASE ~(i <= n) /\ size = Lim /\ i <= Lim
      BY <3>2, <1>1, <1>4
    <3>3. CASE ~(i <= n) /\ ~(size = Lim /\ i <= Lim)
      <4>1. buffer'[i] = 0
        BY <3>3, <1>4
      <4> QED  BY <4>1, <1>1
    <3> QED  BY <3>1, <3>2, <3>3
  <2>2. buffer' = [i \in 1..size |-> buffer'[i]]
    BY DEF Moved
  <2> QED  BY <2>1, <2>2
<1>7. buffer' \in Seq(0..MaxInput) /\ Lim' = size /\ buffer' # <<>>
  <2>1. buffer' \in Seq(0..MaxInput) /\ Len(buffer') = size
    BY <1>6, FunctionIsSeq
  <2> QED  BY <2>1 DEF Lim
<1>8. end' - ptr' = IF ptr = Null THEN 0 ELSE end - ptr
  BY <1>1, <1>2, <1>3
<1>9. BytesBefore(ptr)' = IF ptr = Null THEN 0 ELSE BytesBefore(ptr)
  <2>1. BytesBefore(ptr)' = history.received - (end' - ptr')
    BY <1>3 DEF BytesBefore
  <2>2. ptr = Null => history.received = 0
    BY DEF Filling
  <2>3. BytesBefore(ptr) = history.received - (end - ptr)
    BY DEF BytesBefore
  <2> QED  BY <2>1, <2>2, <2>3, <1>8
<1>10. Filling'
  <2>1. endIndex' = history'.received /\ history'.received + room' <= MaxInput
    BY <1>3 DEF Filling
  <2>2. ptr' # Null /\ end' - ptr' <= history'.received
    BY <1>1, <1>2, <1>3, <1>8 DEF Filling
  <2>3. CASE ptr = Null
    <3>1. Context' = Least(0, ContextBytes) /\ n = 0
      BY <2>3, <1>2, <1>9 DEF Context
    <3>2. Context' = 0
      BY <3>1, <1>1 DEF Least
    <3> QED  BY <3>1, <3>2, <2>1, <2>2, <2>3, <1>2, <1>3 DEF Filling
  <2>4. CASE ptr # Null
    <3>1. Context' = Context
      BY <2>4, <1>9 DEF Context
    <3>2. Context \in Nat /\ Context <= ptr /\ Context <= ContextBytes
      <4>1. BytesBefore(ptr) \in Nat
        BY <2>4, <1>1 DEF BytesBefore, Filling
      <4> QED  BY <4>1, <2>4, <1>1, LeastIs DEF Context, Filling
    <3>3. Context' <= ptr'
      BY <3>1, <3>2, <2>4, <1>1, <1>2, <1>3
    <3>4. ASSUME NEW i \in 1..end', i > ptr' - Context' PROVE buffer'[i] = BytesBefore(i)'
      <4> DEFINE j == ptr - Kept + i
      <4>1. i \in 1..n /\ i \in 1..size /\ i <= n
        BY <1>3
      <4>2. j \in 1..end /\ j > ptr - Context /\ end - j = end' - i
        <5>1. i \in Nat /\ i > Kept - Context /\ end' = end - ptr + Kept /\ ptr \in Nat
          BY <4>1, <3>1, <3>4, <2>4, <1>1, <1>2, <1>3
        <5>2. j > ptr - Context /\ end - j = end' - i
          BY <5>1, <3>2, <1>1, <1>2
        <5> QED  BY <5>2, <4>1, <1>5
      <4>3. buffer'[i] = buffer[j]
        BY <4>1, <1>4
      <4>4. buffer[j] = BytesBefore(j)
        BY <4>2, <2>4 DEF Filling
      <4>5. BytesBefore(i)' = history.received - (end' - i) /\ BytesBefore(j) = history.received - (end - j)
        BY <1>3 DEF BytesBefore
      <4> QED  BY <4>2, <4>3, <4>4, <4>5
    <3> QED  BY <3>3, <3>4, <2>1, <2>2 DEF Filling
  <2> QED  BY <2>3, <2>4
<1> QED  BY <1>2, <1>3, <1>7, <1>9, <1>10

(* A buffer that is given has the room that was asked for, and either all  *)
(* places are as before or none is remembered.                             *)
LEMMA GivenBuffer ==
  ASSUME TypeOK, Filling, NEW len \in Nat, history.received + len <= MaxInput,
         BufferGiven(len), UNCHANGED <<history, endIndex>>
  PROVE  /\ buffer' \in Seq(0..MaxInput) /\ buffer' # <<>>
         /\ ptr' \in Places' /\ ptr' # Null /\ end' \in Places' /\ ptr' <= end'
         /\ room' = len /\ room' \in 0..Lim' - end'
         /\ eventPtr' \in Places' \cup {Null} /\ positionPtr' \in Places' \cup {Null}
         /\ position' = position /\ error' = error
         /\ \/ eventPtr' = Null /\ positionPtr' = Null
            \/ UNCHANGED <<ptr, end, eventPtr, positionPtr>>
         /\ BytesBefore(ptr)' = IF ptr = Null THEN 0 ELSE BytesBefore(ptr)
         /\ Filling'
<1>1. CASE InPlace(len)
  <2>1. /\ buffer # <<>> /\ len <= Lim - end /\ room' = len /\ buffer' = buffer /\ ptr' = ptr /\ end' = end
        /\ eventPtr' = eventPtr /\ positionPtr' = positionPtr /\ position' = position /\ error' = error
        /\ history' = history /\ endIndex' = endIndex
    BY <1>1 DEF InPlace, Fits, eventVars
  <2>2. ptr # Null /\ Lim' = Lim /\ Places' = Places /\ BytesBefore(ptr)' = BytesBefore(ptr) /\ Context' = Context
    BY <2>1 DEF TypeOK, Lim, Places, BytesBefore, Context
  <2>3. Filling'
    <3>1. \A i : BytesBefore(i)' = BytesBefore(i)
      BY <2>1 DEF BytesBefore
    <3> QED  BY <2>1, <2>2, <3>1 DEF Filling
  <2>4. room' \in 0..Lim' - end'
    BY <2>1, <2>2, PlaceTypes
  <2> QED  BY <2>1, <2>2, <2>3, <2>4 DEF TypeOK
<1>2. ASSUME NEW size \in Nat, size > 0, Needed(len) <= size, buffer' = Moved(size), ptr' = Kept,
             end' = Kept + Unread, room' = len, ForgetEvent, UNCHANGED error
      PROVE  /\ buffer' \in Seq(0..MaxInput) /\ buffer' # <<>>
             /\ ptr' \in Places' /\ ptr' # Null /\ end' \in Places' /\ ptr' <= end'
             /\ room' = len /\ room' \in 0..Lim' - end'
             /\ eventPtr' = Null /\ positionPtr' = Null /\ position' = position /\ error' = error
             /\ BytesBefore(ptr)' = IF ptr = Null THEN 0 ELSE BytesBefore(ptr)
             /\ Filling'
  <2>1. /\ buffer' \in Seq(0..MaxInput) /\ Lim' = size /\ buffer' # <<>>
        /\ ptr' \in Nat /\ end' \in Nat /\ ptr' <= end' /\ end' + len <= size
        /\ BytesBefore(ptr)' = IF ptr = Null THEN 0 ELSE BytesBefore(ptr)
        /\ Filling'
    BY <1>2, MovedBuffer
  <2>2. Places' = 0..size
    BY <2>1 DEF Places
  <2>3. ptr' \in 0..size /\ end' \in 0..size /\ len \in 0..size - end' /\ ptr' # Null
    <3>1. ptr' # Null
      BY <2>1, InputAssumption
    <3>2. ptr' <= size /\ end' <= size /\ len <= size - end'
      BY <2>1, <1>2
    <3> QED  BY <3>1, <3>2, <2>1, <1>2
  <2> QED  BY <1>2, <2>1, <2>2, <2>3 DEF ForgetEvent
<1>3. CASE Moves(len)
  <2>1. Lim \in Nat /\ Lim > 0 /\ Needed(len) <= Lim
    <3>1. Lim # 0 /\ Needed(len) <= Lim
      BY <1>3, EmptySeq DEF Moves, Reusable, TypeOK, Lim
    <3> QED  BY <3>1, PlaceTypes
  <2> QED  BY <2>1, <1>2, <1>3 DEF Moves
<1>4. CASE Grows(len)
  <2>1. PICK size \in Sizes : IsNewSize(size, len) /\ buffer' = Moved(size)
    BY <1>4 DEF Grows
  <2>2. size \in Nat /\ size > 0 /\ size >= Needed(len)
    BY <2>1, InputAssumption DEF Sizes, IsNewSize
  <2>3. Needed(len) \in Nat
    <3>1. Unread \in Nat
      BY PlaceTypes DEF Unread
    <3>2. Kept \in Nat
      <4>1. ptr # Null => ptr \in Int /\ ptr >= 0 /\ ContextBytes \in Int /\ ContextBytes >= 0
        BY PlaceTypes
      <4> QED  BY <4>1, LeastIs DEF Kept
    <3> QED  BY <3>1, <3>2 DEF Needed
  <2>4. Needed(len) <= size
    BY <2>2, <2>3
  <2> QED  BY <2>1, <2>2, <2>4, <1>2, <1>4 DEF Grows
<1> QED  BY <1>1, <1>2, <1>3, <1>4 DEF BufferGiven

-----------------------------------------------------------------------------
(* A step that leaves the buffer alone leaves what is known of it.         *)
LEMMA SameFilling ==
  ASSUME Filling, UNCHANGED <<bufferVars, endIndex>>, history'.received = history.received,
         ptr # Null \/ history'.told = history.told
  PROVE  Filling' /\ \A p : BytesBefore(p)' = BytesBefore(p)
<1>1. buffer' = buffer /\ ptr' = ptr /\ end' = end /\ room' = room /\ endIndex' = endIndex
  BY DEF bufferVars
<1>2. \A p : BytesBefore(p)' = BytesBefore(p)
  BY <1>1 DEF BytesBefore
<1>3. Context' = Context
  BY <1>1, <1>2 DEF Context
<1> QED  BY <1>1, <1>2, <1>3 DEF Filling

(* The first place of a context does not move back.                        *)
LEMMA ContextShift ==
  ASSUME NEW p \in Int, NEW q \in Int, NEW a \in Int, NEW b \in Int, b <= a + (q - p), a <= p
  PROVE  b <= q /\ \A i \in Int : i > q - b => i > p - a
OBVIOUS

(* What has been read stays in the buffer as context: the places that are  *)
(* known stay known when m_bufferPtr moves on.                             *)
LEMMA AdvancedFilling ==
  ASSUME TypeOK, Filling, ptr # Null, NEW q \in Nat, ptr <= q, q <= end, ptr' = q,
         UNCHANGED <<buffer, end, room, endIndex>>, history'.received = history.received
  PROVE  Filling' /\ \A p : BytesBefore(p)' = BytesBefore(p)
<1>1. \A p : BytesBefore(p)' = BytesBefore(p)
  BY DEF BytesBefore
<1>2. /\ ptr \in Nat /\ end \in Nat /\ ContextBytes \in Nat /\ history.received \in Nat /\ Null \notin Int
      /\ end - ptr <= history.received
  BY PlaceTypes DEF Filling
<1>3. BytesBefore(q) = BytesBefore(ptr) + (q - ptr) /\ BytesBefore(ptr) \in Int /\ q - ptr \in Nat
  BY <1>2 DEF BytesBefore
<1>4. Context' = Least(BytesBefore(q), ContextBytes)
  BY <1>1 DEF Context
<1>5. Context' <= Context + (q - ptr) /\ Context' \in Int /\ Context \in Int
  <2> DEFINE b == BytesBefore(ptr)
             n == q - ptr
  <2>1. b \in Int /\ n \in Nat /\ ContextBytes \in Int /\ b + n \in Int
    BY <1>2, <1>3
  <2>2. Context' = Least(b + n, ContextBytes) /\ Context = Least(b, ContextBytes)
    BY <1>3, <1>4 DEF Context
  <2> HIDE DEF b, n
  <2>3. Context' <= Context + n /\ Context' \in Int /\ Context \in Int
    BY <2>1, <2>2, LeastMoves, LeastIs
  <2> QED  BY <2>3 DEF n
<1>6. Context' <= q /\ \A i \in Int : i > q - Context' => i > ptr - Context
  <2>1. Context <= ptr
    BY DEF Filling
  <2>2. ptr \in Int /\ q \in Int
    BY <1>2
  <2> QED  BY <2>1, <2>2, <1>5, ContextShift
<1>7. \A i \in 1..end : i > q - Context' => buffer[i] = BytesBefore(i)
  BY <1>6 DEF Filling
<1>8. end - q <= history.received
  BY <1>2
<1> QED  BY <1>1, <1>2, <1>6, <1>7, <1>8 DEF Filling

(* A call that starts does so at m_bufferPtr.                              *)
LEMMA ProcessCall ==
  ASSUME ptr \in Nat, deferral \in BOOLEAN, NEW e, NEW isFinal \in BOOLEAN, Process(e, isFinal)
  PROVE  /\ call' \in Calls /\ call'.at \in {"processor", "deferred"}
         /\ call'.start = ptr /\ call'.next = ptr /\ call'.from = ptr
         /\ call'.at = "deferred" => deferral
<1>1. PICK a \in {"processor", "deferred"} :
        /\ call' = [Idle EXCEPT !.at = a, !.start = ptr, !.next = ptr, !.from = ptr]
        /\ a = "deferred" => deferral
  BY DEF Process, Enough
<1> QED  BY <1>1 DEF Idle, Calls

(* Calls that are refused, and those of XML_StopParser: they leave the     *)
(* buffer and the places alone.                                            *)
LEMMA RefusedStep ==
  ASSUME IndInv, last' \in Nat, returned' \in {returned, "ERROR"}, error' = error \/ error' # "NONE",
         UNCHANGED <<bufferVars, eventVars, parseEnd, endIndex, before, deferral, final, broken, call, history>>,
         \/ status' = status
         \/ status \in {"INITIALIZED", "PARSING"} /\ call = Idle /\ status' = "PARSING"
         \/ call.at = "handler" /\ status' \in {"SUSPENDED", "FINISHED"}
         \/ status = "SUSPENDED" /\ call = Idle /\ status' = "FINISHED"
  PROVE  IndInv'
<1>1. /\ buffer' = buffer /\ ptr' = ptr /\ end' = end /\ room' = room
      /\ eventPtr' = eventPtr /\ positionPtr' = positionPtr /\ position' = position
      /\ parseEnd' = parseEnd /\ endIndex' = endIndex /\ before' = before /\ deferral' = deferral
      /\ final' = final /\ broken' = broken /\ call' = call /\ history' = history
  BY DEF bufferVars, eventVars
<1>2. TypeOK /\ Filling /\ Calling /\ Placing /\ Failing /\ FinishedIsRead
  BY DEF IndInv
<1>3. Filling' /\ \A p : BytesBefore(p)' = BytesBefore(p)
  BY <1>1, <1>2, SameFilling
<1>4. Idle.at = "idle"
  BY DEF Idle
<1>5. TypeOK'
  <2>1. Places' = Places /\ Lim' = Lim
    BY <1>1 DEF Places, Lim
  <2> QED  BY <1>1, <1>2, <2>1 DEF TypeOK
<1>6. Calling'
  <2>1. Reading' = Reading
    BY <1>1 DEF Reading
  <2> QED  BY <1>1, <1>2, <1>3, <1>4, <2>1 DEF Calling, Reading
<1>7. Placing'
  <2>1. status' \in {"SUSPENDED", "FINISHED"} => positionPtr # Null
    BY <1>2 DEF Placing, Calling, Reading
  <2> QED  BY <1>1, <1>2, <1>3, <1>4, <2>1 DEF Placing
<1>8. Failing'
  BY <1>1, <1>2, <1>4 DEF Failing, Calling
<1>9. FinishedIsRead'
  BY <1>1, <1>2, <1>4 DEF Failing, FinishedIsRead
<1> QED  BY <1>3, <1>5, <1>6, <1>7, <1>8, <1>9 DEF IndInv

(* A call that returns with what has been read up to call.from.            *)
LEMMA ReturnStep ==
  ASSUME IndInv, Reading, NEW result \in {"OK", "SUSPENDED"}, Return(call.from, result),
         before' \in Nat, history' \in Histories, history'.received = history.received,
         history'.told = history.told, history'.failed = history.failed,
         \/ eventPtr' = eventPtr /\ history'.event = history.event /\ (call.at = "deferred" \/ broken)
         \/ eventPtr' = call.from /\ history'.event = history.told /\ ~broken,
         \/ /\ status \in {"PARSING", "SUSPENDED"} /\ status' = status
            /\ position' = position + (call.from - positionPtr) /\ positionPtr' = call.from
         \/ /\ status' = "FINISHED" /\ UNCHANGED <<positionPtr, position>>
            /\ broken \/ call.from = end,
         status = "SUSPENDED" => result = "SUSPENDED",
         history'.forgot \in {history.forgot, history.failed},
         history.failed => history'.forgot /\ deferral
  PROVE  IndInv'
<1>1. /\ ptr' = call.from /\ call' = Idle /\ returned' = result /\ buffer' = buffer /\ end' = end /\ room' = room
      /\ parseEnd' = parseEnd /\ endIndex' = endIndex /\ last' = last /\ deferral' = deferral
      /\ final' = final /\ broken' = broken
  BY DEF Return
<1>2. TypeOK /\ Filling /\ Calling /\ Placing /\ Failing
  BY DEF IndInv
<1>3. /\ ptr # Null /\ positionPtr # Null /\ ptr <= call.from /\ call.from <= end /\ call.from \in Nat
      /\ ptr \in Nat /\ end \in Nat /\ positionPtr \in Nat /\ parseEnd = end /\ Null \notin Int
      /\ end <= Lim /\ Lim \in Nat /\ history.received \in Nat
      /\ call.next \in Nat /\ ptr <= call.next /\ call.next <= call.from
  BY <1>2, PlaceTypes DEF Calling, Placing
<1>4. Filling' /\ \A p : BytesBefore(p)' = BytesBefore(p)
  <2>1. ptr <= call.from
    BY <1>3
  <2> QED  BY <1>1, <1>2, <1>3, <2>1, AdvancedFilling
<1>5. broken <=> history.failed
  <2>1. call # Idle
    BY DEF Reading, Idle
  <2> QED  BY <1>2, <2>1 DEF Failing
<1>6. ~broken => history.told = BytesBefore(call.from)
  BY <1>2, <1>3 DEF Calling
<1>7. call'.at = "idle" /\ call' \in Calls /\ call'.from = call'.start
  BY <1>1 DEF Idle, Calls
<1>8. TypeOK'
  <2>1. Places' = Places /\ Lim' = Lim /\ call.from \in Places
    BY <1>1, <1>3 DEF Places, Lim
  <2>2. position' \in Int /\ positionPtr' \in Places \cup {Null} /\ eventPtr' \in Places \cup {Null}
    BY <1>2, <1>3, <2>1 DEF TypeOK
  <2>3. ptr' \in Places \cup {Null} /\ (ptr' = Null <=> buffer' = <<>>) /\ ptr' <= end'
    BY <1>1, <1>2, <1>3, <2>1 DEF TypeOK
  <2>4. status' \in {"INITIALIZED", "PARSING", "SUSPENDED", "FINISHED"}
    OBVIOUS
  <2> QED  BY <1>1, <1>2, <1>7, <2>1, <2>2, <2>3, <2>4 DEF TypeOK
<1>9. Calling'
  <2>1. ~Reading'
    BY <1>7 DEF Reading
  <2> QED  BY <1>1, <1>4, <1>6, <1>7, <2>1 DEF Calling
<1>10. Placing'
  <2>1. positionPtr' # Null /\ ptr' # Null /\ parseEnd' = end'
    BY <1>1, <1>3
  <2>2. eventPtr' # Null => history'.event = BytesBefore(eventPtr)'
    BY <1>2, <1>4, <1>6 DEF Placing
  <2>3. ~history'.failed => position' = BytesBefore(positionPtr)'
    <3>1. ~history.failed => position = BytesBefore(positionPtr)
      BY <1>2, <1>3 DEF Placing
    <3>2. BytesBefore(call.from) = BytesBefore(positionPtr) + (call.from - positionPtr)
      BY <1>3 DEF BytesBefore
    <3> QED  BY <3>1, <3>2, <1>4
  <2>4. ASSUME ~history'.failed, status' # "FINISHED"
        PROVE  position' = history'.told /\ positionPtr' = ptr' /\ (eventPtr' # Null => eventPtr' <= ptr')
    <3>1. ~broken /\ positionPtr' = call.from /\ status \in {"PARSING", "SUSPENDED"}
      BY <2>4, <1>5
    <3>2. position' = history'.told
      BY <2>3, <2>4, <3>1, <1>4, <1>6
    <3>3. eventPtr' # Null => eventPtr' <= call.from
      <4>1. CASE eventPtr' = call.from
        BY <4>1, <1>3
      <4>2. CASE eventPtr' = eventPtr /\ call.at = "deferred"
        <5>1. eventPtr # Null => eventPtr <= ptr /\ eventPtr \in Nat
          BY <4>2, <3>1, <2>4, <1>2, PlaceTypes DEF Placing
        <5> QED  BY <5>1, <4>2, <1>3
      <4> QED  BY <4>1, <4>2, <3>1
    <3> QED  BY <3>1, <3>2, <3>3, <1>1
  <2> QED  BY <2>1, <2>2, <2>3, <2>4 DEF Placing
<1>11. Failing'
  BY <1>1, <1>2, <1>5 DEF Failing, TypeOK
<1>12. FinishedIsRead'
  <2> SUFFICES ASSUME ~history.failed, status' = "FINISHED", result = "OK" PROVE history.told = history.received
    BY <1>1 DEF FinishedIsRead
  <2>1. call.from = end /\ history.told = BytesBefore(call.from)
    BY <1>5, <1>6
  <2> QED  BY <2>1, <1>3 DEF BytesBefore
<1> QED  BY <1>4, <1>8, <1>9, <1>10, <1>11, <1>12 DEF IndInv

(* A call that returns with an error, which stays.                         *)
LEMMA BadStep ==
  ASSUME IndInv, Reading, NEW code, code # "NONE", ReturnBad(code),
         history' \in Histories, history'.received = history.received, history'.told = history.told,
         history.failed => history'.failed, history'.forgot = history.forgot,
         ~history'.failed => status = "FINISHED",
         \/ eventPtr' = eventPtr /\ history'.event = history.event
         \/ eventPtr' \in call.from..end /\ history'.event = BytesBefore(eventPtr')
  PROVE  IndInv'
<1>1. /\ ptr' = call.next /\ call' = Idle /\ returned' = "ERROR" /\ buffer' = buffer /\ end' = end /\ room' = room
      /\ positionPtr' = positionPtr /\ position' = position /\ parseEnd' = parseEnd /\ endIndex' = endIndex
      /\ last' = last /\ before' = before /\ deferral' = deferral /\ status' = status /\ final' = final
      /\ broken' = TRUE /\ error' = code
  BY DEF ReturnBad, parseVars
<1>2. TypeOK /\ Filling /\ Calling /\ Placing /\ Failing
  BY DEF IndInv
<1>3. /\ ptr # Null /\ positionPtr # Null /\ ptr <= call.next /\ call.next <= call.from /\ call.from <= end
      /\ call.from \in Nat /\ call.next \in Nat /\ end \in Nat /\ end <= Lim /\ Lim \in Nat /\ Null \notin Int
  BY <1>2, PlaceTypes DEF Calling
<1>4. Filling' /\ \A p : BytesBefore(p)' = BytesBefore(p)
  <2>1. ptr <= call.next /\ call.next <= end
    BY <1>3
  <2> QED  BY <1>1, <1>2, <1>3, <2>1, AdvancedFilling
<1>5. call'.at = "idle" /\ call' \in Calls /\ call'.from = call'.start
  BY <1>1 DEF Idle, Calls
<1>6. TypeOK'
  <2>1. Places' = Places /\ Lim' = Lim /\ call.next \in Places
    BY <1>1, <1>3 DEF Places, Lim
  <2>2. eventPtr' \in Places \cup {Null}
    <3>1. call.from..end \subseteq Places
      BY <1>3 DEF Places
    <3> QED  BY <3>1, <1>2 DEF TypeOK
  <2>3. ptr' \in Places \cup {Null} /\ (ptr' = Null <=> buffer' = <<>>) /\ ptr' <= end'
    <3>1. call.next <= end /\ call.next # Null
      BY <1>3
    <3> QED  BY <3>1, <1>1, <1>2, <1>3, <2>1 DEF TypeOK
  <2> QED  BY <1>1, <1>2, <1>5, <2>1, <2>2, <2>3 DEF TypeOK
<1>7. Calling'
  BY <1>1, <1>5 DEF Calling, Reading
<1>8. Placing'
  <2>1. positionPtr' # Null /\ ptr' # Null /\ parseEnd' = end'
    BY <1>1, <1>2, <1>3 DEF Placing
  <2>2. eventPtr' # Null => history'.event = BytesBefore(eventPtr)'
    <3>1. BytesBefore(eventPtr)' = history.received - (end - eventPtr')
      BY <1>1 DEF BytesBefore
    <3>2. eventPtr # Null => history.event = history.received - (end - eventPtr)
      BY <1>2 DEF Placing, BytesBefore
    <3> QED  BY <3>1, <3>2 DEF BytesBefore
  <2>3. ~history'.failed => position' = BytesBefore(positionPtr)'
    <3>1. ~history.failed => position = BytesBefore(positionPtr)
      BY <1>2, <1>3 DEF Placing
    <3>2. BytesBefore(positionPtr)' = BytesBefore(positionPtr)
      BY <1>1 DEF BytesBefore
    <3> QED  BY <3>1, <3>2, <1>1
  <2> QED  BY <2>1, <2>2, <2>3, <1>1 DEF Placing
<1>9. Failing' /\ FinishedIsRead'
  BY <1>1, <1>2 DEF Failing, FinishedIsRead
<1> QED  BY <1>4, <1>6, <1>7, <1>8, <1>9 DEF IndInv

(* XML_ParseBuffer of bytes the application has written after m_bufferEnd. *)
LEMMA ReadStep ==
  ASSUME IndInv, call = Idle \/ call.at = "copied", ptr # Null, status \in {"INITIALIZED", "PARSING"},
         NEW len \in Nat, len <= room, NEW isFinal \in BOOLEAN, BufferRead(len, isFinal)
  PROVE  IndInv'
<1>1. /\ buffer' = [i \in 1..Lim |-> IF i \in end + 1..end + len THEN history.received + i - end ELSE buffer[i]]
      /\ ptr' = ptr /\ end' = end + len /\ parseEnd' = end + len /\ endIndex' = endIndex + len /\ room' = 0
      /\ positionPtr' = ptr /\ final' = isFinal /\ status' = "PARSING" /\ Process(end + len, isFinal)
      /\ history' = [history EXCEPT !.received = @ + len, !.fill = Filled(len)]
      /\ eventPtr' = eventPtr /\ position' = position /\ last' = last /\ before' = before
      /\ deferral' = deferral /\ error' = error /\ broken' = broken /\ returned' = returned
  BY DEF BufferRead
<1>2. TypeOK /\ Filling /\ Calling /\ Placing /\ Failing
  BY DEF IndInv
<1>3. /\ ptr \in Nat /\ end \in Nat /\ ptr <= end /\ Lim \in Nat /\ end + len <= Lim /\ end <= Lim
      /\ room \in Nat /\ Null \notin Int /\ MaxInput \in Nat /\ history.received \in Nat /\ history.told \in Nat
      /\ buffer \in [1..Lim -> 0..MaxInput] /\ history.received + len <= MaxInput /\ endIndex = history.received
      /\ eventPtr # Null => eventPtr \in Nat
  <2>1. history.received + room <= MaxInput /\ endIndex = history.received
    BY <1>2 DEF Filling
  <2>2. /\ ptr \in Nat /\ end \in Nat /\ ptr <= end /\ Lim \in Nat /\ end + room <= Lim /\ end <= Lim
        /\ room \in Nat /\ Null \notin Int /\ MaxInput \in Nat /\ history.received \in Nat /\ history.told \in Nat
        /\ buffer \in [1..Lim -> 0..MaxInput] /\ (eventPtr # Null => eventPtr \in Nat)
    BY <1>2, PlaceTypes
  <2>3. end + len <= Lim
    BY <2>2
  <2>4. history.received + len <= MaxInput
    BY <2>1, <2>2
  <2> QED  BY <2>1, <2>2, <2>3, <2>4
<1>4. call.at \in {"idle", "copied"}
  BY DEF Idle
<1>5. /\ call' \in Calls /\ call'.at \in {"processor", "deferred"} /\ Reading'
      /\ call'.start = ptr /\ call'.next = ptr /\ call'.from = ptr /\ (call'.at = "deferred" => deferral)
  BY <1>1, <1>2, <1>3, ProcessCall DEF TypeOK, Reading
<1>6. /\ history' \in Histories /\ history'.received = history.received + len /\ history'.told = history.told
      /\ history'.failed = history.failed /\ history'.event = history.event
  <2>1. Filled(len) \in Int
    BY <1>2 DEF Filled, Mixed, TypeOK, Histories
  <2>2. history \in Histories /\ history.received + len \in Nat
    <3>1. history.received + len \in Nat
      BY <1>3
    <3> QED  BY <3>1, <1>2 DEF TypeOK, Histories
  <2> HIDE DEF Filled
  <2> QED  BY <1>1, <2>1, <2>2 DEF Histories
<1>7. buffer' \in Seq(0..MaxInput) /\ Len(buffer') = Lim
  <2>1. \A i \in 1..Lim : buffer'[i] \in 0..MaxInput
    <3> TAKE i \in 1..Lim
    <3>1. CASE i \in end + 1..end + len
      <4>1. buffer'[i] = history.received + i - end
        BY <3>1, <1>1
      <4>2. history.received + i - end \in 0..MaxInput
        BY <3>1, <1>3
      <4> QED  BY <4>1, <4>2
    <3>2. CASE i \notin end + 1..end + len
      BY <3>2, <1>1, <1>3
    <3> QED  BY <3>1, <3>2
  <2>2. buffer' \in [1..Lim -> 0..MaxInput]
    BY <1>1, <2>1
  <2> QED  BY <2>2, <1>3, FunctionIsSeq
<1>8. \A p \in Int : BytesBefore(p)' = BytesBefore(p)
  <2> TAKE p \in Int
  <2>1. end' = end + len /\ history'.received = history.received + len
    BY <1>1, <1>6
  <2>2. BytesBefore(p)' = history'.received - (end' - p)
    BY DEF BytesBefore
  <2>3. BytesBefore(p) = history.received - (end - p)
    BY DEF BytesBefore
  <2>4. (history.received + len) - ((end + len) - p) = history.received - (end - p)
    BY <1>3
  <2> QED  BY <2>1, <2>2, <2>3, <2>4
<1>9. /\ BytesBefore(ptr)' = BytesBefore(ptr) /\ Context' = Context
      /\ eventPtr # Null => BytesBefore(eventPtr)' = BytesBefore(eventPtr)
  <2>1. BytesBefore(ptr)' = BytesBefore(ptr)
    BY <1>1, <1>3, <1>8
  <2>2. ASSUME eventPtr # Null PROVE BytesBefore(eventPtr)' = BytesBefore(eventPtr)
    BY <2>2, <1>1, <1>3, <1>8
  <2> QED  BY <2>1, <2>2 DEF Context
<1>10. TypeOK'
  <2>1. Lim' = Lim /\ Places' = Places
    BY <1>7 DEF Lim, Places
  <2>2. end' \in Places /\ room' \in 0..Lim - end' /\ ptr \in Places /\ parseEnd' \in Nat /\ endIndex' \in Nat /\ ptr' <= end'
    BY <1>1, <1>3 DEF Places
  <2>3. buffer' # <<>>
    <3>1. Lim # 0
      BY <1>2, EmptySeq DEF TypeOK, Lim
    <3>2. Len(buffer') # 0
      BY <3>1, <1>7
    <3> QED  BY <3>2
  <2>4. ptr' # Null
    BY <1>1
  <2> QED  BY <1>1, <1>2, <1>5, <1>6, <1>7, <2>1, <2>2, <2>3, <2>4 DEF TypeOK
<1>11. Filling'
  <2>1. endIndex' = history'.received /\ history'.received + room' <= MaxInput /\ ptr' # Null
    BY <1>1, <1>3, <1>6
  <2>2. end' - ptr' <= history'.received
    <3>1. end - ptr <= history.received
      BY <1>2 DEF Filling
    <3> QED  BY <3>1, <1>1, <1>3, <1>6
  <2>3. Context' <= ptr'
    BY <1>1, <1>2, <1>9 DEF Filling
  <2>4. ASSUME NEW i \in 1..end', i > ptr' - Context' PROVE buffer'[i] = BytesBefore(i)'
    <3>1. i \in 1..Lim /\ i \in Nat
      BY <1>1, <1>3
    <3>2. BytesBefore(i)' = BytesBefore(i) /\ BytesBefore(i) = history.received - (end - i)
      BY <3>1, <1>8 DEF BytesBefore
    <3>3. CASE i \in end + 1..end + len
      <4>1. buffer'[i] = history.received + i - end
        BY <3>1, <3>3, <1>1
      <4> QED  BY <4>1, <3>1, <3>2, <1>3
    <3>4. CASE i \notin end + 1..end + len
      <4>1. i \in 1..end
        BY <3>1, <3>4, <1>1, <1>3
      <4>2. i > ptr - Context
        BY <2>4, <1>1, <1>9
      <4>3. buffer[i] = BytesBefore(i)
        BY <4>1, <4>2, <1>2 DEF Filling
      <4> QED  BY <4>3, <3>1, <3>2, <3>4, <1>1
    <3> QED  BY <3>3, <3>4
  <2> QED  BY <2>1, <2>2, <2>3, <2>4 DEF Filling
<1>12. Calling'
  <2>1. ~broken => history.told = BytesBefore(ptr)
    BY <1>2, <1>4 DEF Calling, Reading
  <2>2. /\ ptr' # Null /\ positionPtr' # Null /\ call'.start = ptr' /\ ptr' <= call'.next /\ call'.next <= call'.from
        /\ call'.from <= end'
    BY <1>1, <1>3, <1>5
  <2>3. BytesBefore(call.from)' = BytesBefore(ptr)'
    BY <1>1, <1>5 DEF BytesBefore
  <2> QED  BY <1>1, <1>5, <1>6, <1>9, <2>1, <2>2, <2>3 DEF Calling
<1>13. Placing'
  <2>1. positionPtr' # Null /\ ptr' # Null /\ parseEnd' = end' /\ positionPtr' = ptr'
    BY <1>1
  <2>2. eventPtr' # Null => history'.event = BytesBefore(eventPtr)'
    BY <1>1, <1>2, <1>6, <1>9 DEF Placing
  <2>3. ~history.failed => position = history.told /\ (eventPtr # Null => eventPtr <= ptr)
    BY <1>2, <1>4 DEF Placing
  <2>4. ~history.failed => history.told = BytesBefore(ptr)
    BY <1>2, <1>4 DEF Calling, Reading, Failing
  <2>5. BytesBefore(positionPtr)' = BytesBefore(ptr)'
    BY <1>1 DEF BytesBefore
  <2> QED  BY <1>1, <1>6, <1>9, <2>1, <2>2, <2>3, <2>4, <2>5 DEF Placing
<1>14. Failing' /\ FinishedIsRead'
  <2>1. call' # Idle
    BY <1>5 DEF Idle
  <2> QED  BY <1>1, <1>2, <1>6, <2>1 DEF Failing, FinishedIsRead
<1> QED  BY <1>10, <1>11, <1>12, <1>13, <1>14 DEF IndInv

-----------------------------------------------------------------------------
(* XML_ParserReset: the buffer is kept, and nothing else.                  *)
LEMMA ResetStep ==
  ASSUME IndInv, Reset
  PROVE  IndInv'
<1>1. /\ ptr' = IF buffer = <<>> THEN Null ELSE 0
      /\ buffer' = buffer /\ end' = 0 /\ room' = 0 /\ eventPtr' = Null /\ positionPtr' = Null /\ position' = 0
      /\ parseEnd' = Null /\ endIndex' = 0 /\ last' = 0 /\ before' = 0 /\ deferral' \in Deferrals
      /\ status' = "INITIALIZED" /\ final' = FALSE /\ error' = "NONE" /\ broken' = FALSE
      /\ call' = Idle /\ returned' = "none" /\ history' = [HistoryInit EXCEPT !.resets = history.resets + 1]
  BY DEF Reset, ParserInit
<1>2. TypeOK
  BY DEF IndInv
<1>3. /\ history' \in Histories /\ history'.received = 0 /\ history'.told = 0
      /\ ~history'.failed /\ ~history'.forgot
      /\ Idle.at = "idle" /\ Idle.from = Idle.start /\ Idle \in Calls
  <2>1. history.resets + 1 \in Nat
    BY <1>2 DEF TypeOK, Histories
  <2>2. /\ HistoryInit \in Histories /\ HistoryInit.received = 0 /\ HistoryInit.told = 0
        /\ ~HistoryInit.failed /\ ~HistoryInit.forgot
    BY DEF HistoryInit, Histories
  <2>3. Idle.at = "idle" /\ Idle.from = Idle.start /\ Idle \in Calls
    BY DEF Idle, Calls
  <2> HIDE DEF HistoryInit
  <2>4. /\ history' \in Histories /\ history'.received = 0 /\ history'.told = 0
        /\ ~history'.failed /\ ~history'.forgot
    BY <1>1, <2>1, <2>2 DEF Histories
  <2> QED  BY <2>3, <2>4
<1>4. /\ Lim' = Lim /\ Lim \in Nat /\ Places' = Places /\ 0 \in Places /\ 0 \in 0..Lim - 0
      /\ MaxInput \in Nat /\ ContextBytes \in Nat /\ Null # 0
  <2>1. Lim \in Nat /\ MaxInput \in Nat /\ ContextBytes \in Nat /\ Null # 0
    BY <1>2, PlaceTypes
  <2> QED  BY <2>1, <1>1 DEF Lim, Places
<1>5. deferral' \in BOOLEAN /\ final' \in BOOLEAN /\ broken' \in BOOLEAN
  BY <1>1, InputAssumption
<1>6. TypeOK'
  BY <1>1, <1>2, <1>3, <1>4, <1>5 DEF TypeOK
<1>7. Filling'
  <2>1. CASE buffer = <<>>
    BY <2>1, <1>1, <1>3, <1>4 DEF Filling
  <2>2. CASE buffer # <<>>
    <3>1. BytesBefore(ptr)' = 0
      BY <2>2, <1>1, <1>3 DEF BytesBefore
    <3>2. Context' = 0
      BY <3>1, <1>4 DEF Context, Least
    <3> QED  BY <2>2, <3>2, <1>1, <1>3, <1>4 DEF Filling
  <2> QED  BY <2>1, <2>2
<1>8. Calling'
  <2>1. ptr' # Null => history'.told = BytesBefore(ptr)'
    BY <1>1, <1>3 DEF BytesBefore
  <2> QED  BY <2>1, <1>1, <1>3 DEF Calling, Reading
<1>9. Placing' /\ Failing' /\ FinishedIsRead'
  BY <1>1, <1>3 DEF Placing, Failing, FinishedIsRead
<1> QED  BY <1>6, <1>7, <1>8, <1>9 DEF IndInv

(* A buffer is given to the application, or to XML_Parse to copy to.       *)
LEMMA GivenStep ==
  ASSUME IndInv, call = Idle, status \in {"INITIALIZED", "PARSING"},
         NEW len \in Nat, history.received + len <= MaxInput, BufferGiven(len),
         last' \in Nat, UNCHANGED <<parseEnd, endIndex, before, deferral, final, broken, returned, history>>,
         \/ call' = call /\ status' = status
         \/ call' \in Calls /\ call'.at = "copied" /\ call'.len = len /\ call'.from = call'.start /\ status' = "PARSING"
  PROVE  IndInv'
<1>1. TypeOK /\ Filling /\ Calling /\ Placing /\ Failing
  BY DEF IndInv
<1>2. /\ buffer' \in Seq(0..MaxInput) /\ buffer' # <<>>
      /\ ptr' \in Places' /\ ptr' # Null /\ end' \in Places' /\ ptr' <= end'
      /\ room' = len /\ room' \in 0..Lim' - end'
      /\ eventPtr' \in Places' \cup {Null} /\ positionPtr' \in Places' \cup {Null}
      /\ position' = position /\ error' = error
      /\ \/ eventPtr' = Null /\ positionPtr' = Null
         \/ UNCHANGED <<ptr, end, eventPtr, positionPtr>>
      /\ BytesBefore(ptr)' = IF ptr = Null THEN 0 ELSE BytesBefore(ptr)
      /\ Filling'
  BY <1>1, GivenBuffer
<1>3. call.at = "idle" /\ call.from = call.start /\ call'.at \in {"idle", "copied"} /\ ~Reading /\ ~Reading'
  BY DEF Idle, Reading
<1>4. TypeOK'
  BY <1>1, <1>2 DEF TypeOK
<1>5. history'.told = history.told /\ history'.failed = history.failed
  OBVIOUS
<1>6. ~broken => history.told = BytesBefore(ptr)'
  BY <1>1, <1>2, <1>3 DEF Calling, Filling
<1>7. Calling'
  <2>1. len <= len
    OBVIOUS
  <2>2. call'.from = call'.start
    BY <1>3
  <2>3. call'.at = "idle" => call' = Idle
    BY <1>3
  <2> QED  BY <1>2, <1>3, <1>5, <1>6, <2>1, <2>2, <2>3 DEF Calling
<1>8. Placing'
  <2>1. status' # "FINISHED" /\ status' # "SUSPENDED" /\ status # "FINISHED"
    OBVIOUS
  <2>2. CASE eventPtr' = Null /\ positionPtr' = Null
    BY <2>1, <2>2, <1>1, <1>2, <1>3 DEF Placing
  <2>3. CASE UNCHANGED <<ptr, end, eventPtr, positionPtr>>
    <3>1. BytesBefore(eventPtr)' = BytesBefore(eventPtr) /\ BytesBefore(positionPtr)' = BytesBefore(positionPtr)
      BY <2>3 DEF BytesBefore
    <3> QED  BY <3>1, <2>1, <2>3, <1>1, <1>2, <1>3 DEF Placing
  <2> QED  BY <2>2, <2>3, <1>2
<1>9. Failing' /\ FinishedIsRead'
  BY <1>1, <1>2, <1>3 DEF Failing, FinishedIsRead
<1> QED  BY <1>2, <1>4, <1>7, <1>8, <1>9 DEF IndInv

(* XML_ResumeParser, and a processor that has told of a token, or is left  *)
(* and entered again: where the call is changes, and what has been told.   *)
LEMMA OnStep ==
  ASSUME IndInv, call' \in Calls, call'.at \in {"deferred", "processor", "handler"},
         ptr # Null, positionPtr # Null, broken => history.failed,
         call'.start = ptr, ptr <= call'.next, call'.next <= call'.from, call'.from <= end,
         call'.at = "deferred" => deferral,
         call'.at = "deferred" \/ broken => call'.from = ptr,
         call'.at = "handler" => ~broken,
         status' = "PARSING" \/ (call'.at = "handler" /\ status' = status /\ status # "INITIALIZED"),
         call'.at = "deferred" => call = Idle /\ status # "FINISHED",
         UNCHANGED <<bufferVars, positionPtr, position, parseVars, final, error, broken, returned>>,
         history' \in Histories, history'.received = history.received, history'.failed = history.failed,
         history'.forgot = history.forgot,
         \/ history'.told = history.told
         \/ ~broken /\ call'.at = "handler" ,
         ~broken => history'.told = BytesBefore(call'.from),
         \/ UNCHANGED eventPtr /\ history'.event = history.event
         \/ /\ eventPtr' \in Places /\ history'.event = BytesBefore(eventPtr')
            /\ call'.at # "deferred"
  PROVE  IndInv'
<1>1. /\ buffer' = buffer /\ ptr' = ptr /\ end' = end /\ room' = room /\ positionPtr' = positionPtr
      /\ position' = position /\ parseEnd' = parseEnd /\ endIndex' = endIndex /\ last' = last
      /\ before' = before /\ deferral' = deferral /\ final' = final /\ error' = error
      /\ broken' = broken /\ returned' = returned
  BY DEF bufferVars, parseVars
<1>2. TypeOK /\ Filling /\ Calling /\ Placing /\ Failing
  BY DEF IndInv
<1>3. Filling' /\ \A p : BytesBefore(p)' = BytesBefore(p)
  <2>1. UNCHANGED <<bufferVars, endIndex>> /\ history'.received = history.received
    BY <1>1 DEF bufferVars
  <2> QED  BY <2>1, <1>2, SameFilling
<1>4. Reading' /\ call' # Idle /\ call'.at # "idle" /\ call'.at # "copied"
  BY DEF Reading, Idle
<1>5. TypeOK'
  <2>1. Places' = Places /\ Lim' = Lim
    BY <1>1 DEF Places, Lim
  <2>2. eventPtr' \in Places \cup {Null}
    BY <1>2 DEF TypeOK
  <2>3. status' \in {"INITIALIZED", "PARSING", "SUSPENDED", "FINISHED"}
    BY <1>2 DEF TypeOK
  <2> QED  BY <1>1, <1>2, <2>1, <2>2, <2>3 DEF TypeOK
<1>6. Calling'
  <2>1. ~broken => history'.told = BytesBefore(call.from)'
    <3>1. BytesBefore(call.from)' = history.received - (end - call'.from)
      BY <1>1 DEF BytesBefore
    <3> QED  BY <3>1 DEF BytesBefore
  <2> QED  BY <1>1, <1>4, <2>1 DEF Calling
<1>7. Placing'
  <2>1. eventPtr' # Null => history'.event = BytesBefore(eventPtr)'
    <3>1. BytesBefore(eventPtr)' = history.received - (end - eventPtr')
      BY <1>1 DEF BytesBefore
    <3>2. eventPtr # Null => history.event = history.received - (end - eventPtr)
      BY <1>2 DEF Placing, BytesBefore
    <3> QED  BY <3>1, <3>2 DEF BytesBefore
  <2>2. ~history'.failed => position' = BytesBefore(positionPtr)'
    <3>1. BytesBefore(positionPtr)' = BytesBefore(positionPtr)
      BY <1>1 DEF BytesBefore
    <3> QED  BY <3>1, <1>1, <1>2 DEF Placing
  <2>3. ASSUME call'.at = "deferred", ~history'.failed
        PROVE  position' = history'.told /\ positionPtr' \in {Null, ptr'} /\ (eventPtr' # Null => eventPtr' <= ptr')
    <3>1. call.at = "idle" /\ status # "FINISHED" /\ history'.told = history.told
      BY <2>3 DEF Idle
    <3>2. position = history.told /\ positionPtr \in {Null, ptr} /\ (eventPtr # Null => eventPtr <= ptr)
      BY <2>3, <3>1, <1>2 DEF Placing
    <3>3. position' = history'.told /\ positionPtr' \in {Null, ptr'}
      BY <3>1, <3>2, <1>1
    <3>4. eventPtr' = eventPtr
      BY <2>3
    <3> QED  BY <3>2, <3>3, <3>4, <1>1
  <2> QED  BY <1>1, <1>2, <1>4, <2>1, <2>2, <2>3 DEF Placing
<1>8. Failing' /\ FinishedIsRead'
  <2>1. call' # Idle /\ broken' = broken /\ error' = error /\ deferral' = deferral
        /\ history'.failed = history.failed /\ history'.forgot = history.forgot
    BY <1>1, <1>4
  <2>2. /\ history.failed => broken
        /\ history.failed /\ ~history.forgot => error # "NONE"
        /\ history.forgot => history.failed /\ deferral
    BY <1>2 DEF Failing
  <2> QED  BY <2>1, <2>2 DEF Failing, FinishedIsRead
<1> QED  BY <1>3, <1>5, <1>6, <1>7, <1>8 DEF IndInv

-----------------------------------------------------------------------------
(* XML_GetBuffer: refused, out of memory, or given.                        *)
LEMMA GetBufferStep ==
  ASSUME IndInv, NEW len \in Requests, GetBuffer(len)
  PROVE  IndInv'
<1>1. len \in Nat /\ call = Idle /\ history.received + len <= MaxInput
      /\ UNCHANGED <<parseEnd, endIndex, before, deferral, status, final, broken, call, returned, history>>
  BY InputAssumption DEF GetBuffer
<1>2. TypeOK /\ last \in Nat
  BY DEF IndInv, TypeOK
<1>3. ASSUME NEW code, code # "NONE", Refused(code), last' \in Nat
      PROVE  IndInv'
  <2>1. error' = code /\ UNCHANGED <<bufferVars, eventVars>>
    BY <1>3 DEF Refused
  <2>2. error' # "NONE" /\ last' \in Nat /\ returned' \in {returned, "ERROR"} /\ status' = status
        /\ UNCHANGED <<bufferVars, eventVars, parseEnd, endIndex, before, deferral, final, broken, call, history>>
    BY <1>1, <1>3, <2>1
  <2> QED  BY <2>2, RefusedStep
<1>4. CASE ~Open /\ Refused(status) /\ UNCHANGED last
  <2>1. status # "NONE"
    BY <1>2 DEF TypeOK
  <2> QED  BY <2>1, <1>2, <1>3, <1>4
<1>5. CASE Open /\ NoMemory(len) /\ last' = len
  <2>1. Refused("NO_MEMORY") /\ last' \in Nat
    BY <1>1, <1>5 DEF NoMemory
  <2> QED  BY <2>1, <1>3
<1>6. CASE Open /\ BufferGiven(len) /\ last' = len
  <2>1. status \in {"INITIALIZED", "PARSING"} /\ last' \in Nat /\ call' = call /\ status' = status
        /\ UNCHANGED <<parseEnd, endIndex, before, deferral, final, broken, returned, history>>
    BY <1>1, <1>6 DEF Open
  <2> QED  BY <2>1, <1>1, <1>6, GivenStep
<1> QED  BY <1>4, <1>5, <1>6 DEF GetBuffer

(* A parse call that is refused.                                           *)
LEMMA ParseRefusedStep ==
  ASSUME IndInv, NEW code, code # "NONE", ParseRefused(code)
  PROVE  IndInv'
<1>1. last \in Nat
  BY DEF IndInv, TypeOK
<1>2. /\ error' = code /\ returned' = "ERROR" /\ last' = last /\ status' = status
      /\ UNCHANGED <<bufferVars, eventVars, parseEnd, endIndex, before, deferral, final, broken, call, history>>
  BY DEF ParseRefused, parseVars
<1> QED  BY <1>1, <1>2, RefusedStep

(* XML_Parse up to the copy of the bytes.                                  *)
LEMMA ParseStep ==
  ASSUME IndInv, NEW len \in Requests, NEW isFinal \in BOOLEAN, Parse(len, isFinal)
  PROVE  IndInv'
<1>1. len \in Nat /\ call = Idle /\ history.received + len <= MaxInput
  BY InputAssumption DEF Parse, MayPass
<1>2. status # "NONE"
  BY DEF IndInv, TypeOK
<1>3. CASE ~Open /\ ParseRefused(status)
  BY <1>2, <1>3, ParseRefusedStep
<1>4. ASSUME Open, status' = "PARSING", last' = len,
             UNCHANGED <<parseEnd, endIndex, before, deferral, final, broken, history>>,
             NoMemory(len), returned' = "ERROR", UNCHANGED call
      PROVE  IndInv'
  <2>1. error' = "NO_MEMORY" /\ UNCHANGED <<bufferVars, eventVars>>
    BY <1>4 DEF NoMemory, Refused
  <2>2. status \in {"INITIALIZED", "PARSING"} /\ call = Idle /\ status' = "PARSING"
    BY <1>1, <1>4 DEF Open
  <2>3. /\ last' \in Nat /\ returned' \in {returned, "ERROR"} /\ error' # "NONE"
        /\ UNCHANGED <<bufferVars, eventVars, parseEnd, endIndex, before, deferral, final, broken, call, history>>
    BY <1>1, <1>4, <2>1
  <2> QED  BY <2>2, <2>3, RefusedStep
<1>5. ASSUME Open, status' = "PARSING", last' = len,
             UNCHANGED <<parseEnd, endIndex, before, deferral, final, broken, history>>,
             BufferGiven(len), call' = [Idle EXCEPT !.at = "copied", !.len = len, !.isFinal = isFinal],
             UNCHANGED returned
      PROVE  IndInv'
  <2>1. /\ call' \in Calls /\ call'.at = "copied" /\ call'.len = len /\ call'.from = call'.start
        /\ status' = "PARSING"
    BY <1>1, <1>5 DEF Idle, Calls
  <2>2. status \in {"INITIALIZED", "PARSING"} /\ last' \in Nat
        /\ UNCHANGED <<parseEnd, endIndex, before, deferral, final, broken, returned, history>>
    BY <1>1, <1>5 DEF Open
  <2> QED  BY <2>1, <2>2, <1>1, <1>5, GivenStep
<1> QED  BY <1>3, <1>4, <1>5 DEF Parse

(* XML_ParseBuffer: refused, or the bytes are taken.                       *)
LEMMA ParseBufferStep ==
  ASSUME IndInv, NEW len \in Requests, NEW isFinal \in BOOLEAN, ParseBuffer(len, isFinal)
  PROVE  IndInv'
<1>1. len \in Nat /\ call = Idle /\ len <= room
  BY InputAssumption DEF ParseBuffer, MayPass
<1>2. status # "NONE"
  BY DEF IndInv, TypeOK
<1>3. CASE Open /\ ptr # Null /\ BufferRead(len, isFinal)
  <2>1. status \in {"INITIALIZED", "PARSING"} /\ ptr # Null /\ BufferRead(len, isFinal)
    BY <1>3 DEF Open
  <2> QED  BY <2>1, <1>1, ReadStep
<1>4. CASE ~Open /\ ParseRefused(status)
  BY <1>2, <1>4, ParseRefusedStep
<1>5. CASE ParseRefused("NO_BUFFER")
  BY <1>5, ParseRefusedStep
<1> QED  BY <1>3, <1>4, <1>5 DEF ParseBuffer

(* The rest of XML_Parse: there is room for the bytes it copies.           *)
LEMMA CopiedStep ==
  ASSUME IndInv, Copied
  PROVE  IndInv'
<1>1. call.at = "copied" /\ BufferRead(call.len, call.isFinal)
  BY DEF Copied
<1>2. ptr # Null /\ call.len <= room /\ status = "PARSING"
  BY <1>1 DEF IndInv, Calling
<1>3. call.len \in Nat /\ call.isFinal \in BOOLEAN
  BY DEF IndInv, TypeOK, Calls
<1> QED  BY <1>1, <1>2, <1>3, ReadStep

(* XML_ResumeParser: the call goes on at m_bufferPtr.                      *)
LEMMA ResumeStep ==
  ASSUME IndInv, Resume
  PROVE  IndInv'
<1>1. CASE ParseRefused("NOT_SUSPENDED")
  BY <1>1, ParseRefusedStep
<1>2. ASSUME status = "SUSPENDED", status' = "PARSING", Process(parseEnd, final),
             UNCHANGED <<bufferVars, eventVars, parseVars, final, error, broken, returned, history>>
      PROVE  IndInv'
  <2>1. TypeOK /\ Calling /\ Placing /\ Failing /\ call = Idle
    BY DEF IndInv, Resume
  <2>2. call.at = "idle" /\ ~Reading
    BY <2>1 DEF Idle, Reading
  <2>3. positionPtr # Null /\ ptr # Null
    BY <1>2, <2>1 DEF Placing
  <2>4. ptr \in Nat /\ end \in Nat /\ ptr <= end
    BY <2>1, <2>3, PlaceTypes
  <2>5. /\ call' \in Calls /\ call'.at \in {"processor", "deferred"}
        /\ call'.start = ptr /\ call'.next = ptr /\ call'.from = ptr
        /\ call'.at = "deferred" => deferral
    BY <1>2, <2>1, <2>4, ProcessCall DEF TypeOK
  <2>6. broken => history.failed
    BY <1>2, <2>1 DEF Failing
  <2>7. ~broken => history'.told = BytesBefore(call'.from)
    BY <1>2, <2>1, <2>2, <2>3, <2>5 DEF Calling
  <2>8. /\ history' = history /\ history \in Histories /\ eventPtr' = eventPtr
        /\ UNCHANGED <<bufferVars, positionPtr, position, parseVars, final, error, broken, returned>>
    BY <1>2, <2>1 DEF TypeOK, eventVars
  <2>9. /\ ptr <= call'.next /\ call'.next <= call'.from /\ call'.from <= end
        /\ call'.at = "deferred" => call = Idle /\ status # "FINISHED"
    BY <1>2, <2>1, <2>4, <2>5
  <2> QED  BY <1>2, <2>3, <2>5, <2>6, <2>7, <2>8, <2>9, OnStep
<1> QED  BY <1>1, <1>2 DEF Resume

-----------------------------------------------------------------------------
(* Where a call is that has come to a processor or a handler.              *)
LEMMA ReadingFacts ==
  ASSUME IndInv, Reading
  PROVE  /\ ptr # Null /\ positionPtr # Null /\ call # Idle
         /\ ptr \in Nat /\ end \in Nat /\ call.from \in Nat /\ call.next \in Nat /\ Lim \in Nat /\ end <= Lim
         /\ call.start = ptr /\ ptr <= call.next /\ call.next <= call.from /\ call.from <= end
         /\ ptr <= call.from
         /\ broken <=> history.failed
         /\ ~broken => history.told = BytesBefore(call.from)
         /\ history \in Histories /\ call \in Calls
         /\ history.received \in Nat /\ history.told \in Nat
<1>1. TypeOK /\ Calling /\ Failing
  BY DEF IndInv
<1>2. /\ ptr # Null /\ positionPtr # Null
      /\ call.start = ptr /\ ptr <= call.next /\ call.next <= call.from /\ call.from <= end
      /\ ~broken => history.told = BytesBefore(call.from)
  BY <1>1 DEF Calling
<1>3. call # Idle
  BY DEF Reading, Idle
<1>4. broken <=> history.failed
  BY <1>1, <1>3 DEF Failing
<1>5. /\ ptr \in Nat /\ end \in Nat /\ call.from \in Nat /\ call.next \in Nat /\ Lim \in Nat /\ end <= Lim
      /\ history.received \in Nat /\ history.told \in Nat
  BY <1>1, <1>2, PlaceTypes
<1>6. ptr <= call.from
  BY <1>2, <1>5
<1> QED  BY <1>1, <1>2, <1>3, <1>4, <1>5, <1>6 DEF TypeOK

(* What callProcessor remembers is a number of bytes.                      *)
LEMMA RememberType ==
  ASSUME IndInv, Reading, Remember
  PROVE  before' \in Nat
<1>1. ptr \in Nat /\ end \in Nat /\ call.start = ptr /\ ptr <= end
  <2>1. ptr \in Nat /\ end \in Nat /\ call.start = ptr /\ ptr <= call.from /\ call.from <= end /\ call.from \in Nat
    BY ReadingFacts
  <2> QED  BY <2>1
<1> QED  BY <1>1 DEF Remember

(* A processor tells of a token.                                           *)
LEMMA TokenStep ==
  ASSUME IndInv, Token
  PROVE  IndInv'
<1>1. /\ call.at = "processor" /\ ~broken /\ Reading
      /\ UNCHANGED <<bufferVars, positionPtr, position, parseVars, status, final, error, broken, returned>>
  BY DEF Token, Running, Reading
<1>2. PICK to \in call.from + 1..end :
        /\ eventPtr' = call.from
        /\ call' = [call EXCEPT !.at = "handler", !.from = to]
        /\ history' = [history EXCEPT !.event = history.told, !.told = Index(to), !.partial = Index(to)]
  BY DEF Token
<1>3. /\ ptr # Null /\ positionPtr # Null /\ ptr \in Nat /\ end \in Nat /\ call.from \in Nat /\ call.next \in Nat
      /\ call.start = ptr /\ ptr <= call.next /\ call.next <= call.from /\ call.from <= end /\ ptr <= call.from
      /\ history.told = BytesBefore(call.from) /\ history \in Histories /\ call \in Calls /\ Lim \in Nat
      /\ history.received \in Nat /\ history.told \in Nat /\ end <= Lim
  BY <1>1, ReadingFacts
<1>4. to \in Nat /\ call.from <= to /\ to <= end
  BY <1>3
<1>5. Index(to) = BytesBefore(to) /\ Index(to) \in Nat
  BY <1>3, <1>4 DEF Index, BytesBefore
<1>6. /\ call' \in Calls /\ call'.at = "handler" /\ call'.start = ptr /\ call'.next = call.next /\ call'.from = to
  BY <1>2, <1>3, <1>4 DEF Calls
<1>7. /\ history' \in Histories /\ history'.received = history.received /\ history'.failed = history.failed
      /\ history'.told = BytesBefore(to) /\ history'.event = BytesBefore(call.from)
      /\ history'.forgot = history.forgot
  <2> DEFINE index == Index(to)
  <2>1. index \in Nat /\ index = BytesBefore(to)
    BY <1>5
  <2> HIDE DEF index
  <2>2. history' = [history EXCEPT !.event = history.told, !.told = index, !.partial = index]
    BY <1>2 DEF index
  <2> QED  BY <2>1, <2>2, <1>3 DEF Histories
<1>8. eventPtr' \in Places /\ history'.event = BytesBefore(eventPtr')
  BY <1>2, <1>3, <1>7 DEF Places
<1>9. ptr <= call'.next /\ call'.next <= call'.from /\ call'.from <= end
  BY <1>3, <1>4, <1>6
<1>10. status' = status /\ status \in {"PARSING"} /\ ~history.failed
  BY <1>1 DEF IndInv, Calling, Failing
<1> QED  BY <1>1, <1>3, <1>6, <1>7, <1>8, <1>9, <1>10, OnStep

(* A handler returns: the parser goes on, suspended it returns, and        *)
(* stopped for good it fails.                                              *)
LEMMA HandlerReturnsStep ==
  ASSUME IndInv, HandlerReturns
  PROVE  IndInv'
<1>1. /\ call.at = "handler" /\ Reading /\ eventPtr' = call.from
      /\ history' = [history EXCEPT !.event = history.told]
  BY DEF HandlerReturns, Reading
<1>2. /\ ptr # Null /\ positionPtr # Null /\ ptr \in Nat /\ end \in Nat /\ call.from \in Nat /\ call.next \in Nat
      /\ call.start = ptr /\ ptr <= call.next /\ call.next <= call.from /\ call.from <= end /\ ptr <= call.from
      /\ history \in Histories /\ call \in Calls /\ Lim \in Nat /\ end <= Lim
  BY <1>1, ReadingFacts
<1>3. ~broken /\ ~history.failed /\ history.told = BytesBefore(call.from)
  BY <1>1, ReadingFacts DEF IndInv, Calling
<1>4. /\ history' \in Histories /\ history'.received = history.received /\ history'.failed = history.failed
      /\ history'.told = history.told /\ history'.event = history.told /\ history'.forgot = history.forgot
  BY <1>1, <1>2 DEF Histories
<1>5. ASSUME status = "SUSPENDED", Remember, Suspended(call.from)
      PROVE  IndInv'
  <2>1. /\ position' = position + (call.from - positionPtr) /\ positionPtr' = call.from
        /\ Return(call.from, "SUSPENDED") /\ status' = status
    BY <1>5 DEF Suspended
  <2>2. before' \in Nat
    BY <1>1, <1>5, RememberType
  <2> QED  BY <2>1, <2>2, <1>1, <1>3, <1>4, <1>5, ReturnStep
<1>6. ASSUME status = "FINISHED", ReturnBad("ABORTED")
      PROVE  IndInv'
  <2>1. eventPtr' \in call.from..end /\ history'.event = BytesBefore(eventPtr')
    BY <1>1, <1>2, <1>3, <1>4
  <2>2. "ABORTED" # "NONE"
    OBVIOUS
  <2> QED  BY <2>1, <2>2, <1>1, <1>3, <1>4, <1>6, BadStep
<1>7. ASSUME status = "PARSING", NEW next \in {call.next, call.from},
             call' = [call EXCEPT !.at = "processor", !.next = next],
             UNCHANGED <<bufferVars, positionPtr, position, parseVars, status, final, error, broken, returned>>
      PROVE  IndInv'
  <2>1. /\ call' \in Calls /\ call'.at = "processor" /\ call'.start = ptr /\ call'.next = next
        /\ call'.from = call.from
    BY <1>2, <1>7 DEF Calls
  <2>2. ptr <= call'.next /\ call'.next <= call'.from /\ call'.from <= end
    BY <1>2, <2>1
  <2>3. eventPtr' \in Places /\ history'.event = BytesBefore(eventPtr') /\ history'.told = BytesBefore(call'.from)
    BY <1>1, <1>2, <1>3, <1>4, <2>1 DEF Places
  <2> QED  BY <2>1, <2>2, <2>3, <1>2, <1>3, <1>4, <1>7, OnStep
<1> QED  BY <1>5, <1>6, <1>7 DEF HandlerReturns

(* A deferred call returns at once.                                        *)
LEMMA DeferredStep ==
  ASSUME IndInv, Deferred
  PROVE  IndInv'
<1>1. /\ call.at = "deferred" /\ Reading /\ Waits(call.start) /\ eventPtr' = eventPtr /\ before' = before
      /\ history' = [history EXCEPT !.forgot = history.failed]
  BY DEF Deferred, Reading
<1>2. call.from = call.start /\ deferral
  BY <1>1 DEF IndInv, Calling
<1>3. /\ status = "PARSING" /\ status' = status /\ Return(call.from, "OK")
      /\ position' = position + (call.from - positionPtr) /\ positionPtr' = call.from
  BY <1>1, <1>2 DEF Waits
<1>4. before' \in Nat /\ history \in Histories
  BY <1>1 DEF IndInv, TypeOK
<1>5. /\ history' \in Histories /\ history'.received = history.received /\ history'.told = history.told
      /\ history'.failed = history.failed /\ history'.event = history.event
      /\ history'.forgot = history.failed
  BY <1>1, <1>4 DEF Histories
<1> QED  BY <1>1, <1>2, <1>3, <1>4, <1>5, ReturnStep

(* What is remembered of a look in vain.                                   *)
LEMMA LookHistory ==
  ASSUME IndInv, Partial
  PROVE  /\ history' \in Histories /\ history'.received = history.received /\ history'.told = history.told
         /\ history'.failed = history.failed /\ history'.fill = history.fill /\ history'.event = history.told
         /\ history'.partial = Index(end)
         /\ history'.wasted = IF MoreCame /\ ~TooEarly THEN history.wasted + (end - call.from) ELSE history.wasted
         /\ history'.early = IF Early THEN Lim ELSE history.early
         /\ history'.hasty = (history.hasty \/ (Early /\ history.early = Lim))
         /\ history'.forgot = history.forgot
<1>1. /\ call.at = "processor" /\ ~broken /\ Reading
      /\ history' = [history EXCEPT !.partial = Index(end), !.event = history.told,
                                    !.wasted = IF MoreCame /\ ~TooEarly THEN @ + (end - call.from) ELSE @,
                                    !.early = IF Early THEN Lim ELSE @,
                                    !.hasty = @ \/ (Early /\ history.early = Lim)]
  BY DEF Partial, Running, Reading
<1>2. /\ call.from \in Nat /\ end \in Nat /\ call.from <= end /\ history \in Histories /\ history.told \in Nat
      /\ Lim \in Nat
  BY <1>1, ReadingFacts
<1> DEFINE index == Index(end)
           wasted == IF MoreCame /\ ~TooEarly THEN history.wasted + (end - call.from) ELSE history.wasted
           early == IF Early THEN Lim ELSE history.early
           hasty == history.hasty \/ (Early /\ history.early = Lim)
<1>3. index \in Nat /\ wasted \in Nat /\ early \in Nat
  <2>1. history.wasted \in Nat /\ history.early \in Nat
    BY <1>2 DEF Histories
  <2>2. end - call.from \in Nat
    BY <1>2
  <2> QED  BY <1>2, <2>1, <2>2 DEF Index
<1>4. hasty \in BOOLEAN
  BY <1>2, Zenon DEF Histories
<1>5. history' = [history EXCEPT !.partial = index, !.event = history.told, !.wasted = wasted, !.early = early,
                                 !.hasty = hasty]
  BY <1>1, Zenon
<1> HIDE DEF index, wasted, early, hasty
<1>6. /\ history' \in Histories /\ history'.received = history.received /\ history'.told = history.told
      /\ history'.failed = history.failed /\ history'.fill = history.fill /\ history'.event = history.told
      /\ history'.partial = index /\ history'.wasted = wasted /\ history'.early = early /\ history'.hasty = hasty
      /\ history'.forgot = history.forgot
  BY <1>2, <1>3, <1>4, <1>5 DEF Histories
<1> QED  BY <1>6, Zenon DEF index, wasted, early, hasty

(* What is left may become a token when more comes.                        *)
LEMMA PartialStep ==
  ASSUME IndInv, Partial
  PROVE  IndInv'
<1>1. /\ call.at = "processor" /\ ~broken /\ Reading /\ eventPtr' = call.from /\ Remember /\ Waits(call.from)
  BY DEF Partial, Running, Reading
<1>2. ~history.failed
  BY <1>1, ReadingFacts
<1>3. /\ history' \in Histories /\ history'.received = history.received /\ history'.failed = history.failed
      /\ history'.told = history.told /\ history'.event = history.told /\ history'.forgot = history.forgot
  BY LookHistory
<1>4. /\ status = "PARSING" /\ status' = status /\ Return(call.from, "OK")
      /\ position' = position + (call.from - positionPtr) /\ positionPtr' = call.from
  BY <1>1 DEF Waits
<1>5. before' \in Nat
  BY <1>1, RememberType
<1> QED  BY <1>1, <1>2, <1>3, <1>4, <1>5, ReturnStep

(* The document ends where its last token does.                            *)
LEMMA EndStep ==
  ASSUME IndInv, End
  PROVE  IndInv'
<1>1. /\ call.at = "processor" /\ ~broken /\ Reading /\ call.from = end /\ eventPtr' = call.from
      /\ Remember /\ Finished(call.from) /\ history' = [history EXCEPT !.event = history.told]
  BY DEF End, Running, Reading
<1>2. history \in Histories /\ ~history.failed
  BY <1>1, ReadingFacts
<1>3. /\ history' \in Histories /\ history'.received = history.received /\ history'.failed = history.failed
      /\ history'.told = history.told /\ history'.event = history.told /\ history'.forgot = history.forgot
  BY <1>1, <1>2 DEF Histories
<1>4. /\ status = "PARSING" /\ status' = "FINISHED" /\ Return(call.from, "OK")
      /\ UNCHANGED <<positionPtr, position>>
  BY <1>1 DEF Finished
<1>5. before' \in Nat
  BY <1>1, RememberType
<1> QED  BY <1>1, <1>2, <1>3, <1>4, <1>5, ReturnStep

(* An error in the document.                                               *)
LEMMA SyntaxErrorStep ==
  ASSUME IndInv, SyntaxError
  PROVE  IndInv'
<1>1. call.at = "processor" /\ ~broken /\ Reading /\ ReturnBad("SYNTAX")
  BY DEF SyntaxError, Running, Reading
<1>2. PICK place \in call.from..end :
        /\ eventPtr' = place
        /\ history' = [history EXCEPT !.event = Index(place), !.failed = TRUE]
  BY DEF SyntaxError
<1>3. /\ call.from \in Nat /\ end \in Nat /\ call.from <= end /\ history.told = BytesBefore(call.from)
      /\ history \in Histories /\ history.told \in Nat /\ history.received \in Nat
  BY <1>1, ReadingFacts
<1>4. Index(place) \in Nat /\ Index(place) = BytesBefore(place)
  BY <1>3 DEF Index, BytesBefore
<1>5. /\ history' \in Histories /\ history'.received = history.received /\ history'.failed
      /\ history'.told = history.told /\ history'.event = BytesBefore(place) /\ history'.forgot = history.forgot
  <2> DEFINE index == Index(place)
  <2>1. index \in Nat /\ index = BytesBefore(place)
    BY <1>4
  <2> HIDE DEF index
  <2>2. history' = [history EXCEPT !.event = index, !.failed = TRUE]
    BY <1>2 DEF index
  <2> QED  BY <2>1, <2>2, <1>3 DEF Histories
<1>6. eventPtr' \in call.from..end /\ history'.event = BytesBefore(eventPtr') /\ "SYNTAX" # "NONE"
  BY <1>2, <1>5
<1> QED  BY <1>1, <1>5, <1>6, BadStep

(* A call of a parser that has failed: the error again, or none when a     *)
(* deferred call has taken it away.                                        *)
LEMMA StillBrokenStep ==
  ASSUME IndInv, StillBroken
  PROVE  IndInv'
<1>1. call.at = "processor" /\ broken /\ Reading /\ eventPtr' = eventPtr /\ history' = history
  BY DEF StillBroken, Reading
<1>2. history \in Histories /\ history.failed
  BY <1>1, ReadingFacts
<1>3. ASSUME error # "NONE", ReturnBad(error)
      PROVE  IndInv'
  BY <1>1, <1>2, <1>3, BadStep
<1>4. ASSUME error = "NONE", Remember, Waits(call.from) \/ Finished(call.from)
      PROVE  IndInv'
  <2>1. before' \in Nat /\ deferral /\ history.forgot
    BY <1>1, <1>2, <1>4, RememberType DEF IndInv, Failing
  <2>2. CASE Waits(call.from)
    <3>1. /\ status = "PARSING" /\ status' = status /\ Return(call.from, "OK")
          /\ position' = position + (call.from - positionPtr) /\ positionPtr' = call.from
      BY <2>2 DEF Waits
    <3> QED  BY <3>1, <2>1, <1>1, <1>2, ReturnStep
  <2>3. CASE Finished(call.from)
    <3>1. /\ status = "PARSING" /\ status' = "FINISHED" /\ Return(call.from, "OK")
          /\ UNCHANGED <<positionPtr, position>>
      BY <2>3 DEF Finished
    <3> QED  BY <3>1, <2>1, <1>1, <1>2, ReturnStep
  <2> QED  BY <1>4, <2>2, <2>3
<1> QED  BY <1>3, <1>4 DEF StillBroken

(* XML_StopParser: refused, or the status changes.                         *)
LEMMA StopParserStep ==
  ASSUME IndInv, NEW resumable \in BOOLEAN, StopParser(resumable)
  PROVE  IndInv'
<1>1. /\ last \in Nat /\ last' = last /\ returned' = returned
      /\ UNCHANGED <<bufferVars, eventVars, parseEnd, endIndex, before, deferral, final, broken, call, history>>
  BY DEF IndInv, TypeOK, StopParser, parseVars
<1>2. CASE StopRefused(resumable) # "NONE" /\ error' = StopRefused(resumable) /\ UNCHANGED status
  BY <1>1, <1>2, RefusedStep
<1>3. CASE StopRefused(resumable) = "NONE" /\ UNCHANGED error
           /\ status' = IF resumable THEN "SUSPENDED" ELSE "FINISHED"
  <2>1. call.at = "handler" \/ (call = Idle /\ status # "PARSING")
    BY DEF StopParser
  <2>2. status \in {"INITIALIZED", "PARSING", "SUSPENDED", "FINISHED"}
    BY DEF IndInv, TypeOK
  <2>3. \/ call.at = "handler" /\ status' \in {"SUSPENDED", "FINISHED"}
        \/ status = "SUSPENDED" /\ call = Idle /\ status' = "FINISHED"
    BY <1>3, <2>1, <2>2 DEF StopRefused
  <2> QED  BY <1>1, <1>3, <2>3, RefusedStep
<1> QED  BY <1>2, <1>3 DEF StopParser

(* Asking for the line or the column counts the bytes up to the event; of  *)
(* a parser that is idle they have been counted already.                   *)
LEMMA LocateStep ==
  ASSUME IndInv, Locate
  PROVE  IndInv'
<1>1. /\ call = Idle \/ call.at = "handler"
      /\ eventPtr # Null /\ eventPtr >= positionPtr
      /\ position' = position + (eventPtr - positionPtr) /\ positionPtr' = eventPtr
      /\ UNCHANGED <<bufferVars, eventPtr, parseVars, status, final, error, broken, call, returned, history>>
  BY DEF Locate
<1>2. /\ buffer' = buffer /\ ptr' = ptr /\ end' = end /\ room' = room /\ eventPtr' = eventPtr
      /\ parseEnd' = parseEnd /\ endIndex' = endIndex /\ last' = last /\ before' = before /\ deferral' = deferral
      /\ status' = status /\ final' = final /\ error' = error /\ broken' = broken /\ call' = call
      /\ returned' = returned /\ history' = history
  BY <1>1 DEF bufferVars, parseVars
<1>3. TypeOK /\ Filling /\ Calling /\ Placing /\ Failing /\ FinishedIsRead
  BY DEF IndInv
<1>4. /\ positionPtr # Null /\ ptr # Null /\ parseEnd = end /\ history.event = BytesBefore(eventPtr)
  BY <1>1, <1>3 DEF Placing
<1>5. /\ eventPtr \in Nat /\ positionPtr \in Nat /\ ptr \in Nat /\ end \in Nat /\ history.received \in Nat
      /\ position \in Int
  BY <1>1, <1>3, <1>4, PlaceTypes DEF TypeOK
<1>6. Filling' /\ \A p : BytesBefore(p)' = BytesBefore(p)
  <2>1. UNCHANGED <<bufferVars, endIndex>> /\ history'.received = history.received
    BY <1>1, <1>2
  <2> QED  BY <2>1, <1>3, <1>4, SameFilling
<1>7. TypeOK'
  <2>1. Places' = Places /\ Lim' = Lim
    BY <1>2 DEF Places, Lim
  <2>2. position' \in Int /\ positionPtr' \in Places \cup {Null}
    BY <1>1, <1>3, <1>5 DEF TypeOK
  <2> QED  BY <1>2, <1>3, <2>1, <2>2 DEF TypeOK
<1>8. Calling'
  <2>1. Reading' = Reading
    BY <1>2 DEF Reading
  <2>2. positionPtr' # Null
    BY <1>1
  <2> QED  BY <1>2, <1>3, <1>6, <2>1, <2>2 DEF Calling
<1>9. Placing'
  <2>1. eventPtr' # Null /\ positionPtr' # Null /\ ptr' # Null /\ parseEnd' = end'
    BY <1>1, <1>2, <1>4
  <2>2. history'.event = BytesBefore(eventPtr)'
    BY <1>2, <1>4, <1>6
  <2>3. ~history'.failed => position' = BytesBefore(positionPtr)'
    <3>1. BytesBefore(positionPtr)' = BytesBefore(eventPtr)
      BY <1>1, <1>2 DEF BytesBefore
    <3>2. ~history.failed => position = BytesBefore(positionPtr)
      BY <1>3, <1>4 DEF Placing
    <3>3. BytesBefore(eventPtr) = BytesBefore(positionPtr) + (eventPtr - positionPtr)
      BY <1>5 DEF BytesBefore
    <3> QED  BY <3>1, <3>2, <3>3, <1>1, <1>2
  <2>4. ASSUME ~history.failed, call.at \in {"idle", "copied", "deferred"}, status # "FINISHED"
        PROVE  position' = history.told /\ positionPtr' = ptr /\ eventPtr <= ptr
    <3>1. position = history.told /\ positionPtr = ptr /\ eventPtr <= ptr
      BY <2>4, <1>1, <1>3, <1>4 DEF Placing
    <3>2. eventPtr = ptr
      BY <3>1, <1>1, <1>5
    <3> QED  BY <3>1, <3>2, <1>1, <1>5
  <2> QED  BY <1>2, <2>1, <2>2, <2>3, <2>4 DEF Placing
<1>10. Failing' /\ FinishedIsRead'
  BY <1>2, <1>3 DEF Failing, FinishedIsRead
<1> QED  BY <1>6, <1>7, <1>8, <1>9, <1>10 DEF IndInv

-----------------------------------------------------------------------------
(* Every step keeps the invariant.                                         *)
LEMMA InvStep ==
  ASSUME IndInv, [Next]_vars
  PROVE  IndInv'
<1>1. CASE UNCHANGED vars
  <2>1. /\ last \in Nat /\ last' = last /\ returned' = returned /\ error' = error /\ status' = status
        /\ UNCHANGED <<bufferVars, eventVars, parseEnd, endIndex, before, deferral, final, broken, call, history>>
    BY <1>1 DEF IndInv, TypeOK, vars, bufferVars, eventVars
  <2> QED  BY <2>1, RefusedStep
<1>2. CASE Application
  BY <1>2, ResetStep, ResumeStep, LocateStep, GetBufferStep, ParseStep, ParseBufferStep, StopParserStep
     DEF Application
<1>3. CASE Processor
  BY <1>3, CopiedStep, DeferredStep, StillBrokenStep, TokenStep, PartialStep, EndStep, SyntaxErrorStep,
     HandlerReturnsStep DEF Processor
<1> QED  BY <1>1, <1>2, <1>3 DEF Next

(* The parser keeps the invariant: what the places in its buffer mean, for *)
(* any sizes of the buffer and the pieces.                                 *)
THEOREM Invariance == Spec => []IndInv
<1>1. IndInv /\ [Next]_vars => IndInv'
  BY InvStep
<1> QED  BY InitInv, <1>1, PTL DEF Spec

(* Between calls the bytes that are not read and the context before them   *)
(* are in the buffer, in order.                                            *)
LEMMA KeptByInv == IndInv => InputKept
<1> SUFFICES ASSUME IndInv, ptr # Null, call = Idle
             PROVE  LET first == history.received - (end - ptr) IN
                    /\ ~broken => first = history.told
                    /\ \A i \in ptr + 1..end : buffer[i] = first + (i - ptr)
                    /\ ptr >= Least(first, ContextBytes)
                    /\ \A k \in 0..Least(first, ContextBytes) - 1 : buffer[ptr - k] = first - k
  BY DEF InputKept
<1> DEFINE first == BytesBefore(ptr)
           context == Context
<1>1. TypeOK /\ Filling /\ Calling
  BY DEF IndInv
<1>2. ~Reading
  BY DEF Reading, Idle
<1>3. /\ ptr \in Nat /\ end \in Nat /\ ptr <= end /\ history.received \in Nat /\ ContextBytes \in Nat
      /\ first = history.received - (end - ptr) /\ first \in Nat
  <2>1. /\ ptr \in Nat /\ end \in Nat /\ ptr <= end /\ history.received \in Nat /\ ContextBytes \in Nat
        /\ end - ptr <= history.received
    BY <1>1, PlaceTypes DEF Filling
  <2> QED  BY <2>1 DEF BytesBefore
<1>4. /\ context = Least(first, ContextBytes) /\ context <= ptr /\ context \in Nat /\ context <= first
  <2>1. context = Least(first, ContextBytes) /\ context <= ptr
    BY <1>1 DEF Context, Filling
  <2>2. first \in Int /\ ContextBytes \in Int /\ first >= 0 /\ ContextBytes >= 0
    BY <1>3
  <2> HIDE DEF first, context
  <2> QED  BY <2>1, <2>2, LeastIs
<1>5. ~broken => first = history.told
  BY <1>1, <1>2 DEF Calling
<1>6. ASSUME NEW i \in 1..end, i > ptr - context
      PROVE  buffer[i] = first + (i - ptr)
  <2>1. buffer[i] = BytesBefore(i)
    BY <1>1, <1>6 DEF Filling
  <2>2. BytesBefore(i) = history.received - (end - i)
    BY DEF BytesBefore
  <2> HIDE DEF first
  <2> QED  BY <2>1, <2>2, <1>3
<1> HIDE DEF first, context
<1>7. \A i \in ptr + 1..end : buffer[i] = first + (i - ptr)
  <2> TAKE i \in ptr + 1..end
  <2>1. i \in 1..end /\ i > ptr - context
    BY <1>3, <1>4
  <2> QED  BY <2>1, <1>6
<1>8. \A k \in 0..context - 1 : buffer[ptr - k] = first - k
  <2> TAKE k \in 0..context - 1
  <2>1. k \in Nat /\ k < context
    BY <1>4
  <2>2. ptr - k \in 1..end /\ ptr - k > ptr - context
    BY <2>1, <1>3, <1>4
  <2>3. buffer[ptr - k] = first + ((ptr - k) - ptr)
    BY <2>2, <1>6
  <2> QED  BY <2>1, <2>3, <1>3
<1>9. ptr >= context
  BY <1>3, <1>4
<1> QED  BY <1>3, <1>4, <1>5, <1>7, <1>8, <1>9

(* XML_GetBuffer loses nothing that is still needed, and every place in    *)
(* the buffer is what the calls take it for.                               *)
THEOREM BufferInvHolds == Spec => []BufferInv
<1>1. IndInv => BufferInv
  BY KeptByInv DEF BufferInv
<1> QED  BY Invariance, <1>1, PTL

(* XML_GetCurrentByteIndex, XML_GetCurrentLineNumber and                   *)
(* XML_GetCurrentColumnNumber tell where the event is.                     *)
THEOREM PositionsTrueHolds == Spec => []PositionsTrue
<1>1. ASSUME IndInv PROVE PositionsTrue
  <2>1. TypeOK /\ Filling /\ Placing /\ Calling /\ Failing
    BY <1>1 DEF IndInv
  <2>2. /\ end \in Nat /\ history.received \in Nat /\ endIndex = history.received
        /\ eventPtr # Null => eventPtr \in Nat
        /\ positionPtr # Null => positionPtr \in Nat /\ parseEnd = end
        /\ Null \notin Int
    BY <2>1, PlaceTypes DEF Filling, Placing
  <2>3. EventExact
    BY <2>1, <2>2 DEF EventExact, ByteIndex, Placing, BytesBefore
  <2>4. ASSUME ~history.failed, positionPtr # Null
        PROVE  position = endIndex - (parseEnd - positionPtr)
    BY <2>1, <2>2, <2>4 DEF Placing, BytesBefore
  <2>5. ASSUME ~history.failed, positionPtr = Null \/ parseEnd = Null, call = Idle
        PROVE  position = history.told
    <3>1. positionPtr = Null
      BY <2>2, <2>5
    <3>2. status # "FINISHED" /\ call.at = "idle"
      BY <3>1, <2>1, <2>5 DEF Placing, Idle
    <3> QED  BY <3>2, <2>1, <2>5 DEF Placing
  <2>6. PositionExact
    BY <2>4, <2>5 DEF PositionExact
  <2> QED  BY <2>3, <2>6 DEF PositionsTrue
<1> QED  BY Invariance, <1>1, PTL

(* A parse call reports success only of a document read to its end; after  *)
(* an error the application is told of nothing more, and the error is      *)
(* reported for good unless a call is deferred.                            *)
THEOREM ResultsTrueHolds == Spec => []ResultsTrue
<1>1. IndInv => ResultsTrue
  BY DEF IndInv, Calling, Failing, ResultsTrue, ErrorsStay
<1> QED  BY Invariance, <1>1, PTL

(* The application is told of the tokens in order, and finds each in the   *)
(* buffer where the event is.                                              *)
THEOREM TokensFollowHolds == Spec => TokensFollow
<1> DEFINE Told == call'.at = "handler" /\ call.at # "handler" =>
                     history'.event = history.told /\ buffer[eventPtr' + 1] = history.told + 1
<1>1. ASSUME IndInv, [Next]_vars PROVE [Told]_vars
  <2> SUFFICES ASSUME Next, call'.at = "handler", call.at # "handler"
               PROVE  history'.event = history.told /\ buffer[eventPtr' + 1] = history.told + 1
    BY <1>1
  <2>1. Token
    <3>1. Idle.at = "idle"
      BY DEF Idle
    <3>2. CASE Application
      <4>1. call' = call \/ call'.at \in {"idle", "copied", "processor", "deferred"}
        BY <3>1, <3>2 DEF Application, Reset, ParserInit, Resume, Locate, GetBuffer, Parse, ParseBuffer, BufferRead,
           Process, ParseRefused, StopParser, Idle
      <4> QED  BY <4>1
    <3>3. CASE Copied \/ Deferred \/ StillBroken \/ Partial \/ End \/ SyntaxError \/ HandlerReturns
      <4>1. call' = Idle \/ call'.at \in {"processor", "deferred"}
        BY <3>3, <1>1 DEF Copied, BufferRead, Process, Idle, Deferred, Waits, Return, StillBroken, Finished, ReturnBad,
           Partial, End, SyntaxError, HandlerReturns, Suspended, IndInv, TypeOK, Calls
      <4> QED  BY <3>1, <4>1
    <3> QED  BY <3>2, <3>3 DEF Next, Processor
  <2>2. Reading /\ ~broken
    BY <2>1 DEF Token, Running, Reading
  <2>3. PICK to \in call.from + 1..end :
          /\ eventPtr' = call.from
          /\ history' = [history EXCEPT !.event = history.told, !.told = Index(to), !.partial = Index(to)]
    BY <2>1 DEF Token
  <2>4. /\ ptr # Null /\ ptr \in Nat /\ end \in Nat /\ call.from \in Nat /\ call.from <= end /\ ptr <= call.from
        /\ history.told = BytesBefore(call.from) /\ history \in Histories /\ history.received \in Nat
    BY <1>1, <2>2, ReadingFacts
  <2>5. history'.event = history.told
    BY <2>3, <2>4 DEF Histories
  <2>6. call.from + 1 \in 1..end /\ call.from + 1 > ptr - Context
    <3>1. Context \in Nat
      <4> DEFINE first == BytesBefore(ptr)
      <4>1. first \in Nat /\ ContextBytes \in Nat
        BY <1>1, <2>4, InputAssumption DEF IndInv, Filling, BytesBefore
      <4>2. Context = Least(first, ContextBytes)
        BY DEF Context
      <4> HIDE DEF first
      <4> QED  BY <4>1, <4>2, LeastIs
    <3>2. to \in Nat /\ call.from + 1 <= to /\ to <= end
      BY <2>4
    <3> QED  BY <3>1, <3>2, <2>4
  <2>7. buffer[call.from + 1] = BytesBefore(call.from + 1)
    BY <1>1, <2>4, <2>6 DEF IndInv, Filling
  <2>8. BytesBefore(call.from + 1) = BytesBefore(call.from) + 1
    BY <2>4 DEF BytesBefore
  <2> QED  BY <2>3, <2>4, <2>5, <2>7, <2>8
<1>2. IndInv /\ [Next]_vars => [Told]_vars
  BY <1>1
<1> QED  BY Invariance, <1>2, PTL DEF Spec, TokensFollow

-----------------------------------------------------------------------------
(* How much is looked at in vain.  The types of what that depends on.      *)
LEMMA WorkTypes ==
  ASSUME IndInv
  PROVE  /\ history.received \in Nat /\ history.told \in Nat /\ history.partial \in Nat /\ history.wasted \in Nat
         /\ history.early \in Nat /\ history.fill \in Int /\ history.hasty \in BOOLEAN
         /\ before \in Nat /\ last \in Nat /\ Lim \in Nat /\ end \in Nat /\ end <= Lim /\ room \in Nat
         /\ end + room <= Lim /\ (ptr # Null => ptr \in Nat /\ ptr <= end) /\ ContextBytes \in Nat
         /\ Null \notin Int /\ (ptr = Null <=> buffer = <<>>) /\ (buffer = <<>> <=> Lim = 0)
         /\ call.at \in {"idle", "copied", "deferred", "processor", "handler"}
         /\ call.start \in Nat /\ call.from \in Nat
<1>1. TypeOK
  BY DEF IndInv
<1>2. /\ history.partial \in Nat /\ history.wasted \in Nat /\ history.early \in Nat /\ history.fill \in Int
      /\ history.hasty \in BOOLEAN /\ before \in Nat /\ last \in Nat /\ (ptr = Null <=> buffer = <<>>)
  BY <1>1 DEF TypeOK, Histories
<1>3. buffer = <<>> <=> Lim = 0
  BY <1>1, EmptySeq DEF TypeOK, Lim
<1> QED  BY <1>1, <1>2, <1>3, PlaceTypes

(* What is unread and what is kept before it are numbers of bytes in the   *)
(* buffer.                                                                 *)
LEMMA NeededTypes ==
  ASSUME IndInv
  PROVE  /\ Unread \in Nat /\ Kept \in Nat /\ Unread + Kept <= end
         /\ ptr # Null => Unread = end - ptr /\ Kept = Least(ptr, ContextBytes) /\ Kept <= ptr
<1>1. /\ end \in Nat /\ (ptr # Null => ptr \in Nat /\ ptr <= end) /\ ContextBytes \in Nat
  BY WorkTypes
<1>2. CASE ptr = Null
  BY <1>1, <1>2 DEF Unread, Kept
<1>3. CASE ptr # Null
  <2>1. Unread = end - ptr /\ Kept = Least(ptr, ContextBytes)
    BY <1>3 DEF Unread, Kept
  <2>2. ptr \in Nat /\ ptr <= end
    BY <1>1, <1>3
  <2>3. Kept \in Nat /\ Kept <= ptr
    BY <2>1, <2>2, <1>1, LeastIs
  <2> QED  BY <2>1, <2>2, <2>3, <1>1
<1> QED  BY <1>2, <1>3

(* A step that looks at nothing keeps the bound.                           *)
LEMMA NoLook ==
  ASSUME IndInv, IndInv', WorkIsLinear, deferral' = deferral, Looking',
         history'.wasted = history.wasted, history'.hasty = history.hasty,
         history'.received >= history.received, history'.told >= history.told
  PROVE  WorkIsLinear'
<1>1. /\ history.received \in Nat /\ history.told \in Nat /\ history.wasted \in Nat
      /\ history'.received \in Nat /\ history'.told \in Nat
  <2>1. history'.received \in Nat /\ history'.told \in Nat
    BY PlaceTypes DEF IndInv, TypeOK, Histories
  <2> QED  BY <2>1, WorkTypes
<1>2. WorkBounded'
  BY <1>1 DEF WorkIsLinear, WorkBounded
<1> QED  BY <1>2 DEF WorkIsLinear

(* A failed parser looks at nothing any more.                              *)
LEMMA BrokenLooking == broken => Looking
BY DEF Looking

(* Calls that are refused, that fail for want of memory, that ask where    *)
(* the event is, or stop the parser.                                       *)
LEMMA QuietStep ==
  ASSUME IndInv, IndInv', WorkIsLinear,
         UNCHANGED <<bufferVars, before, deferral, final, broken, call, history>>,
         last' = last \/ (~Reading /\ status' # "SUSPENDED"),
         status' = "SUSPENDED" => Reading \/ status = "SUSPENDED"
  PROVE  WorkIsLinear'
<1>1. /\ buffer' = buffer /\ ptr' = ptr /\ end' = end /\ before' = before /\ deferral' = deferral /\ final' = final
      /\ broken' = broken /\ call' = call /\ history' = history
  BY DEF bufferVars
<1>2. Reading' = Reading /\ TookToken' = TookToken /\ Lim' = Lim /\ Unread' = Unread /\ Kept' = Kept
      /\ Needed(history.fill)' = Needed(history.fill)
  BY <1>1 DEF Reading, TookToken, Lim, Unread, Kept, Needed
<1>3. Looking'
  <2> SUFFICES ASSUME deferral, ~broken PROVE Wasting' /\ Hasting'
    BY <1>1 DEF Looking
  <2>1. Wasting /\ Hasting
    BY DEF WorkIsLinear, Looking
  <2>2. Wasting'
    BY <1>1, <1>2, <2>1 DEF Wasting
  <2>3. Reading' \/ status' = "SUSPENDED" => history'.fill = Mixed \/ last' \in {0, history'.fill}
    BY <1>1, <1>2, <2>1 DEF Hasting
  <2>4. ASSUME call'.at = "processor", call'.from = call'.start, ~final' PROVE Enough(end)'
    <3>1. last' = last
      BY <2>4, <1>1 DEF Reading
    <3>2. Enough(end)
      BY <2>1, <2>4, <1>1 DEF Hasting
    <3> QED  BY <3>1, <3>2, <1>1, <1>2 DEF Enough
  <2> QED  BY <1>1, <1>2, <2>1, <2>2, <2>3, <2>4 DEF Hasting
<1>4. history.received \in Nat /\ history.told \in Nat
  BY WorkTypes
<1> QED  BY <1>1, <1>3, <1>4, NoLook

(* A buffer that is given is of the same size, and needed as much of, or   *)
(* it is a larger one.                                                     *)
LEMMA GivenSize ==
  ASSUME IndInv, IndInv', NEW len \in Nat, BufferGiven(len)
  PROVE  \/ Lim' = Lim /\ buffer # <<>> /\ Unread' = Unread /\ Kept' = Kept
         \/ Lim' > Lim
<1>1. /\ Lim \in Nat /\ Lim' \in Nat /\ end \in Nat /\ end' \in Nat /\ ContextBytes \in Nat /\ Null \notin Int
      /\ (buffer = <<>> <=> Lim = 0) /\ (ptr = Null <=> buffer = <<>>) /\ (ptr # Null => ptr \in Nat)
      /\ (ptr' # Null => ptr' \in Nat /\ ptr' <= end')
  <2>1. Lim' \in Nat
    BY DEF IndInv, TypeOK, Lim
  <2>2. end' \in Places' /\ ptr' \in Places' \cup {Null} /\ (ptr' # Null => ptr' <= end')
    BY DEF IndInv, TypeOK
  <2>3. end' \in Nat /\ (ptr' # Null => ptr' \in Nat /\ ptr' <= end')
    BY <2>1, <2>2 DEF Places
  <2> QED  BY <2>1, <2>3, WorkTypes
<1>2. /\ Unread \in Nat /\ Kept \in Nat
      /\ ptr # Null => Unread = end - ptr /\ Kept = Least(ptr, ContextBytes) /\ Kept <= ptr
  BY NeededTypes
<1>3. CASE InPlace(len)
  BY <1>3 DEF InPlace, Fits, Lim, Unread, Kept
<1>4. CASE Moves(len)
  <2>1. buffer # <<>> /\ buffer' = Moved(Lim) /\ ptr' = Kept /\ end' = Kept + Unread
    BY <1>4 DEF Moves, Reusable
  <2>2. Lim' = Lim
    <3>1. Moved(Lim) \in [1..Lim -> {Moved(Lim)[i] : i \in 1..Lim}]
      BY DEF Moved
    <3>2. Len(Moved(Lim)) = Lim
      BY <3>1, <1>1, FunctionIsSeq
    <3> QED  BY <2>1, <3>2 DEF Lim
  <2>3. ptr' # Null /\ Unread' = Unread
    <3>1. ptr' # Null
      BY <2>1, <1>1, <1>2
    <3> QED  BY <3>1, <2>1, <1>2 DEF Unread
  <2>4. Kept' = Kept
    <3>1. Kept' = Least(Kept, ContextBytes)
      BY <2>1, <2>3 DEF Kept
    <3>2. Kept <= ContextBytes
      <4>1. ptr \in Int /\ ContextBytes \in Int /\ Kept = Least(ptr, ContextBytes)
        BY <2>1, <1>1, <1>2
      <4> QED  BY <4>1, LeastIs
    <3> QED  BY <3>1, <3>2, <1>1, <1>2 DEF Least
  <2> QED  BY <2>1, <2>2, <2>3, <2>4
<1>5. CASE Grows(len)
  <2>1. PICK size \in Sizes : IsNewSize(size, len) /\ buffer' = Moved(size)
    BY <1>5 DEF Grows
  <2>2. size \in Nat /\ size > 0 /\ size >= Needed(len)
    BY <2>1, InputAssumption DEF Sizes, IsNewSize
  <2>3. Lim' = size
    <3>1. Moved(size) \in [1..size -> {Moved(size)[i] : i \in 1..size}]
      BY DEF Moved
    <3>2. Len(Moved(size)) = size
      BY <3>1, <2>2, FunctionIsSeq
    <3> QED  BY <2>1, <3>2 DEF Lim
  <2>4. Lim = 0 \/ Needed(len) > Lim
    <3>1. Needed(len) \in Nat
      BY <1>2 DEF Needed
    <3>2. buffer = <<>> \/ ~(Needed(len) <= Lim)
      BY <1>5 DEF Grows, Reusable
    <3> QED  BY <3>1, <3>2, <1>1
  <2>5. Needed(len) \in Nat
    BY <1>2 DEF Needed
  <2> QED  BY <2>2, <2>3, <2>4, <2>5, <1>1
<1> QED  BY <1>3, <1>4, <1>5 DEF BufferGiven

(* A buffer is given.                                                      *)
LEMMA GivenLooks ==
  ASSUME IndInv, IndInv', WorkIsLinear, call = Idle, NEW len \in Nat, BufferGiven(len),
         UNCHANGED <<before, deferral, final, broken, history>>, status' # "SUSPENDED",
         call' = call \/ (call'.at = "copied" /\ ~final)
  PROVE  WorkIsLinear'
<1>1. /\ history.received \in Nat /\ history.told \in Nat /\ history.early \in Nat /\ history.fill \in Int
      /\ Lim \in Nat /\ Lim' \in Nat /\ (buffer = <<>> <=> Lim = 0)
  <2>1. Lim' \in Nat
    BY PlaceTypes DEF IndInv, TypeOK, Lim, Places
  <2> QED  BY <2>1, WorkTypes
<1>2. ~Reading /\ ~Reading' /\ ~TookToken /\ ~TookToken' /\ call'.at \in {"idle", "copied"}
      /\ (call'.at = "copied" => ~final)
  BY DEF Reading, TookToken, Idle
<1>3. Looking'
  <2> SUFFICES ASSUME deferral, ~broken PROVE Wasting' /\ Hasting'
    BY DEF Looking
  <2>1. Wasting /\ Hasting
    BY DEF WorkIsLinear, Looking
  <2>2. Wasting'
    BY <1>2, <2>1 DEF Wasting
  <2>3. history.early <= Lim
    BY <2>1 DEF Hasting
  <2>4. CASE Lim' = Lim /\ buffer # <<>> /\ Unread' = Unread /\ Kept' = Kept
    <3>1. Needed(history.fill)' = Needed(history.fill)
      BY <2>4 DEF Needed
    <3> QED  BY <3>1, <2>1, <2>2, <2>4, <1>2 DEF Hasting
  <2>5. CASE Lim' > Lim
    <3>1. history.early <= Lim' /\ history.early # Lim'
      BY <2>3, <2>5, <1>1
    <3> QED  BY <3>1, <2>1, <2>2, <1>2 DEF Hasting
  <2> QED  BY <2>4, <2>5, GivenSize
<1> QED  BY <1>1, <1>3, NoLook

(* XML_ParserReset: the history begins anew.                               *)
LEMMA ResetLooks ==
  ASSUME IndInv, Reset
  PROVE  WorkIsLinear'
<1>1. /\ history' = [HistoryInit EXCEPT !.resets = history.resets + 1]
      /\ buffer' = buffer /\ before' = 0 /\ status' = "INITIALIZED" /\ call' = Idle /\ final' = FALSE
  BY DEF Reset, ParserInit
<1>2. /\ history'.received = 0 /\ history'.told = 0 /\ history'.partial = 0 /\ history'.wasted = 0
      /\ history'.early = 0 /\ ~history'.hasty
  BY <1>1 DEF HistoryInit
<1>3. /\ Lim' = Lim /\ Lim \in Nat /\ (buffer = <<>> <=> Lim = 0)
  BY <1>1, WorkTypes DEF Lim
<1>4. ~Reading' /\ ~TookToken' /\ call'.at = "idle"
  BY <1>1 DEF Reading, TookToken, Idle
<1>5. Wasting' /\ WorkBounded'
  BY <1>1, <1>2, <1>4 DEF Wasting, WorkBounded
<1>6. Hasting'
  BY <1>1, <1>2, <1>3, <1>4 DEF Hasting
<1> QED  BY <1>5, <1>6 DEF Looking, WorkIsLinear

(* XML_ParseBuffer: after a look before its time there is no room for a    *)
(* piece of the size of those before it.                                   *)
LEMMA ReadLooks ==
  ASSUME IndInv, IndInv', WorkIsLinear, call = Idle \/ call.at = "copied", ptr # Null, ~final \/ call.at = "copied",
         NEW len \in Nat, len <= room, NEW isFinal \in BOOLEAN, BufferRead(len, isFinal)
  PROVE  WorkIsLinear'
<1>1. /\ ptr' = ptr /\ end' = end + len /\ final' = isFinal /\ status' = "PARSING" /\ Process(end + len, isFinal)
      /\ history' = [history EXCEPT !.received = @ + len, !.fill = Filled(len)]
      /\ last' = last /\ before' = before /\ deferral' = deferral /\ broken' = broken
      /\ DOMAIN buffer' = 1..Lim
  BY DEF BufferRead
<1>2. /\ history.received \in Nat /\ history.told \in Nat /\ history.partial \in Nat /\ history.wasted \in Nat
      /\ history.early \in Nat /\ history.fill \in Int /\ before \in Nat /\ last \in Nat /\ Lim \in Nat /\ end \in Nat
      /\ room \in Nat /\ end + room <= Lim /\ ptr \in Nat /\ ptr <= end /\ (buffer = <<>> <=> Lim = 0)
      /\ ContextBytes \in Nat
  BY WorkTypes
<1>3. /\ history'.received = history.received + len /\ history'.fill = Filled(len)
      /\ history'.told = history.told /\ history'.partial = history.partial /\ history'.wasted = history.wasted
      /\ history'.early = history.early /\ history'.hasty = history.hasty
  <2>1. history \in Histories
    BY DEF IndInv, TypeOK
  <2> HIDE DEF Filled
  <2> QED  BY <1>1, <2>1 DEF Histories
<1>4. Lim' = Lim
  <2>1. Lim' \in Nat /\ DOMAIN buffer' = 1..Lim'
    BY LenProperties DEF IndInv, TypeOK, Lim
  <2> DEFINE n == Lim
             m == Lim'
  <2>2. n \in Nat /\ m \in Nat /\ 1..n = 1..m
    BY <1>1, <1>2, <2>1
  <2> HIDE DEF n, m
  <2>3. (n > 0 => n \in 1..m) /\ (m > 0 => m \in 1..n)
    BY <2>2
  <2>4. n = m
    BY <2>2, <2>3
  <2> QED  BY <2>4 DEF n, m
<1>5. /\ call'.start = ptr /\ call'.from = ptr /\ call'.at \in {"processor", "deferred"}
      /\ call'.at = "processor" => isFinal \/ Enough(end + len)
  BY <1>1 DEF Process, Idle
<1>6. ~TookToken /\ ~TookToken'
  <2>1. ~Reading
    BY DEF Reading, Idle
  <2> QED  BY <1>2, <1>5, <2>1 DEF TookToken
<1>7. \/ len = 0 /\ last \in {0, history.fill} /\ Filled(len) = history.fill
      \/ len > 0 /\ len = last /\ history.fill \in {0, len} /\ Filled(len) = len
      \/ Filled(len) = Mixed
  <2>1. CASE len = 0 /\ last \in {0, history.fill}
    BY <2>1 DEF Filled
  <2>2. CASE ~(len = 0 /\ last \in {0, history.fill}) /\ len = last /\ history.fill \in {0, len}
    BY <2>2 DEF Filled
  <2>3. CASE ~(len = 0 /\ last \in {0, history.fill}) /\ ~(len = last /\ history.fill \in {0, len})
    BY <2>3 DEF Filled
  <2> QED  BY <2>1, <2>2, <2>3
<1>8. Looking'
  <2> SUFFICES ASSUME deferral, ~broken PROVE Wasting' /\ Hasting'
    BY <1>1 DEF Looking
  <2>1. Wasting /\ Hasting
    BY DEF WorkIsLinear, Looking
  <2>2. Wasting'
    <3>1. history.partial <= history.received + len
      BY <2>1, <1>2 DEF Wasting
    <3> QED  BY <3>1, <2>1, <1>1, <1>3, <1>6 DEF Wasting
  <2>3. ~final
    BY <2>1 DEF Hasting
  <2>4. ASSUME ~final', history'.fill # Mixed, history'.early = Lim', buffer' # <<>>
        PROVE  /\ history'.partial = history'.received
               /\ Needed(history.fill)' > Lim'
    <3>1. history.early = Lim
      BY <2>4, <1>3, <1>4
    <3>2. history.fill # Mixed
      BY <2>4, <1>3, <1>7 DEF Mixed
    <3>3. Lim # 0
      BY <2>4, <1>4, <1>2, LenProperties, EmptySeq DEF IndInv, TypeOK, Lim
    <3>4. history.partial = history.received /\ Needed(history.fill) > Lim
      BY <2>1, <2>3, <3>1, <3>2, <3>3, <1>2 DEF Hasting
    <3>5. /\ Unread \in Nat /\ Kept \in Nat /\ Unread + Kept <= end /\ Unread = end - ptr
          /\ Unread' = end' - ptr /\ Kept' = Kept
      <4>1. Unread' = end' - ptr /\ Kept' = Kept
        BY <1>1 DEF Unread, Kept
      <4> QED  BY <4>1, NeededTypes
    <3>6. Needed(history.fill) = history.fill + Unread + Kept
      BY DEF Needed
    <3>7. len = 0
      <4>1. ASSUME len > 0, history.fill \in {0, len} PROVE FALSE
        BY <4>1, <3>4, <3>5, <3>6, <1>2
      <4> QED  BY <4>1, <1>7, <2>4, <1>3
    <3>8. history'.fill = history.fill /\ end' = end /\ history'.received = history.received
      BY <3>7, <1>1, <1>2, <1>3, <1>7, <2>4
    <3>9. Needed(history.fill)' = Needed(history.fill)
      BY <3>5, <3>8 DEF Needed
    <3> QED  BY <3>4, <3>8, <3>9, <1>3, <1>4
  <2>5. history'.early <= Lim'
    BY <2>1, <1>3, <1>4 DEF Hasting
  <2>6. history'.fill = Mixed \/ last' \in {0, history'.fill}
    BY <1>1, <1>3, <1>7
  <2>7. ASSUME call'.at = "processor", ~final' PROVE Enough(end)'
    <3>1. Enough(end + len)
      BY <2>7, <1>1, <1>5
    <3> QED  BY <3>1, <1>1, <1>4 DEF Enough
  <2> QED  BY <1>5, <1>6, <2>2, <2>4, <2>5, <2>6, <2>7 DEF Hasting
<1>9. history'.received >= history.received /\ history'.told >= history.told
  BY <1>2, <1>3
<1> QED  BY <1>1, <1>3, <1>8, <1>9, NoLook

(* XML_ResumeParser.                                                       *)
LEMMA ResumeLooks ==
  ASSUME IndInv, IndInv', WorkIsLinear, Resume
  PROVE  WorkIsLinear'
<1>1. call = Idle /\ call.at = "idle" /\ ~Reading /\ ~TookToken
  BY DEF Resume, Idle, Reading, TookToken
<1>2. CASE ParseRefused("NOT_SUSPENDED")
  BY <1>2, QuietStep DEF ParseRefused, parseVars
<1>3. ASSUME status = "SUSPENDED", status' = "PARSING", Process(parseEnd, final),
             UNCHANGED <<bufferVars, eventVars, parseVars, final, error, broken, returned, history>>
      PROVE  WorkIsLinear'
  <2>1. /\ buffer' = buffer /\ ptr' = ptr /\ end' = end /\ before' = before /\ deferral' = deferral /\ final' = final
        /\ broken' = broken /\ history' = history /\ last' = last
    BY <1>3 DEF bufferVars, parseVars
  <2>2. parseEnd = end /\ ptr # Null /\ ptr \in Nat
    <3>1. parseEnd = end /\ ptr # Null
      BY <1>3 DEF IndInv, Placing
    <3> QED  BY <3>1, WorkTypes
  <2>3. /\ call'.start = ptr /\ call'.from = ptr /\ call'.at \in {"processor", "deferred"}
        /\ call'.at = "processor" => final \/ Enough(end)
    BY <1>3, <2>2 DEF Process, Idle
  <2>4. ~TookToken'
    BY <2>2, <2>3 DEF TookToken
  <2>5. Lim' = Lim /\ Needed(history.fill)' = Needed(history.fill) /\ (Enough(end)' <=> Enough(end))
    BY <2>1 DEF Lim, Needed, Unread, Kept, Enough
  <2>6. Looking'
    <3> SUFFICES ASSUME deferral, ~broken PROVE Wasting' /\ Hasting'
      BY <2>1 DEF Looking
    <3>1. Wasting /\ Hasting
      BY DEF WorkIsLinear, Looking
    <3>2. Wasting'
      BY <3>1, <2>1, <2>4, <1>1 DEF Wasting
    <3> QED  BY <3>1, <3>2, <2>1, <2>3, <2>4, <2>5, <1>3 DEF Hasting
  <2>7. history.received \in Nat /\ history.told \in Nat
    BY WorkTypes
  <2> QED  BY <2>1, <2>6, <2>7, NoLook
<1> QED  BY <1>2, <1>3 DEF Resume

-----------------------------------------------------------------------------
(* A call that reads: all that was passed lies between the token it is at  *)
(* and the end of the buffer.                                              *)
LEMMA AllPassed ==
  ASSUME IndInv, Reading, ~broken
  PROVE  /\ Index(end) = history.received /\ Index(end) = history.told + (end - call.from)
         /\ call.from \in Nat /\ end \in Nat /\ call.from <= end /\ call.start \in Nat /\ call.start <= call.from
         /\ call.start = ptr /\ ptr \in Nat /\ ptr # Null /\ buffer # <<>> /\ Lim > 0
<1>1. /\ ptr # Null /\ ptr \in Nat /\ end \in Nat /\ call.from \in Nat /\ call.start = ptr /\ ptr <= call.from
      /\ call.from <= end /\ history.told = BytesBefore(call.from) /\ history.received \in Nat
  BY ReadingFacts
<1>2. buffer # <<>> /\ Lim > 0
  <2>1. Lim \in Nat /\ (ptr = Null <=> buffer = <<>>) /\ (buffer = <<>> <=> Lim = 0)
    BY WorkTypes
  <2> QED  BY <2>1, <1>1
<1>3. Index(end) = history.told + (end - call.from) /\ Index(end) = history.received
  BY <1>1 DEF Index, BytesBefore
<1> QED  BY <1>1, <1>2, <1>3

(* After a look before its time a call that reads finds nothing new.       *)
LEMMA NothingNew ==
  ASSUME IndInv, Reading, ~broken, Hasting, ~final, history.fill # Mixed, history.early = Lim
  PROVE  ~MoreCame /\ ~TookToken /\ Needed(history.fill) > Lim /\ history.partial = history.received
<1>1. buffer # <<>> /\ Index(end) = history.received /\ history.received \in Nat
  BY AllPassed, WorkTypes
<1>2. history.partial = history.received /\ ~TookToken /\ Needed(history.fill) > Lim
  BY <1>1 DEF Hasting
<1> QED  BY <1>1, <1>2 DEF MoreCame

(* A processor tells of a token.                                           *)
LEMMA TokenLooks ==
  ASSUME IndInv, IndInv', WorkIsLinear, Token
  PROVE  WorkIsLinear'
<1>1. /\ call.at = "processor" /\ ~broken /\ Reading /\ SomethingNew
      /\ UNCHANGED <<bufferVars, positionPtr, position, parseVars, status, final, error, broken, returned>>
  BY DEF Token, Running, Reading
<1>2. PICK to \in call.from + 1..end :
        /\ Index(to) >= history.partial
        /\ call' = [call EXCEPT !.at = "handler", !.from = to]
        /\ history' = [history EXCEPT !.event = history.told, !.told = Index(to), !.partial = Index(to)]
  BY DEF Token
<1>3. /\ Index(end) = history.received /\ Index(end) = history.told + (end - call.from)
      /\ call.from \in Nat /\ end \in Nat /\ call.from <= end /\ call.start \in Nat /\ call.start <= call.from
  BY <1>1, AllPassed
<1>4. /\ history.received \in Nat /\ history.told \in Nat /\ history.partial \in Nat /\ history.wasted \in Nat
      /\ before \in Nat
  BY WorkTypes
<1>5. to \in Nat /\ to > call.from /\ to <= end
  BY <1>3
<1>6. /\ call'.at = "handler" /\ call'.from = to /\ call'.start = call.start
  <2>1. call \in Calls
    BY DEF IndInv, TypeOK
  <2> QED  BY <1>2, <2>1 DEF Calls
<1>7. /\ history'.received = history.received /\ history'.told = Index(to) /\ history'.partial = Index(to)
      /\ history'.wasted = history.wasted /\ history'.early = history.early /\ history'.hasty = history.hasty
      /\ history'.fill = history.fill
  <2> DEFINE index == Index(to)
  <2>1. history \in Histories
    BY DEF IndInv, TypeOK
  <2>2. history' = [history EXCEPT !.event = history.told, !.told = index, !.partial = index]
    BY <1>2
  <2> HIDE DEF index
  <2>3. /\ history'.received = history.received /\ history'.told = index /\ history'.partial = index
        /\ history'.wasted = history.wasted /\ history'.early = history.early /\ history'.hasty = history.hasty
        /\ history'.fill = history.fill
    BY <2>1, <2>2 DEF Histories
  <2> QED  BY <2>3 DEF index
<1>8. Index(to) = history.told + (to - call.from)
  BY DEF Index
<1>9. Index(to) \in Nat /\ Index(to) > history.told /\ Index(to) <= history.received
  BY <1>3, <1>4, <1>5, <1>8
<1>10. TookToken' /\ Lim' = Lim /\ before' = before /\ final' = final /\ last' = last /\ deferral' = deferral
       /\ buffer' = buffer
  <2>1. TookToken'
    BY <1>3, <1>5, <1>6 DEF TookToken, Reading
  <2> QED  BY <2>1, <1>1 DEF bufferVars, parseVars, Lim
<1>11. Looking'
  <2> SUFFICES ASSUME deferral PROVE Wasting' /\ Hasting'
    BY <1>10 DEF Looking
  <2>1. Wasting /\ Hasting
    BY <1>1 DEF WorkIsLinear, Looking
  <2>2. history.wasted <= 3 * Index(to)
    <3> DEFINE index == Index(to)
    <3>1. index \in Nat /\ index > history.told /\ index >= history.partial
      BY <1>2, <1>9
    <3> HIDE DEF index
    <3>2. history.wasted <= 3 * index
      <4>1. CASE TookToken
        BY <3>1, <4>1, <2>1, <1>4 DEF Wasting
      <4>2. CASE ~TookToken /\ before = 0
        BY <3>1, <4>2, <2>1, <1>4 DEF Wasting
      <4>3. CASE ~TookToken /\ before > 0
        BY <3>1, <4>3, <2>1, <1>4 DEF Wasting
      <4> QED  BY <4>1, <4>2, <4>3, <1>4
    <3> QED  BY <3>2 DEF index
  <2>3. Wasting'
    BY <2>2, <1>7, <1>9, <1>10 DEF Wasting
  <2>4. ~(~final /\ history.fill # Mixed /\ history.early = Lim)
    BY <1>1, <2>1, NothingNew DEF SomethingNew
  <2>5. history.fill = Mixed \/ last \in {0, history.fill}
    BY <1>1, <2>1 DEF Hasting
  <2> QED  BY <2>1, <2>3, <2>4, <2>5, <1>6, <1>7, <1>10 DEF Hasting
<1>12. history'.received >= history.received /\ history'.told >= history.told
  BY <1>4, <1>7, <1>9
<1> QED  BY <1>7, <1>10, <1>11, <1>12, NoLook

(* A call that returns.                                                    *)
LEMMA ReturnedFacts ==
  ASSUME NEW p, NEW result, Return(p, result)
  PROVE  /\ ptr' = p /\ buffer' = buffer /\ end' = end /\ Lim' = Lim /\ last' = last /\ deferral' = deferral
         /\ final' = final /\ broken' = broken /\ ~Reading' /\ ~TookToken' /\ call'.at = "idle"
<1>1. Idle.at = "idle"
  BY DEF Idle
<1>2. /\ ptr' = p /\ buffer' = buffer /\ end' = end /\ last' = last /\ deferral' = deferral
      /\ final' = final /\ broken' = broken /\ call' = Idle
  BY DEF Return
<1> QED  BY <1>1, <1>2 DEF Reading, TookToken, Lim

(* A deferred call returns and looks at nothing.                           *)
LEMMA DeferredLooks ==
  ASSUME IndInv, IndInv', WorkIsLinear, Deferred
  PROVE  WorkIsLinear'
<1>1. /\ call.at = "deferred" /\ Reading /\ status = "PARSING" /\ status' = "PARSING" /\ before' = before
      /\ history' = [history EXCEPT !.forgot = history.failed] /\ Return(call.start, "OK")
  BY DEF Deferred, Waits, Reading
<1>2. /\ ptr' = call.start /\ buffer' = buffer /\ end' = end /\ Lim' = Lim /\ last' = last /\ deferral' = deferral
      /\ final' = final /\ broken' = broken /\ ~Reading' /\ ~TookToken' /\ call'.at = "idle"
  BY <1>1, ReturnedFacts
<1>3. call.from = call.start /\ call.start = ptr /\ call.start \in Nat
  BY <1>1, WorkTypes DEF IndInv, Calling
<1>4. ~TookToken
  BY <1>3 DEF TookToken
<1>5. Needed(history.fill)' = Needed(history.fill)
  BY <1>1, <1>2, <1>3 DEF Needed, Unread, Kept
<1>6. Looking'
  <2> SUFFICES ASSUME deferral, ~broken PROVE Wasting' /\ Hasting'
    BY <1>2 DEF Looking
  <2>1. Wasting /\ Hasting
    BY DEF WorkIsLinear, Looking
  <2>2. Wasting'
    BY <2>1, <1>1, <1>2, <1>4 DEF Wasting
  <2> QED  BY <2>1, <2>2, <1>1, <1>2, <1>5 DEF Hasting
<1>7. history.received \in Nat /\ history.told \in Nat
  BY WorkTypes
<1> QED  BY <1>1, <1>2, <1>6, <1>7, NoLook

(* What is remembered: how much there was, when no token was taken.        *)
LEMMA Remembered ==
  ASSUME IndInv, Reading, ~broken, Remember
  PROVE  /\ TookToken => before' = 0
         /\ ~TookToken => before' = Index(end) - history.told /\ call.from = call.start
<1>1. /\ Index(end) = history.told + (end - call.from) /\ history.told \in Nat
      /\ call.from \in Nat /\ call.start \in Nat /\ call.start <= call.from /\ end \in Nat
  BY AllPassed, WorkTypes
<1>2. TookToken <=> call.from # call.start
  BY <1>1 DEF TookToken
<1> QED  BY <1>1, <1>2 DEF Remember

(* A look in vain: in time it costs as much as has come since the last one *)
(* at least; before its time it is the first with a buffer of this size.   *)
LEMMA PartialLooks ==
  ASSUME IndInv, IndInv', WorkIsLinear, Partial
  PROVE  WorkIsLinear'
<1>1. /\ call.at = "processor" /\ ~broken /\ Reading /\ ~final /\ Remember /\ Waits(call.from)
      /\ status' = "PARSING" /\ Return(call.from, "OK")
  BY DEF Partial, Running, Reading, Waits
<1>2. /\ history'.received = history.received /\ history'.told = history.told
      /\ history'.fill = history.fill
      /\ history'.partial = history.received
      /\ history'.wasted = IF MoreCame /\ ~TooEarly THEN history.wasted + (end - call.from) ELSE history.wasted
      /\ history'.early = IF Early THEN Lim ELSE history.early
      /\ history'.hasty = (history.hasty \/ (Early /\ history.early = Lim))
  BY <1>1, LookHistory, AllPassed
<1>3. /\ Index(end) = history.received /\ Index(end) = history.told + (end - call.from)
      /\ call.from \in Nat /\ end \in Nat /\ call.from <= end /\ call.start \in Nat /\ call.start <= call.from
      /\ call.start = ptr /\ ptr \in Nat /\ ptr # Null /\ buffer # <<>> /\ Lim > 0
  BY <1>1, AllPassed
<1>4. /\ history.received \in Nat /\ history.told \in Nat /\ history.partial \in Nat /\ history.wasted \in Nat
      /\ before \in Nat /\ before' \in Nat /\ last \in Nat /\ Lim \in Nat /\ history.fill \in Int
      /\ history.early \in Nat
  <2>1. before' \in Nat
    BY <1>1, RememberType
  <2> QED  BY <2>1, WorkTypes
<1>5. /\ TookToken => before' = 0
      /\ ~TookToken => before' = history.received - history.told /\ call.from = call.start
  BY <1>1, <1>3, Remembered
<1>6. /\ ptr' = call.from /\ buffer' = buffer /\ end' = end /\ Lim' = Lim /\ last' = last /\ deferral' = deferral
      /\ final' = final /\ broken' = broken /\ ~Reading' /\ ~TookToken' /\ call'.at = "idle"
  BY <1>1, ReturnedFacts
<1> DEFINE n == end - call.from
<1>7. n \in Nat /\ history.received = history.told + n
  BY <1>3
<1>8. TooEarly => ~TookToken /\ n < 2 * before
  BY <1>1, <1>3 DEF TooEarly, TookToken
<1>9. ~TookToken /\ ~TooEarly => n >= 2 * before
  BY <1>3, <1>4, <1>5 DEF TooEarly
<1>10. ~MoreCame => history.received <= history.partial
  BY <1>3, <1>4 DEF MoreCame
<1>11. history'.wasted = IF MoreCame /\ ~TooEarly THEN history.wasted + n ELSE history.wasted
  BY <1>2
<1>12. ASSUME deferral PROVE Wasting /\ Hasting
  BY <1>1, <1>12 DEF WorkIsLinear, Looking
<1>13. ASSUME deferral PROVE Wasting'
  <2>1. Wasting
    BY <1>13, <1>12
  <2> HIDE DEF n
  <2>2. history.told <= history.received /\ history.partial <= history.received
    BY <2>1, <1>4 DEF Wasting
  <2>3. ASSUME TookToken PROVE before' = 0 /\ history'.wasted <= 2 * history.told + history.received
    <3>1. history.wasted <= 3 * history.told /\ before' = 0
      BY <2>3, <2>1, <1>5 DEF Wasting
    <3> QED  BY <3>1, <2>2, <1>4, <1>7, <1>11
  <2>4. ASSUME ~TookToken
        PROVE  /\ before' = history.received - history.told
               /\ history'.wasted <= history.told + 2 * history.received
    <3>1. before' = history.received - history.told
      BY <2>4, <1>5
    <3>2. CASE before = 0
      <4>1. history.wasted <= 2 * history.told + history.partial
        BY <2>4, <3>2, <2>1 DEF Wasting
      <4> QED  BY <4>1, <3>1, <2>2, <1>4, <1>7, <1>11
    <3>3. CASE before > 0
      <4>1. before = history.partial - history.told /\ history.wasted <= history.told + 2 * history.partial
        BY <2>4, <3>3, <2>1 DEF Wasting
      <4>2. CASE MoreCame /\ ~TooEarly
        <5>1. n >= 2 * before /\ history'.wasted = history.wasted + n
          BY <4>2, <2>4, <1>9, <1>11
        <5> QED  BY <5>1, <4>1, <3>1, <2>2, <1>4, <1>7
      <4>3. CASE ~(MoreCame /\ ~TooEarly)
        BY <4>1, <4>3, <3>1, <2>2, <1>4, <1>11
      <4> QED  BY <4>2, <4>3
    <3> QED  BY <3>2, <3>3, <1>4
  <2>5. before' = 0 => history'.wasted <= 2 * history.told + history.received
    BY <2>3, <2>4, <1>4
  <2>6. before' > 0 => before' = history.received - history.told /\ history'.wasted <= history.told + 2 * history.received
    BY <2>3, <2>4, <1>4
  <2> QED  BY <2>2, <2>5, <2>6, <1>2, <1>4, <1>6 DEF Wasting
<1>14. ASSUME deferral, Early PROVE Needed(history.fill) > Lim /\ history.early # Lim
  <2>1. Hasting /\ MoreCame /\ TooEarly /\ history.fill # Mixed
    BY <1>14, <1>12 DEF Early
  <2>2. history.early # Lim
    BY <2>1, <1>1, NothingNew
  <2>3. Enough(end) /\ ~TookToken /\ call.from = call.start /\ n < 2 * before
    BY <2>1, <1>1, <1>3, <1>5, <1>8 DEF Hasting
  <2>4. last > (ptr - Least(ptr, ContextBytes)) + (Lim - end)
    <3>1. ~(end - ptr >= 2 * before)
      BY <2>3, <1>3, <1>4
    <3> QED  BY <3>1, <2>3, <1>14 DEF Enough
  <2>5. /\ Kept \in Nat /\ Kept <= ptr /\ Kept = Least(ptr, ContextBytes) /\ Unread = end - ptr /\ end <= Lim
    BY <1>3, NeededTypes, WorkTypes
  <2>6. last > 0
    BY <2>4, <2>5, <1>3, <1>4
  <2>7. last = history.fill
    BY <2>1, <2>6, <1>1 DEF Hasting
  <2> QED  BY <2>2, <2>4, <2>5, <2>7, <1>3, <1>4 DEF Needed
<1>15. ASSUME deferral PROVE Hasting'
  <2>1. Wasting /\ Hasting
    BY <1>15, <1>12
  <2>2. history'.early <= Lim'
    BY <2>1, <1>2, <1>4, <1>6 DEF Hasting
  <2>3. ASSUME history'.fill # Mixed, history'.early = Lim'
        PROVE  Needed(history.fill)' > Lim'
    <3>1. ~TookToken /\ Needed(history.fill) > Lim
      <4>1. CASE Early
        BY <4>1, <1>15, <1>14, <1>8 DEF Early
      <4>2. CASE ~Early
        BY <4>2, <2>1, <2>3, <1>1, <1>2, <1>6, NothingNew
      <4> QED  BY <4>1, <4>2
    <3>2. ptr' = ptr
      BY <3>1, <1>3, <1>5, <1>6
    <3>3. Needed(history.fill)' = Needed(history.fill)
      BY <3>2, <1>2, <1>6 DEF Needed, Unread, Kept
    <3> QED  BY <3>1, <3>3, <1>6
  <2> QED  BY <2>2, <2>3, <1>1, <1>2, <1>6 DEF Hasting
<1>16. WorkBounded'
  <2> SUFFICES ASSUME deferral PROVE history'.wasted <= 2 * history'.received + history'.told /\ ~history'.hasty
    BY <1>6 DEF WorkBounded
  <2>1. ~history'.hasty
    BY <1>2, <1>14 DEF WorkIsLinear, WorkBounded
  <2>2. Wasting'
    BY <1>13
  <2>3. history'.wasted \in Nat
    BY <1>4, <1>7, <1>11
  <2>4. history'.wasted <= 2 * history'.received + history'.told
    BY <2>2, <2>3, <1>2, <1>4, <1>6 DEF Wasting
  <2> QED  BY <2>1, <2>4
<1> QED  BY <1>6, <1>13, <1>15, <1>16 DEF Looking, WorkIsLinear

(* The document ends: nothing is left to look at.                          *)
LEMMA EndLooks ==
  ASSUME IndInv, IndInv', WorkIsLinear, End
  PROVE  WorkIsLinear'
<1>1. /\ call.at = "processor" /\ ~broken /\ Reading /\ final /\ call.from = end /\ Remember
      /\ status' = "FINISHED" /\ Return(call.from, "OK")
      /\ history' = [history EXCEPT !.event = history.told]
  BY DEF End, Running, Reading, Finished
<1>2. /\ history'.received = history.received /\ history'.told = history.told /\ history'.partial = history.partial
      /\ history'.wasted = history.wasted /\ history'.early = history.early /\ history'.hasty = history.hasty
      /\ history'.fill = history.fill
  <2>1. history \in Histories
    BY DEF IndInv, TypeOK
  <2> QED  BY <1>1, <2>1 DEF Histories
<1>3. Index(end) = history.received /\ Index(end) = history.told
  <2>1. Index(end) = history.received /\ Index(end) = history.told + (end - call.from) /\ end \in Nat
    BY <1>1, AllPassed
  <2>2. history.told \in Nat
    BY WorkTypes
  <2> QED  BY <2>1, <2>2, <1>1
<1>4. /\ history.received \in Nat /\ history.told \in Nat /\ history.partial \in Nat /\ history.wasted \in Nat
      /\ before \in Nat
  BY WorkTypes
<1>5. before' = 0
  BY <1>1, <1>3, <1>4, Remembered
<1>6. /\ Lim' = Lim /\ deferral' = deferral /\ buffer' = buffer /\ final' = final /\ ~Reading' /\ ~TookToken'
      /\ call'.at = "idle"
  BY <1>1, ReturnedFacts
<1>7. Looking'
  <2> SUFFICES ASSUME deferral PROVE Wasting' /\ Hasting'
    BY <1>6 DEF Looking
  <2>1. Wasting /\ Hasting
    BY <1>1 DEF WorkIsLinear, Looking
  <2>2. history.partial = history.told
    BY <2>1, <1>3, <1>4 DEF Wasting
  <2>3. history.wasted <= 3 * history.told
    BY <2>1, <2>2, <1>4 DEF Wasting
  <2>4. Wasting'
    BY <2>2, <2>3, <1>2, <1>3, <1>4, <1>5, <1>6 DEF Wasting
  <2>5. history.early <= Lim
    BY <2>1 DEF Hasting
  <2> QED  BY <2>4, <2>5, <1>1, <1>2, <1>6 DEF Hasting
<1> QED  BY <1>2, <1>4, <1>6, <1>7, NoLook

(* A handler returns: what is left after its token is a new token.         *)
LEMMA HandlerReturnsLooks ==
  ASSUME IndInv, IndInv', WorkIsLinear, HandlerReturns
  PROVE  WorkIsLinear'
<1>1. /\ call.at = "handler" /\ Reading /\ ~broken
      /\ history' = [history EXCEPT !.event = history.told]
  BY DEF HandlerReturns, Reading, IndInv, Calling
<1>2. /\ history'.received = history.received /\ history'.told = history.told /\ history'.partial = history.partial
      /\ history'.wasted = history.wasted /\ history'.early = history.early /\ history'.hasty = history.hasty
      /\ history'.fill = history.fill
  <2>1. history \in Histories
    BY DEF IndInv, TypeOK
  <2> QED  BY <1>1, <2>1 DEF Histories
<1>3. /\ history.received \in Nat /\ history.told \in Nat /\ history.wasted \in Nat /\ history.partial \in Nat
  BY WorkTypes
<1>4. ASSUME deferral
      PROVE  /\ Wasting /\ Hasting /\ TookToken
             /\ history.partial = history.told /\ history.wasted <= 3 * history.told
             /\ ~(~final /\ history.fill # Mixed /\ history.early = Lim)
  <2>1. Wasting /\ Hasting /\ TookToken
    BY <1>1, <1>4 DEF WorkIsLinear, Looking, Hasting
  <2> QED  BY <2>1, <1>1, NothingNew DEF Wasting
<1>5. ASSUME status = "SUSPENDED", Remember, Suspended(call.from)
      PROVE  WorkIsLinear'
  <2>1. /\ Lim' = Lim /\ deferral' = deferral /\ buffer' = buffer /\ final' = final /\ last' = last
        /\ ~Reading' /\ ~TookToken' /\ call'.at = "idle"
    BY <1>5, ReturnedFacts DEF Suspended
  <2>2. Looking'
    <3> SUFFICES ASSUME deferral PROVE Wasting' /\ Hasting'
      BY <2>1 DEF Looking
    <3>1. before' = 0
      BY <1>1, <1>4, <1>5, Remembered
    <3>2. history.wasted <= 2 * history.told + history.partial
      BY <1>3, <1>4
    <3>3. Wasting'
      BY <3>1, <3>2, <1>2, <1>4, <2>1 DEF Wasting
    <3> QED  BY <3>3, <1>1, <1>2, <1>4, <2>1 DEF Hasting
  <2> QED  BY <2>1, <2>2, <1>2, <1>3, NoLook
<1>6. ASSUME ReturnBad("ABORTED")
      PROVE  WorkIsLinear'
  <2>1. broken' /\ deferral' = deferral
    BY <1>6 DEF ReturnBad, parseVars
  <2>2. Looking'
    BY <2>1 DEF Looking
  <2> QED  BY <2>1, <2>2, <1>2, <1>3, NoLook
<1>7. ASSUME NEW next \in {call.next, call.from}, call' = [call EXCEPT !.at = "processor", !.next = next],
             UNCHANGED <<bufferVars, positionPtr, position, parseVars, status, final, error, broken, returned>>
      PROVE  WorkIsLinear'
  <2>1. call'.at = "processor" /\ call'.start = call.start /\ call'.from = call.from
    <3>1. call \in Calls
      BY DEF IndInv, TypeOK
    <3> QED  BY <1>7, <3>1 DEF Calls
  <2>2. /\ Lim' = Lim /\ deferral' = deferral /\ buffer' = buffer /\ final' = final /\ last' = last /\ before' = before
    BY <1>7 DEF bufferVars, parseVars, Lim
  <2>3. Reading'
    BY <2>1 DEF Reading
  <2>4. Looking'
    <3> SUFFICES ASSUME deferral PROVE Wasting' /\ Hasting'
      BY <2>2 DEF Looking
    <3>1. TookToken' /\ call'.from # call'.start
      <4>1. call.from > call.start /\ call.from \in Nat /\ call.start \in Nat
        BY <1>4, WorkTypes DEF TookToken
      <4> QED  BY <4>1, <2>1, <2>3 DEF TookToken
    <3>2. Wasting'
      BY <3>1, <1>2, <1>4 DEF Wasting
    <3> QED  BY <3>1, <3>2, <2>1, <2>2, <1>1, <1>2, <1>4 DEF Hasting
  <2> QED  BY <2>2, <2>4, <1>2, <1>3, NoLook
<1> QED  BY <1>5, <1>6, <1>7 DEF HandlerReturns

(* Calls that end with an error, and calls of a parser that has failed.    *)
LEMMA FailedLooks ==
  ASSUME IndInv, IndInv', WorkIsLinear, SyntaxError \/ StillBroken
  PROVE  WorkIsLinear'
<1>1. broken' /\ deferral' = deferral
  BY DEF SyntaxError, StillBroken, ReturnBad, Waits, Finished, Return, parseVars
<1>2. /\ history'.received = history.received /\ history'.told = history.told
      /\ history'.wasted = history.wasted /\ history'.hasty = history.hasty
  <2>1. history \in Histories
    BY DEF IndInv, TypeOK
  <2> QED  BY <2>1 DEF SyntaxError, StillBroken, Histories
<1>3. Looking'
  BY <1>1 DEF Looking
<1>4. history.received \in Nat /\ history.told \in Nat
  BY WorkTypes
<1> QED  BY <1>1, <1>2, <1>3, <1>4, NoLook

-----------------------------------------------------------------------------
(* XML_GetBuffer and XML_Parse.                                            *)
LEMMA GetBufferLooks ==
  ASSUME IndInv, IndInv', WorkIsLinear, NEW len \in Requests, GetBuffer(len)
  PROVE  WorkIsLinear'
<1>1. len \in Nat /\ call = Idle /\ ~Reading
      /\ UNCHANGED <<before, deferral, status, final, broken, call, history>>
  BY InputAssumption DEF GetBuffer, Reading, Idle
<1>2. CASE ~Open /\ Refused(status) /\ UNCHANGED last
  <2>1. /\ UNCHANGED <<bufferVars, before, deferral, final, broken, call, history>>
        /\ last' = last /\ (status' = "SUSPENDED" => status = "SUSPENDED")
    BY <1>1, <1>2 DEF Refused
  <2> QED  BY <2>1, QuietStep
<1>3. CASE Open /\ NoMemory(len)
  <2>1. /\ UNCHANGED <<bufferVars, before, deferral, final, broken, call, history>>
        /\ status' # "SUSPENDED"
    BY <1>1, <1>3 DEF NoMemory, Refused, Open
  <2> QED  BY <1>1, <2>1, QuietStep
<1>4. CASE Open /\ BufferGiven(len)
  <2>1. status' # "SUSPENDED" /\ UNCHANGED <<before, deferral, final, broken, history>> /\ call' = call
    BY <1>1, <1>4 DEF Open
  <2> QED  BY <1>1, <1>4, <2>1, GivenLooks
<1> QED  BY <1>2, <1>3, <1>4 DEF GetBuffer

LEMMA ParseRefusedLooks ==
  ASSUME IndInv, IndInv', WorkIsLinear, NEW code, ParseRefused(code)
  PROVE  WorkIsLinear'
<1>1. /\ UNCHANGED <<bufferVars, before, deferral, final, broken, call, history>>
      /\ last' = last /\ status' = status
  BY DEF ParseRefused, parseVars
<1> QED  BY <1>1, QuietStep

LEMMA ParseLooks ==
  ASSUME IndInv, IndInv', WorkIsLinear, NEW len \in Requests, NEW isFinal \in BOOLEAN, Parse(len, isFinal)
  PROVE  WorkIsLinear'
<1>1. len \in Nat /\ call = Idle /\ ~final /\ ~Reading
  BY InputAssumption DEF Parse, MayPass, Reading, Idle
<1>2. CASE ParseRefused(status)
  BY <1>2, ParseRefusedLooks
<1>3. ASSUME status' = "PARSING", UNCHANGED <<before, deferral, final, broken, history>>,
             NoMemory(len), UNCHANGED call
      PROVE  WorkIsLinear'
  <2>1. UNCHANGED <<bufferVars, before, deferral, final, broken, call, history>> /\ status' # "SUSPENDED"
    BY <1>3 DEF NoMemory, Refused
  <2> QED  BY <1>1, <2>1, QuietStep
<1>4. ASSUME status' = "PARSING", UNCHANGED <<before, deferral, final, broken, history>>, BufferGiven(len),
             call' = [Idle EXCEPT !.at = "copied", !.len = len, !.isFinal = isFinal]
      PROVE  WorkIsLinear'
  <2>1. call'.at = "copied" /\ status' # "SUSPENDED"
    BY <1>4 DEF Idle
  <2> QED  BY <1>1, <1>4, <2>1, GivenLooks
<1> QED  BY <1>2, <1>3, <1>4 DEF Parse

(* XML_ParseBuffer, and the rest of XML_Parse.                             *)
LEMMA BufferLooks ==
  ASSUME IndInv, IndInv', WorkIsLinear,
         Copied \/ \E len \in Requests, isFinal \in BOOLEAN : ParseBuffer(len, isFinal)
  PROVE  WorkIsLinear'
<1>1. CASE Copied
  <2>1. /\ call.at = "copied" /\ BufferRead(call.len, call.isFinal)
        /\ ptr # Null /\ call.len <= room /\ call.len \in Nat /\ call.isFinal \in BOOLEAN
    BY <1>1 DEF Copied, IndInv, Calling, TypeOK, Calls
  <2> QED  BY <2>1, ReadLooks
<1>2. ASSUME NEW len \in Requests, NEW isFinal \in BOOLEAN, ParseBuffer(len, isFinal)
      PROVE  WorkIsLinear'
  <2>1. len \in Nat /\ call = Idle /\ ~final /\ len <= room
    BY <1>2, InputAssumption DEF ParseBuffer, MayPass
  <2>2. CASE ParseRefused(status) \/ ParseRefused("NO_BUFFER")
    BY <2>2, ParseRefusedLooks
  <2>3. CASE ptr # Null /\ BufferRead(len, isFinal)
    BY <2>1, <2>3, ReadLooks
  <2> QED  BY <1>2, <2>2, <2>3 DEF ParseBuffer
<1> QED  BY <1>1, <1>2

(* XML_StopParser, and asking for the line or the column.                  *)
LEMMA AskLooks ==
  ASSUME IndInv, IndInv', WorkIsLinear, Locate \/ \E resumable \in BOOLEAN : StopParser(resumable)
  PROVE  WorkIsLinear'
<1>1. CASE Locate
  <2>1. /\ UNCHANGED <<bufferVars, before, deferral, final, broken, call, history>>
        /\ last' = last /\ status' = status
    BY <1>1 DEF Locate, parseVars
  <2> QED  BY <2>1, QuietStep
<1>2. ASSUME NEW resumable \in BOOLEAN, StopParser(resumable)
      PROVE  WorkIsLinear'
  <2>1. /\ UNCHANGED <<bufferVars, before, deferral, final, broken, call, history>> /\ last' = last
    BY <1>2 DEF StopParser, parseVars
  <2>2. status \in {"INITIALIZED", "PARSING", "SUSPENDED", "FINISHED"}
    BY DEF IndInv, TypeOK
  <2>3. status' = "SUSPENDED" => Reading \/ status = "SUSPENDED"
    BY <1>2, <2>2 DEF StopParser, StopRefused, Reading
  <2> QED  BY <2>1, <2>3, QuietStep
<1> QED  BY <1>1, <1>2

(* Every step keeps the bound.                                             *)
LEMMA LooksStep ==
  ASSUME IndInv, IndInv', WorkIsLinear, [Next]_vars
  PROVE  WorkIsLinear'
<1>1. CASE UNCHANGED vars
  <2>1. /\ UNCHANGED <<bufferVars, before, deferral, final, broken, call, history>>
        /\ last' = last /\ status' = status
    BY <1>1 DEF vars, bufferVars
  <2> QED  BY <2>1, QuietStep
<1>2. CASE Application
  BY <1>2, ResetLooks, ResumeLooks, AskLooks, GetBufferLooks, ParseLooks, BufferLooks DEF Application
<1>3. CASE Processor
  BY <1>3, BufferLooks, DeferredLooks, FailedLooks, TokenLooks, PartialLooks, EndLooks, HandlerReturnsLooks
     DEF Processor
<1> QED  BY <1>1, <1>2, <1>3 DEF Next

(* The work on tokens that stay incomplete is linear in the input, however *)
(* long it is and whatever the pieces it comes in: looks in time cost      *)
(* three bytes for each that was passed at most, and of pieces of one size *)
(* an early look is had once for each size of the buffer.                  *)
THEOREM WorkIsLinearHolds == Spec => []WorkIsLinear
<1>1. ASSUME Init PROVE WorkIsLinear
  <2>1. /\ buffer = <<>> /\ before = 0 /\ status = "INITIALIZED" /\ call = Idle /\ history = HistoryInit
        /\ final = FALSE
    BY <1>1 DEF Init
  <2>2. /\ history.received = 0 /\ history.told = 0 /\ history.partial = 0 /\ history.wasted = 0
        /\ history.early = 0 /\ ~history.hasty
    BY <2>1 DEF HistoryInit
  <2>3. Lim = 0 /\ ~Reading /\ ~TookToken /\ call.at = "idle"
    BY <2>1 DEF Lim, Reading, TookToken, Idle
  <2> QED  BY <2>1, <2>2, <2>3 DEF WorkIsLinear, WorkBounded, Looking, Wasting, Hasting
<1>2. IndInv /\ IndInv' /\ WorkIsLinear /\ [Next]_vars => WorkIsLinear'
  BY LooksStep
<1> QED  BY Invariance, <1>1, <1>2, PTL DEF Spec
=============================================================================
