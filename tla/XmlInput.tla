------------------------------ MODULE XmlInput ------------------------------
(***************************************************************************)
(* How expat takes its input: XML_GetBuffer, XML_Parse, XML_ParseBuffer,   *)
(* XML_StopParser, XML_ResumeParser, XML_ParserReset and the position and  *)
(* status calls, around callProcessor (lib/expat/lib/xmlparse.c).          *)
(*                                                                         *)
(* The input is the sequence of bytes 1, 2, 3...; a place in the buffer is *)
(* its distance from m_buffer.  Processors are seen from outside only:     *)
(* they take whole tokens from the front of what is unread and tell the    *)
(* application of each, they may find an error, and they leave a token     *)
(* that is not complete.  Where tokens end is not fixed beforehand.        *)
(***************************************************************************)
EXTENDS Integers, Sequences, FiniteSets

CONSTANTS
  ContextBytes,   \* XML_CONTEXT_BYTES
  InitBuffer,     \* INIT_BUFFER_SIZE
  IntMax,         \* INT_MAX
  Requests,       \* the numbers of bytes the application asks for or passes
  MaxInput,       \* bound: bytes passed in all
  MaxResets,      \* bound: calls of XML_ParserReset
  Deferrals,      \* the values of m_reparseDeferralEnabled looked at
  IsParamEntity,  \* m_isParamEntity: whether the parser is a child's for a parameter entity
  Null            \* NULL

ASSUME InputAssumption ==
  /\ {ContextBytes, InitBuffer, IntMax, MaxInput, MaxResets} \subseteq Nat
  /\ InitBuffer > 0
  /\ Null \notin Int
  /\ Requests \subseteq Nat
  /\ Deferrals \subseteq BOOLEAN
  /\ IsParamEntity \in BOOLEAN

VARIABLES
  buffer,      \* m_buffer: the byte at every place, 0 where none was written
  ptr,         \* m_bufferPtr, Null before the first buffer
  end,         \* m_bufferEnd
  room,        \* places after m_bufferEnd the application was given to write to
  eventPtr,    \* m_eventPtr
  positionPtr, \* m_positionPtr
  position,    \* m_position, as the number of bytes counted
  parseEnd,    \* m_parseEndPtr
  endIndex,    \* m_parseEndByteIndex
  last,        \* m_lastBufferRequestSize
  before,      \* m_partialTokenBytesBefore
  deferral,    \* m_reparseDeferralEnabled
  status,      \* m_parsingStatus.parsing
  final,       \* m_parsingStatus.finalBuffer
  error,       \* m_errorCode
  broken,      \* whether m_processor is errorProcessor
  call,        \* the parse call under way: what it is at, and where its processor reads
  returned,    \* what the last parse call returned
  history      \* for the properties, see HistoryInit

bufferVars == <<buffer, ptr, end, room>>
eventVars == <<eventPtr, positionPtr, position>>
parseVars == <<parseEnd, endIndex, last, before, deferral>>
vars == <<buffer, ptr, end, room, eventPtr, positionPtr, position, parseEnd, endIndex, last,
          before, deferral, status, final, error, broken, call, returned, history>>

Least(a, b) == IF a < b THEN a ELSE b
Lim == Len(buffer)                                    \* m_bufferLim
Idle == [at |-> "idle", start |-> 0, next |-> 0, from |-> 0, len |-> 0, isFinal |-> FALSE]
Mixed == -1
HistoryInit ==
  [received |-> 0,      \* bytes passed
   told     |-> 0,      \* bytes in the tokens the application was told of
   partial  |-> 0,      \* bytes up to which the next token was looked at in vain
   event    |-> 0,      \* bytes before the place of the last event
   fill     |-> 0,      \* the number of bytes of every piece so far, Mixed if they differ
   wasted   |-> 0,      \* bytes looked at in vain, each time more had come, by looks in time
   early    |-> 0,      \* the size of the buffer at the last look before its time
   hasty    |-> FALSE,  \* whether there were two such looks with the buffer of one size
   failed   |-> FALSE,  \* whether a parse call has found an error in the document
   forgot   |-> FALSE,  \* whether a call was deferred after that
   resets   |-> 0]

(* parserInit; a buffer is kept.                                           *)
ParserInit(resets) ==
  /\ end' = 0 /\ room' = 0
  /\ eventPtr' = Null /\ positionPtr' = Null /\ position' = 0
  /\ parseEnd' = Null /\ endIndex' = 0 /\ last' = 0 /\ before' = 0
  /\ deferral' \in Deferrals
  /\ status' = "INITIALIZED" /\ final' = FALSE
  /\ error' = "NONE" /\ broken' = FALSE
  /\ call' = Idle /\ returned' = "none"
  /\ history' = [HistoryInit EXCEPT !.resets = resets]

Init ==
  /\ buffer = <<>> /\ ptr = Null /\ end = 0 /\ room = 0
  /\ eventPtr = Null /\ positionPtr = Null /\ position = 0
  /\ parseEnd = Null /\ endIndex = 0 /\ last = 0 /\ before = 0
  /\ deferral \in Deferrals
  /\ status = "INITIALIZED" /\ final = FALSE
  /\ error = "NONE" /\ broken = FALSE
  /\ call = Idle /\ returned = "none"
  /\ history = HistoryInit

Reset ==
  /\ call = Idle
  /\ history.resets < MaxResets
  /\ ptr' = IF buffer = <<>> THEN Null ELSE 0
  /\ ParserInit(history.resets + 1)
  /\ UNCHANGED buffer

-----------------------------------------------------------------------------
(* XML_GetBuffer                                                           *)
Unread == IF ptr = Null THEN 0 ELSE end - ptr
Kept == IF ptr = Null THEN 0 ELSE Least(ptr, ContextBytes)
Needed(len) == len + Unread + Kept
(* Doubled until it is enough, or overflows.                               *)
Sizes ==
  {size \in 1..IntMax : \E k \in 1..IntMax : size = (IF Lim = 0 THEN InitBuffer ELSE Lim) * 2 ^ k}
IsNewSize(size, len) ==
  size >= Needed(len) /\ \A other \in Sizes : other >= Needed(len) => size <= other

(* Mutant: the context is not taken along, though it is counted.           *)
MovedUnreadOnly(size) ==
  [i \in 1..size |-> IF i <= Unread THEN buffer[ptr + i]
                     ELSE IF size = Lim /\ i <= Lim THEN buffer[i] ELSE 0]

(* The unread bytes and the context before them, put to the front.         *)
Moved(size) ==
  [i \in 1..size |-> IF i <= Unread + Kept THEN buffer[ptr - Kept + i]
                     ELSE IF size = Lim /\ i <= Lim THEN buffer[i] ELSE 0]
Refused(code) ==
  /\ error' = code
  /\ UNCHANGED <<bufferVars, eventVars>>

(* Mutant: the bytes that are unread are not taken into account.           *)
FitsUnread(len) == buffer # <<>> /\ len <= Lim - ptr

Fits(len) == buffer # <<>> /\ len <= Lim - end
InPlace(len) ==
  /\ Fits(len)
  /\ room' = len
  /\ UNCHANGED <<buffer, ptr, end, eventVars, error>>

(* Mutant: the event is kept when the bytes are moved within the buffer.   *)
ForgetEventIfNew ==
  /\ eventPtr' = IF Len(buffer') = Lim THEN eventPtr ELSE Null
  /\ positionPtr' = Null
  /\ UNCHANGED position

ForgetEvent == eventPtr' = Null /\ positionPtr' = Null /\ UNCHANGED position

Reusable(len) == buffer # <<>> /\ Needed(len) <= Lim
Moves(len) ==
  /\ ~Fits(len)
  /\ Reusable(len)
  /\ buffer' = Moved(Lim)
  /\ ptr' = Kept
  /\ end' = Kept + Unread
  /\ room' = len
  /\ ForgetEvent
  /\ UNCHANGED error
Grows(len) ==
  /\ ~Fits(len)
  /\ ~Reusable(len)
  /\ \E size \in Sizes : IsNewSize(size, len) /\ buffer' = Moved(size)
  /\ ptr' = Kept
  /\ end' = Kept + Unread
  /\ room' = len
  /\ ForgetEvent
  /\ UNCHANGED error
(* The size overflows, or malloc fails.                                    *)
NoMemory(len) ==
  /\ ~Fits(len)
  /\ ~Reusable(len)
  /\ Refused("NO_MEMORY")

Open == status \in {"INITIALIZED", "PARSING"}
BufferGiven(len) == InPlace(len) \/ Moves(len) \/ Grows(len)
GetBuffer(len) ==
  /\ call = Idle
  /\ history.received + len <= MaxInput
  /\ \/ ~Open /\ Refused(status) /\ UNCHANGED last
     \/ Open /\ (BufferGiven(len) \/ NoMemory(len)) /\ last' = len
  /\ UNCHANGED <<parseEnd, endIndex, before, deferral, status, final, broken, call, returned, history>>

-----------------------------------------------------------------------------
(* Mutant: any byte more is enough.                                        *)
EnoughAnyMore(e) ==
  \/ ~deferral
  \/ e - ptr > before
  \/ last > (ptr - Least(ptr, ContextBytes)) + (Lim - e)

(* callProcessor: whether it is worth while to look at what there is.      *)
Enough(e) ==
  \/ ~deferral
  \/ e - ptr >= 2 * before
  \/ last > (ptr - Least(ptr, ContextBytes)) + (Lim - e)

(* A call that is refused for its state or its arguments reads nothing.    *)
ParseRefused(code) ==
  /\ error' = code
  /\ returned' = "ERROR"
  /\ UNCHANGED <<bufferVars, eventVars, parseVars, status, final, broken, call, history>>

(* Mutant: the last piece is deferred like the others.                     *)
ProcessNotFinal(e, isFinal) ==
  call' = [Idle EXCEPT !.at = IF Enough(e) THEN "processor" ELSE "deferred",
                       !.start = ptr, !.next = ptr, !.from = ptr]

(* The processor is called unless that is deferred.                        *)
Process(e, isFinal) ==
  call' = [Idle EXCEPT !.at = IF isFinal \/ Enough(e) THEN "processor" ELSE "deferred",
                       !.start = ptr, !.next = ptr, !.from = ptr]

Filled(len) ==
  CASE len = 0 /\ last \in {0, history.fill} -> history.fill
    [] len = last /\ history.fill \in {0, len} -> len
    [] OTHER -> Mixed

(* XML_ParseBuffer of len bytes written to the buffer.                     *)
BufferRead(len, isFinal) ==
  /\ buffer' = [i \in 1..Lim |-> IF i \in end + 1..end + len THEN history.received + i - end ELSE buffer[i]]
  /\ end' = end + len
  /\ parseEnd' = end + len
  /\ endIndex' = endIndex + len
  /\ room' = 0
  /\ positionPtr' = ptr
  /\ final' = isFinal
  /\ status' = "PARSING"
  /\ Process(end + len, isFinal)
  /\ history' = [history EXCEPT !.received = @ + len, !.fill = Filled(len)]
  /\ UNCHANGED <<ptr, eventPtr, position, last, before, deferral, error, broken, returned>>

MayPass == call = Idle /\ ~final   \* the last call is the one with isFinal
ParseBuffer(len, isFinal) ==
  /\ MayPass
  /\ len <= room
  /\ \/ ~Open /\ ParseRefused(status)
     \/ status = "INITIALIZED" /\ ptr = Null /\ ParseRefused("NO_BUFFER")
     \/ Open /\ ptr # Null /\ BufferRead(len, isFinal)

(* XML_Parse: first a buffer, then the bytes copied into it.               *)
Parse(len, isFinal) ==
  /\ MayPass
  /\ history.received + len <= MaxInput
  /\ \/ ~Open /\ ParseRefused(status)
     \/ /\ Open
        /\ status' = "PARSING"
        /\ last' = len
        /\ \/ NoMemory(len) /\ returned' = "ERROR" /\ UNCHANGED call
           \/ /\ BufferGiven(len)
              /\ call' = [Idle EXCEPT !.at = "copied", !.len = len, !.isFinal = isFinal]
              /\ UNCHANGED returned
        /\ UNCHANGED <<parseEnd, endIndex, before, deferral, final, broken, history>>
Copied ==
  /\ call.at = "copied"
  /\ BufferRead(call.len, call.isFinal)

(* XML_ResumeParser                                                        *)
Resume ==
  /\ call = Idle
  /\ \/ status # "SUSPENDED" /\ ParseRefused("NOT_SUSPENDED")
     \/ /\ status = "SUSPENDED"
        /\ status' = "PARSING"
        /\ Process(parseEnd, final)
        /\ UNCHANGED <<bufferVars, eventVars, parseVars, final, error, broken, returned, history>>

-----------------------------------------------------------------------------
(* The end of XML_ParseBuffer and XML_ResumeParser, with the document read *)
(* up to p and no error.                                                   *)
Return(p, result) ==
  /\ error' = "NONE"
  /\ ptr' = p
  /\ call' = Idle
  /\ returned' = result
  /\ UNCHANGED <<buffer, end, room, parseEnd, endIndex, last, deferral, final, broken>>
(* Mutant: what a suspended call has read is not counted.                  *)
SuspendedUncounted(p) ==
  /\ status = "SUSPENDED"
  /\ positionPtr' = p /\ UNCHANGED position
  /\ Return(p, "SUSPENDED")
  /\ UNCHANGED status

(* Mutant: a suspended call leaves what it has read in the buffer.         *)
SuspendedBack(p) ==
  /\ status = "SUSPENDED"
  /\ positionPtr' = call.start /\ UNCHANGED position
  /\ Return(call.start, "SUSPENDED")
  /\ UNCHANGED status

Suspended(p) ==
  /\ status = "SUSPENDED"
  /\ position' = position + (p - positionPtr) /\ positionPtr' = p
  /\ Return(p, "SUSPENDED")
  /\ UNCHANGED status
Finished(p) ==
  /\ status = "PARSING" /\ final
  /\ status' = "FINISHED"
  /\ Return(p, "OK")
  /\ UNCHANGED <<positionPtr, position>>
Waits(p) ==
  /\ status = "PARSING" /\ ~final
  /\ position' = position + (p - positionPtr) /\ positionPtr' = p
  /\ Return(p, "OK")
  /\ UNCHANGED status
(* Mutant: the error does not last.                                        *)
ReturnBadOnce(code) ==
  /\ error' = code
  /\ broken' = FALSE
  /\ ptr' = call.next
  /\ call' = Idle
  /\ returned' = "ERROR"
  /\ UNCHANGED <<buffer, end, room, positionPtr, position, parseVars, status, final>>

ReturnBad(code) ==
  /\ error' = code
  /\ broken' = TRUE
  /\ ptr' = call.next
  /\ call' = Idle
  /\ returned' = "ERROR"
  /\ UNCHANGED <<buffer, end, room, positionPtr, position, parseVars, status, final>>

Deferred ==
  /\ call.at = "deferred"
  /\ Waits(call.start)
  /\ history' = [history EXCEPT !.forgot = history.failed]
  /\ UNCHANGED <<eventPtr, before>>

(* callProcessor remembers how much there was when nothing could be taken. *)
Remember == before' = IF call.from = call.start THEN end - call.start ELSE 0

-----------------------------------------------------------------------------
(* A processor at work: at call.from, which is history.told in the input,  *)
(* it finds a token, an error, or what may become a token when more comes; *)
(* nothing else than before when there is nothing new.                     *)
Running == call.at = "processor" /\ ~broken
Index(place) == history.told + (place - call.from)
MoreCame == Index(end) > history.partial
SomethingNew == MoreCame \/ final

(* Looks that come before there is twice as much as at the last look, for  *)
(* the buffer is about to grow, by pieces of one size.                     *)
TooEarly == call.from = call.start /\ end - call.start < 2 * before
Early == MoreCame /\ TooEarly /\ history.fill # Mixed

Token ==
  /\ Running /\ SomethingNew
  /\ \E to \in call.from + 1..end :
       /\ Index(to) >= history.partial
       /\ eventPtr' = call.from
       /\ call' = [call EXCEPT !.at = "handler", !.from = to]
       /\ history' = [history EXCEPT !.event = history.told, !.told = Index(to), !.partial = Index(to)]
  /\ UNCHANGED <<bufferVars, positionPtr, position, parseVars, status, final, error, broken, returned>>
Partial ==
  /\ Running /\ ~final
  /\ eventPtr' = call.from
  /\ history' = [history EXCEPT !.partial = Index(end), !.event = history.told,
                                !.wasted = IF MoreCame /\ ~TooEarly THEN @ + (end - call.from) ELSE @,
                                !.early = IF Early THEN Lim ELSE @,
                                !.hasty = @ \/ (Early /\ history.early = Lim)]
  /\ Remember
  /\ Waits(call.from)
(* Mutant: a token that is not complete ends with the document.            *)
EndWithin ==
  /\ Running /\ final
  /\ eventPtr' = call.from
  /\ history' = [history EXCEPT !.event = history.told]
  /\ Remember
  /\ Finished(call.from)

End ==
  /\ Running /\ final /\ call.from = end
  /\ eventPtr' = call.from
  /\ history' = [history EXCEPT !.event = history.told]
  /\ Remember
  /\ Finished(call.from)
SyntaxError ==
  /\ Running /\ SomethingNew
  /\ \E place \in call.from..end :
       /\ eventPtr' = place
       /\ history' = [history EXCEPT !.event = Index(place), !.failed = TRUE]
  /\ ReturnBad("SYNTAX")

(* errorProcessor                                                          *)
StillBroken ==
  /\ call.at = "processor" /\ broken
  /\ \/ error # "NONE" /\ ReturnBad(error) /\ UNCHANGED <<eventPtr, history>>
     \/ /\ error = "NONE"
        /\ Remember
        /\ Waits(call.from) \/ Finished(call.from)
        /\ UNCHANGED <<eventPtr, history>>

-----------------------------------------------------------------------------
(* The application in a handler.  A processor may be left and entered      *)
(* again after it (m_reenter), which sets m_bufferPtr.                     *)
HandlerReturns ==
  /\ call.at = "handler"
  /\ eventPtr' = call.from
  /\ history' = [history EXCEPT !.event = history.told]
  /\ \/ status = "SUSPENDED" /\ Remember /\ Suspended(call.from)
     \/ status = "FINISHED" /\ ReturnBad("ABORTED")
     \/ /\ status = "PARSING"
        /\ \E next \in {call.next, call.from} :
             call' = [call EXCEPT !.at = "processor", !.next = next]
        /\ UNCHANGED <<bufferVars, positionPtr, position, parseVars, status, final, error, broken, returned>>

(* XML_StopParser, in a handler or of a parser that is not running.        *)
StopRefused(resumable) ==
  CASE status = "INITIALIZED" -> "NOT_STARTED"
    [] status = "SUSPENDED" /\ resumable -> "SUSPENDED"
    [] status = "FINISHED" -> "FINISHED"
    [] status = "PARSING" /\ resumable /\ IsParamEntity -> "SUSPEND_PE"
    [] OTHER -> "NONE"
StopParser(resumable) ==
  /\ call.at = "handler" \/ (call = Idle /\ status # "PARSING")
  /\ \/ /\ StopRefused(resumable) # "NONE"
        /\ error' = StopRefused(resumable)
        /\ UNCHANGED status
     \/ /\ StopRefused(resumable) = "NONE"
        /\ status' = IF resumable THEN "SUSPENDED" ELSE "FINISHED"
        /\ UNCHANGED error
  /\ UNCHANGED <<bufferVars, eventVars, parseVars, final, broken, call, returned, history>>

(* XML_GetCurrentLineNumber and XML_GetCurrentColumnNumber                 *)
Locate ==
  /\ call = Idle \/ call.at = "handler"
  /\ eventPtr # Null /\ eventPtr >= positionPtr
  /\ position + (eventPtr - positionPtr) <= MaxInput   \* bound: after an error bytes are counted again
  /\ position' = position + (eventPtr - positionPtr)
  /\ positionPtr' = eventPtr
  /\ UNCHANGED <<bufferVars, eventPtr, parseVars, status, final, error, broken, call, returned, history>>

-----------------------------------------------------------------------------
Application ==
  \/ Reset \/ Resume \/ Locate
  \/ \E len \in Requests : GetBuffer(len)
  \/ \E len \in Requests, isFinal \in BOOLEAN : Parse(len, isFinal) \/ ParseBuffer(len, isFinal)
  \/ \E resumable \in BOOLEAN : StopParser(resumable)
Processor ==
  \/ Copied \/ Deferred \/ StillBroken
  \/ Token \/ Partial \/ End \/ SyntaxError \/ HandlerReturns
Next == Application \/ Processor
Spec == Init /\ [][Next]_vars /\ WF_vars(Processor)

-----------------------------------------------------------------------------
Places == 0..Lim
Calls == [at : {"idle", "copied", "deferred", "processor", "handler"},
          start : Nat, next : Nat, from : Nat, len : Nat, isFinal : BOOLEAN]
Histories == [received : Nat, told : Nat, partial : Nat, event : Nat, fill : Int, wasted : Nat,
              early : Nat, hasty : BOOLEAN, failed : BOOLEAN, forgot : BOOLEAN, resets : Nat]
TypeOK ==
  /\ buffer \in Seq(0..MaxInput)
  /\ ptr \in Places \cup {Null} /\ (ptr = Null <=> buffer = <<>>)
  /\ end \in Places /\ room \in 0..Lim - end
  /\ ptr # Null => ptr <= end
  /\ eventPtr \in Places \cup {Null} /\ positionPtr \in Places \cup {Null} /\ position \in Int
  /\ parseEnd \in Nat \cup {Null} /\ endIndex \in Nat /\ last \in Nat /\ before \in Nat
  /\ deferral \in BOOLEAN /\ final \in BOOLEAN /\ broken \in BOOLEAN
  /\ status \in {"INITIALIZED", "PARSING", "SUSPENDED", "FINISHED"}
  /\ call \in Calls
  /\ returned \in {"none", "OK", "ERROR", "SUSPENDED"}
  /\ history \in Histories

(* What the application passed is in the buffer, once and in order, from   *)
(* the first byte of the token that is not complete to the last byte; and  *)
(* before it the bytes already read that XML_GetInputContext promises, as  *)
(* many as XML_CONTEXT_BYTES or all there were (XML_GetBuffer's memmove    *)
(* and memcpy).                                                            *)
InputKept ==
  ptr # Null /\ call = Idle =>
    LET first == history.received - (end - ptr) IN
    /\ ~broken => first = history.told
    /\ \A i \in ptr + 1..end : buffer[i] = first + (i - ptr)
    /\ ptr >= Least(first, ContextBytes)
    /\ \A k \in 0..Least(first, ContextBytes) - 1 : buffer[ptr - k] = first - k

(* XML_GetCurrentByteIndex says where the event is, whenever it is asked:  *)
(* no move of the buffer leaves an old place behind (m_eventPtr).          *)
ByteIndex == endIndex - (parseEnd - eventPtr)
EventExact ==
  eventPtr # Null =>
    /\ ByteIndex = history.event
    /\ positionPtr # Null

(* Every byte is counted once for lines and columns, however the calls are *)
(* cut, suspended and resumed and whenever the application asks, as long   *)
(* as the document has no error (m_positionPtr).                           *)
PositionExact ==
  ~history.failed =>
    IF positionPtr # Null /\ parseEnd # Null THEN position = endIndex - (parseEnd - positionPtr)
    ELSE call = Idle => position = history.told

(* A document is finished with success only when all of it was read.       *)
FinishedIsRead ==
  call = Idle /\ ~history.failed /\ status = "FINISHED" /\ returned = "OK" =>
    history.told = history.received

(* The tokens the application is told of follow each other without gap or  *)
(* overlap, across moves of the buffer, suspensions and deferred calls.    *)
TokensFollow ==
  [][call'.at = "handler" /\ call.at # "handler" =>
       history'.event = history.told /\ buffer[eventPtr' + 1] = history.told + 1]_vars

(* Every parse call returns, if handlers do.                               *)
CallsReturn == call # Idle ~> call = Idle

(* A parser that has found an error in the document tells the application  *)
(* of nothing more and never says afterwards that there was none           *)
(* (m_processor = errorProcessor), until a call is deferred: that one does *)
(* not ask errorProcessor, returns success and forgets the error.          *)
ErrorsStay ==
  history.failed =>
    /\ call.at # "handler"
    /\ call = Idle /\ returned # "ERROR" => history.forgot /\ deferral

-----------------------------------------------------------------------------
(* The inductive invariant behind these.  What was passed is in the buffer *)
(* from the context that is kept to the last byte, whatever the call that  *)
(* is under way has read of it.                                            *)
BytesBefore(place) == history.received - (end - place)
Context == Least(BytesBefore(ptr), ContextBytes)
Filling ==
  /\ endIndex = history.received
  /\ history.received + room <= MaxInput
  /\ ptr = Null => history.received = 0 /\ history.told = 0
  /\ ptr # Null =>
       /\ end - ptr <= history.received
       /\ Context <= ptr
       /\ \A i \in 1..end : i > ptr - Context => buffer[i] = BytesBefore(i)

(* The places a call has come to, and the parser's status in it.           *)
Reading == call.at \in {"deferred", "processor", "handler"}
Calling ==
  /\ call.at = "idle" => call = Idle
  /\ call.at = "copied" => ptr # Null /\ call.len <= room /\ status = "PARSING"
  /\ Reading =>
       /\ ptr # Null /\ positionPtr # Null
       /\ call.start = ptr /\ ptr <= call.next /\ call.next <= call.from /\ call.from <= end
       /\ status = "PARSING" \/ (call.at = "handler" /\ status # "INITIALIZED")
  /\ call.at = "deferred" => deferral
  /\ call.at = "deferred" \/ broken => call.from = call.start
  /\ call.at = "handler" => ~broken
  /\ ~broken /\ ptr # Null => history.told = BytesBefore(IF Reading THEN call.from ELSE ptr)

(* m_eventPtr and m_positionPtr are NULL or of this buffer; between calls  *)
(* all lines have been counted up to m_bufferPtr.                          *)
Placing ==
  /\ positionPtr # Null => ptr # Null /\ parseEnd = end
  /\ status \in {"SUSPENDED", "FINISHED"} => positionPtr # Null
  /\ eventPtr # Null => positionPtr # Null /\ history.event = BytesBefore(eventPtr)
  /\ ~history.failed /\ positionPtr # Null => position = BytesBefore(positionPtr)
  /\ ~history.failed /\ call.at \in {"idle", "copied", "deferred"} /\ status # "FINISHED" =>
       /\ position = history.told
       /\ positionPtr \in {Null, ptr}
       /\ eventPtr # Null => eventPtr <= ptr

(* Errors in the document and calls of XML_StopParser that cannot be taken *)
(* back leave the parser broken.                                           *)
Failing ==
  /\ history.failed => broken
  /\ broken /\ ~history.failed => call = Idle /\ status = "FINISHED" /\ returned = "ERROR"
  /\ history.failed /\ ~history.forgot => error # "NONE" /\ (call = Idle => returned = "ERROR")
  /\ history.forgot => history.failed /\ deferral
  /\ status = "SUSPENDED" /\ call = Idle => returned # "OK"

IndInv == TypeOK /\ Filling /\ Calling /\ Placing /\ Failing /\ FinishedIsRead

(* How much has been looked at in vain, in terms of what the application   *)
(* was told of, what was looked at, and m_partialTokenBytesBefore: twice   *)
(* as much as before is looked at in time, and after a token that was      *)
(* taken whatever is left, once more.                                      *)
TookToken == Reading /\ call.from > call.start
Wasting ==
  /\ history.told <= history.partial /\ history.partial <= history.received
  /\ TookToken => history.partial = history.told /\ history.wasted <= 3 * history.told
  /\ ~TookToken /\ before = 0 => history.wasted <= 2 * history.told + history.partial
  /\ ~TookToken /\ before > 0 => /\ before = history.partial - history.told
                                 /\ history.wasted <= history.told + 2 * history.partial
(* After a look before its time nothing new can come before the buffer     *)
(* grows.                                                                  *)
Hasting ==
  /\ ~final /\ history.fill # Mixed /\ history.early = Lim /\ buffer # <<>> =>
       /\ history.partial = history.received
       /\ Needed(history.fill) > Lim
       /\ ~TookToken
  /\ history.early <= Lim
  /\ Reading \/ status = "SUSPENDED" => history.fill = Mixed \/ last \in {0, history.fill}
  /\ call.at = "copied" => ~final
  /\ call.at = "handler" => TookToken
  /\ call.at = "processor" /\ call.from = call.start /\ ~final => Enough(end)
Looking == deferral /\ ~broken => Wasting /\ Hasting

(* With reparse deferral the work on tokens that stay incomplete is linear *)
(* in the input (callProcessor): looks at twice as much as before, and     *)
(* first looks after a token was taken, cost three bytes for each that was *)
(* passed at most.  Earlier looks happen because a piece is about to make  *)
(* the buffer grow; by pieces of one size only once for each size of the   *)
(* buffer, which is doubled.                                               *)
WorkBounded ==
  deferral => history.wasted <= 2 * history.received + history.told /\ ~history.hasty
WorkIsLinear == Looking /\ WorkBounded

(* The buffer keeps what is still needed (XML_GetBuffer), and every place  *)
(* in it is what the calls take it for.                                    *)
BufferInv == IndInv /\ InputKept

(* What the position calls answer is so, for bytes, lines and columns.     *)
PositionsTrue == EventExact /\ PositionExact

(* What a parse call returns is so, of success and of failure.             *)
ResultsTrue == FinishedIsRead /\ ErrorsStay
=============================================================================
