----------------------------- MODULE CacheFile -----------------------------
(***************************************************************************)
(* The cache file of one URL over any number of runs of xrss: main.zig     *)
(* opens and reads it, truncates it, writes the fetched feed into it and   *)
(* goes on to compare; Data.read and Data.write are its format.  A run may *)
(* be killed, and its writes may fail, at any point.  Runs do not overlap. *)
(*                                                                         *)
(* A file is a sequence of words: the magic, a u64, or one character of a  *)
(* value.  A file that ends inside a word reads like one that ends before  *)
(* it, since read takes words whole.                                       *)
(***************************************************************************)
EXTENDS RssData, FiniteSets, SequencesExt

CONSTANTS
  Feeds,        \* what a run may fetch
  Magic,        \* config.XRSS_FILE_MAGIC
  MaxChannels,  \* the limits of Data.read: 8 channels
  MaxItems,     \* and 1024 items
  BufLen,       \* the length of io_buf, in characters
  Absent        \* no file

Word == {Magic} \cup Nat \cup Char

ASSUME CacheAssumption ==
  /\ IsFiniteSet(ChannelProps) /\ IsFiniteSet(ItemProps)
  /\ Feeds \subseteq Seq(Channel)
  /\ MaxChannels \in Nat /\ MaxItems \in Nat /\ BufLen \in Nat
  /\ Absent \notin Seq(Word)

VARIABLES
  file,     \* the words of the cache file, or Absent
  fetched,  \* client.parser.data
  cache,    \* what was read, or Null (has_cache is false)
  pc,       \* idle, open, create, write, merge
  error,    \* how the last run ended before it compared, or "none"
  last      \* history: the feed of the last run that truncated the file

cacheVars == <<file, fetched, cache, pc, error, last>>

-----------------------------------------------------------------------------
(* EnumArray.iterator goes through the properties in the order of their    *)
(* enum, when writing and when reading.                                    *)
ChannelOrder == SetToSeq(ChannelProps)
ItemOrder == SetToSeq(ItemProps)

(* Data.write                                                              *)
EncodeValue(v) == IF v = Null THEN <<0>> ELSE <<Len(v)>> \o v

EncodeProps(props, order) ==
  FlattenSeq([i \in DOMAIN order |-> EncodeValue(props[order[i]])])

EncodeChannel(c) ==
  EncodeProps(c.props, ChannelOrder) \o <<Len(c.items)>> \o
  FlattenSeq([i \in DOMAIN c.items |-> EncodeProps(c.items[i], ItemOrder)])

Encode(feed) ==
  <<Magic, Len(feed)>> \o FlattenSeq([i \in DOMAIN feed |-> EncodeChannel(feed[i])])

-----------------------------------------------------------------------------
(* Data.read.  A reader r: the words ahead, the error that stopped it, the *)
(* number and the properties taken last, the items of the current channel  *)
(* and the channels read so far.                                           *)
Stopped(r) == r.error # "none"
Stop(r, e) == [r EXCEPT !.error = e]

TakeInt(r) ==
  IF Stopped(r) THEN r
  ELSE IF r.ahead = <<>> THEN Stop(r, "EndOfStream")
  ELSE [r EXCEPT !.num = Head(r.ahead), !.ahead = Tail(r.ahead)]

(* Mutant: the end of the file ends the value.                             *)
TakeRest(r) ==
  LET n == IF r.num <= Len(r.ahead) THEN r.num ELSE Len(r.ahead)
  IN IF n > BufLen THEN Stop(r, "panic")
     ELSE [r EXCEPT !.text = SubSeq(r.ahead, 1, n), !.ahead = SubSeq(r.ahead, n + 1, Len(r.ahead))]

(* Reader.take asserts that what it is asked for fits the buffer.          *)
Take(r) ==
  IF r.num > BufLen THEN Stop(r, "panic")
  ELSE IF r.num > Len(r.ahead) THEN Stop(r, "EndOfStream")
  ELSE [r EXCEPT !.text = SubSeq(r.ahead, 1, r.num),
                 !.ahead = SubSeq(r.ahead, r.num + 1, Len(r.ahead))]

ReadProp(r, p) ==
  LET len  == TakeInt(r)
      data == Take(len)
  IN IF Stopped(len) \/ len.num = 0 THEN len
     ELSE IF Stopped(data) THEN data ELSE [data EXCEPT !.props[p] = data.text]

ReadProps(r, order) ==
  LET after[i \in 0 .. Len(order)] == IF i = 0 THEN r ELSE ReadProp(after[i - 1], order[i])
  IN after[Len(order)]

(* Mutant: the new item is not reset.                                      *)
ReadItemStale(r) ==
  LET s == ReadProps(r, ItemOrder)
  IN IF Stopped(s) THEN s ELSE [s EXCEPT !.items = Append(@, s.props)]

ReadItem(r) ==
  LET s == ReadProps([r EXCEPT !.props = EmptyItem], ItemOrder)
  IN IF Stopped(s) THEN s ELSE [s EXCEPT !.items = Append(@, s.props)]

ReadItems(count) ==
  IF Stopped(count) THEN count
  ELSE LET after[k \in 0 .. count.num] == IF k = 0 THEN count ELSE ReadItem(after[k - 1])
       IN after[count.num]

(* Mutant: the limit itself is refused.                                    *)
TakeCountBelow(r, limit, refusal) ==
  LET count == TakeInt(r)
  IN IF Stopped(count) \/ count.num < limit THEN count ELSE Stop(count, refusal)

TakeCount(r, limit, refusal) ==
  LET count == TakeInt(r)
  IN IF Stopped(count) \/ count.num <= limit THEN count ELSE Stop(count, refusal)

ReadChannel(r) ==
  LET head == ReadProps([r EXCEPT !.props = EmptyChannel.props], ChannelOrder)
      body == ReadItems(TakeCount([head EXCEPT !.items = <<>>], MaxItems, "TooManyItems"))
  IN IF Stopped(body) THEN body
     ELSE [body EXCEPT !.channels = Append(@, [props |-> head.props,
                                               items |-> body.items])]

ReadChannels(count) ==
  IF Stopped(count) THEN count
  ELSE LET after[k \in 0 .. count.num] == IF k = 0 THEN count ELSE ReadChannel(after[k - 1])
       IN after[count.num]

Decode(words) ==
  LET r == [ahead |-> words, error |-> "none", num |-> 0, text |-> <<>>,
            props |-> EmptyItem, items |-> <<>>, channels |-> <<>>]
      magic == TakeInt(r)
  IN IF Stopped(magic) THEN magic
     ELSE IF magic.num # Magic THEN Stop(magic, "InvalidFormat")
     ELSE ReadChannels(TakeCount(magic, MaxChannels, "TooManyChannels"))

-----------------------------------------------------------------------------
CacheInit ==
  /\ file = Absent
  /\ fetched = <<>>
  /\ cache = Null
  /\ pc = "idle"
  /\ error = "none"
  /\ last = <<>>

(* The run is over, whatever the reason; its memory is gone.               *)
EndRun(e) ==
  /\ pc' = "idle"
  /\ error' = e
  /\ fetched' = <<>>
  /\ cache' = Null

(* A new run: its feed has been fetched and parsed.                        *)
Fetch ==
  /\ pc = "idle"
  /\ fetched' \in Feeds
  /\ pc' = "open"
  /\ error' = "none"
  /\ UNCHANGED <<file, cache, last>>

FileNotFound ==
  /\ pc = "open"
  /\ file = Absent
  /\ pc' = "create"
  /\ UNCHANGED <<file, fetched, cache, error, last>>

(* Mutant: the end of the file ends the feed.                              *)
ReadTolerant ==
  /\ pc = "open"
  /\ file # Absent
  /\ LET r == Decode(file)
     IN IF Stopped(r) /\ r.error # "EndOfStream" THEN EndRun(r.error)
        ELSE cache' = r.channels /\ pc' = "create" /\ UNCHANGED <<fetched, error>>
  /\ UNCHANGED <<file, last>>

Read ==
  /\ pc = "open"
  /\ file # Absent
  /\ LET r == Decode(file)
     IN IF Stopped(r) THEN EndRun(r.error)
        ELSE cache' = r.channels /\ pc' = "create" /\ UNCHANGED <<fetched, error>>
  /\ UNCHANGED <<file, last>>

(* createFile truncates a file that is there.                              *)
Create ==
  /\ pc = "create"
  /\ file' = <<>>
  /\ last' = fetched
  /\ pc' = "write"
  /\ UNCHANGED <<fetched, cache, error>>

(* The buffer is drained whenever it is full, and by flush at the end: what *)
(* has reached the file is always a beginning of what is written.          *)
Drain ==
  /\ pc = "write"
  /\ \E n \in Len(file)+1..Len(Encode(fetched)) :
       /\ file' = SubSeq(Encode(fetched), 1, n)
       /\ pc' = IF n = Len(Encode(fetched)) THEN "merge" ELSE "write"
  /\ UNCHANGED <<fetched, cache, error, last>>

(* Opening, allocating, truncating, writing or flushing fails, or the run  *)
(* is killed.                                                              *)
Fail ==
  /\ pc \in {"open", "create", "write"}
  /\ EndRun("other")
  /\ UNCHANGED <<file, last>>

(* The comparison and the output, or their failure, leave the file alone.  *)
Compare ==
  /\ pc = "merge"
  /\ EndRun("none")
  /\ UNCHANGED <<file, last>>

CacheNext == Fetch \/ FileNotFound \/ Read \/ Create \/ Drain \/ Fail \/ Compare

CacheSpec == CacheInit /\ [][CacheNext]_cacheVars

-----------------------------------------------------------------------------
ReadErrors == {"EndOfStream", "InvalidFormat", "TooManyChannels", "TooManyItems", "panic"}

CacheTypeOK ==
  /\ file = Absent \/ file \in Seq(Word)
  /\ fetched \in Seq(Channel) /\ last \in Seq(Channel)
  /\ cache = Null \/ cache \in Seq(Channel)
  /\ pc \in {"idle", "open", "create", "write", "merge"}
  /\ error \in {"none", "other"} \cup ReadErrors

(* A value as it comes back from the file: empty and absent are one.       *)
Stored(v) == IF v = <<>> THEN Null ELSE v
StoredFeed(feed) ==
  [i \in DOMAIN feed |->
     [props |-> [p \in ChannelProps |-> Stored(feed[i].props[p])],
      items |-> [k \in DOMAIN feed[i].items |->
                   [p \in ItemProps |-> Stored(feed[i].items[k][p])]]]]

(* A run compares what it fetched with the whole feed of the run that last *)
(* wrote the cache, whatever happened to the runs in between: a file that  *)
(* was left half-written is never taken for a feed, and nothing moves from *)
(* one property, item or channel to another on the way through the file.   *)
CacheIsLastFeed ==
  pc = "create" => cache = IF file = Absent THEN Null ELSE StoredFeed(last)

(* Reading fails for no other reason than a write that was cut short or a  *)
(* feed beyond the limits of read.                                         *)
Values(feed) ==
  UNION ({{c.props[p] : p \in ChannelProps} : c \in ToSet(feed)} \cup
         {{item[p] : p \in ItemProps} : item \in UNION {ToSet(c.items) : c \in ToSet(feed)}})
WithinLimits(feed) ==
  /\ Len(feed) <= MaxChannels
  /\ \A c \in ToSet(feed) : Len(c.items) <= MaxItems
  /\ \A v \in Values(feed) \ {Null} : Len(v) <= BufLen
ReadErrorsExplained ==
  /\ error # "InvalidFormat"
  /\ error = "EndOfStream" => file # Encode(last)
  /\ error \in ReadErrors \ {"EndOfStream"} => ~WithinLimits(last)

(* Reading gives the feed that was last written, or fails with a cause     *)
(* (Data.read after Data.write).                                           *)
ReadsLastFeed == CacheTypeOK /\ CacheIsLastFeed /\ ReadErrorsExplained

(* A run that was cut short never goes unnoticed: the next one that opens  *)
(* the file fails, and the file stays as it is.                            *)
TornIsNoticed ==
  [][ (pc = "open" /\ file # Absent /\ file # Encode(last)) => file' = file /\ pc' = "idle" ]_cacheVars

=============================================================================
