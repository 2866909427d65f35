------------------------------- MODULE Merge -------------------------------
(***************************************************************************)
(* How main.zig picks what to print: the channels just fetched are         *)
(* compared with those of the cache, items that are in the cache already   *)
(* are removed, and what remains is moved to `output`.  One thread runs    *)
(* the loops; every `try` and `orelse return` may leave them half-way,     *)
(* and then the destructors of parser, cache and output run.               *)
(*                                                                         *)
(* A channel is reduced to its title, its lastBuildDate and its items, an  *)
(* item to its guid and its pubDate.  A property that is not set is Null,  *)
(* a date that parseRfc1123ToNanos rejects is Bad, every other date is its *)
(* number of nanoseconds.                                                  *)
(***************************************************************************)
EXTENDS Integers, Sequences, SequencesExt

CONSTANTS
  Title, Guid, Date,  \* the values the three properties can have
  Null, Bad,
  Feeds,         \* the feeds a run may fetch or find in the cache
  InitCapacity,  \* the growth of an ArrayList(u64) beyond n + n / 2: a cache line
  AllocFails     \* the outcomes of an allocation: {FALSE} or BOOLEAN

Item == [guid : Guid \cup {Null}, pub_date : Date \cup {Null, Bad}]
Channel == [title : Title \cup {Null}, last_build_date : Date \cup {Null, Bad},
            items : Seq(Item)]

ASSUME MergeAssumption ==
  /\ Date \subseteq Int
  /\ Null \notin Guid /\ Null \notin Title /\ Null \notin Date /\ Null \notin Nat
  /\ Bad \notin Date
  /\ Feeds \subseteq Seq(Channel)
  /\ InitCapacity \in Nat
  /\ AllocFails \subseteq BOOLEAN

VARIABLES
  fetched,     \* history: the channels as they were parsed
  has_cache,
  cache,       \* the channels of the cache, <<>> without one
  channels,    \* client.parser.data.channels: [channel, list]
  output,      \* output.channels: [channel, list]
  at,          \* the channel the outer loop is at
  item_idx,    \* the two inner loops
  cache_idx,
  to_delete,   \* indices of items to remove
  capacity,    \* of to_delete
  pc,          \* channels, items, done
  outcome      \* running, ok, an error, or a failed safety check

vars == <<fetched, has_cache, cache, channels, output, at, item_idx, cache_idx,
          to_delete, capacity, pc, outcome>>
loopVars == <<item_idx, cache_idx, to_delete, capacity>>
inputs == <<fetched, has_cache, cache>>

(* A Channel and the memory of its item list: the number of the allocation *)
(* that deinit gives back, or Null for .empty.                             *)
Owned(c, list) == [channel |-> c, list |-> list]
(* Mutant: the moved channel keeps its item list.                          *)
NotMoved(o) == o

Moved(o) == Owned([o.channel EXCEPT !.items = <<>>], Null)

Init ==
  /\ fetched \in Feeds
  /\ has_cache \in BOOLEAN
  /\ cache \in IF has_cache THEN Feeds ELSE {<<>>}
  /\ channels = [i \in DOMAIN fetched |-> Owned(fetched[i], i)]
  /\ output = <<>>
  /\ at = 1
  /\ item_idx = 1 /\ cache_idx = 1
  /\ to_delete = <<>> /\ capacity = 0
  /\ pc = "channels"
  /\ outcome = "running"

-----------------------------------------------------------------------------
(* The channel the outer loop is at.                                       *)
Current == channels[at].channel

(* The cached channel the inner loop stops at, the first of the same title. *)
CacheIdx(c) == SelectInSeq(cache, LAMBDA d : d.title = c.title)
InCache(c) == CacheIdx(c) > 0
CacheChannel(c) == cache[CacheIdx(c)]

(* `.title.?` of the channel and of every cached channel it is compared to. *)
TitlesSet(c) ==
  \A k \in 1..(IF InCache(c) THEN CacheIdx(c) ELSE Len(cache)) :
    c.title # Null /\ cache[k].title # Null

IsDate(d) == d \notin {Null, Bad}

(* `orelse return` on a missing date comes before the failure to parse one; *)
(* the cached date is looked at first.                                      *)
DateError(cached, new, missing) ==
  LET first == IF IsDate(cached) THEN new ELSE cached
  IN IF first = Null THEN missing ELSE "DateParseError"

Return(o) == pc' = "done" /\ outcome' = o

AtChannel ==
  /\ pc = "channels"
  /\ has_cache
  /\ at <= Len(channels)
  /\ UNCHANGED inputs

(* The channel is appended to output, and its own item list emptied.       *)
Move(o) ==
  /\ output' = Append(output, o)
  /\ channels' = [channels EXCEPT ![at] = Moved(o)]
  /\ at' = at + 1

OutOfMemory ==
  Return("OutOfMemory") /\ UNCHANGED <<channels, output, at, loopVars>>

-----------------------------------------------------------------------------
(* No cache: everything that was fetched becomes the output.               *)
TakeAll ==
  /\ pc = "channels"
  /\ ~has_cache
  /\ output' = channels
  /\ channels' = <<>>
  /\ Return("ok")
  /\ UNCHANGED <<inputs, at, loopVars>>

(* The cache has no channel of this title.                                 *)
NewChannel(oom) ==
  /\ AtChannel
  /\ TitlesSet(Current)
  /\ ~InCache(Current)
  /\ IF oom THEN OutOfMemory
     ELSE Move(channels[at]) /\ UNCHANGED <<loopVars, pc, outcome>>

UntitledChannel ==
  /\ AtChannel
  /\ ~TitlesSet(Current)
  /\ Return("panic")
  /\ UNCHANGED <<channels, output, at, loopVars>>

BuildDates == <<CacheChannel(Current).last_build_date, Current.last_build_date>>

KnownChannel ==
  AtChannel /\ TitlesSet(Current) /\ InCache(Current)

UndatedChannel ==
  /\ KnownChannel
  /\ ~(IsDate(BuildDates[1]) /\ IsDate(BuildDates[2]))
  /\ Return(DateError(BuildDates[1], BuildDates[2], "MissingBuildDate"))
  /\ UNCHANGED <<channels, output, at, loopVars>>

(* What was fetched is older than the cache: the channel is left out.      *)
OlderChannel ==
  /\ KnownChannel
  /\ IsDate(BuildDates[1]) /\ IsDate(BuildDates[2])
  /\ BuildDates[1] > BuildDates[2]
  /\ at' = at + 1
  /\ UNCHANGED <<channels, output, loopVars, pc, outcome>>

(* ensureUnusedCapacity on an empty list.                                  *)
Grown(n) == IF capacity >= n THEN capacity ELSE n + n \div 2 + InitCapacity

(* Mutant: to_delete is not cleared.                                       *)
CompareChannelKeep(oom) ==
  /\ KnownChannel
  /\ IsDate(BuildDates[1]) /\ IsDate(BuildDates[2])
  /\ BuildDates[1] <= BuildDates[2]
  /\ IF oom THEN OutOfMemory
     ELSE /\ capacity' = Grown(Len(to_delete) + Len(Current.items))
          /\ item_idx' = 1 /\ cache_idx' = 1
          /\ pc' = "items"
          /\ UNCHANGED <<channels, output, at, to_delete, outcome>>

(* Mutant: no place is reserved for the indices.                           *)
CompareChannelUnreserved(oom) ==
  /\ KnownChannel
  /\ IsDate(BuildDates[1]) /\ IsDate(BuildDates[2])
  /\ BuildDates[1] <= BuildDates[2]
  /\ IF oom THEN OutOfMemory
     ELSE /\ to_delete' = <<>>
          /\ item_idx' = 1 /\ cache_idx' = 1
          /\ pc' = "items"
          /\ UNCHANGED <<channels, output, at, capacity, outcome>>

CompareChannel(oom) ==
  /\ KnownChannel
  /\ IsDate(BuildDates[1]) /\ IsDate(BuildDates[2])
  /\ BuildDates[1] <= BuildDates[2]
  /\ IF oom THEN OutOfMemory
     ELSE /\ to_delete' = <<>>
          /\ capacity' = Grown(Len(Current.items))
          /\ item_idx' = 1 /\ cache_idx' = 1
          /\ pc' = "items"
          /\ UNCHANGED <<channels, output, at, outcome>>

-----------------------------------------------------------------------------
CacheItems == CacheChannel(Current).items
Pair == <<CacheItems[cache_idx], Current.items[item_idx]>>

AtPair ==
  /\ pc = "items"
  /\ item_idx <= Len(Current.items)
  /\ cache_idx <= Len(CacheItems)
  /\ UNCHANGED <<inputs, channels, output, at>>

NextPair ==
  /\ IF cache_idx < Len(CacheItems)
       THEN cache_idx' = cache_idx + 1 /\ UNCHANGED item_idx
       ELSE cache_idx' = 1 /\ item_idx' = item_idx + 1
  /\ UNCHANGED <<pc, outcome>>

MissingGUID ==
  /\ AtPair
  /\ Null \in {Pair[1].guid, Pair[2].guid}
  /\ Return("MissingGUID")
  /\ UNCHANGED loopVars

SameItem == AtPair /\ Pair[1].guid = Pair[2].guid /\ Pair[1].guid # Null

(* Mutant: dates are looked at before the guids are compared.              *)
UndatedPair ==
  /\ AtPair
  /\ Null \notin {Pair[1].guid, Pair[2].guid}
  /\ ~(IsDate(Pair[1].pub_date) /\ IsDate(Pair[2].pub_date))
  /\ Return(DateError(Pair[1].pub_date, Pair[2].pub_date, "MissingPubDate"))
  /\ UNCHANGED loopVars

UndatedItem ==
  /\ SameItem
  /\ ~(IsDate(Pair[1].pub_date) /\ IsDate(Pair[2].pub_date))
  /\ Return(DateError(Pair[1].pub_date, Pair[2].pub_date, "MissingPubDate"))
  /\ UNCHANGED loopVars

OtherItem ==
  /\ AtPair
  /\ Null \notin {Pair[1].guid, Pair[2].guid}
  /\ Pair[1].guid # Pair[2].guid
  /\ NextPair
  /\ UNCHANGED <<to_delete, capacity>>

(* Mutant: an item of the same date counts as updated.                     *)
UpdatedItemOrEqual ==
  /\ SameItem
  /\ IsDate(Pair[1].pub_date) /\ IsDate(Pair[2].pub_date)
  /\ Pair[1].pub_date <= Pair[2].pub_date
  /\ NextPair
  /\ UNCHANGED <<to_delete, capacity>>

UpdatedItem ==
  /\ SameItem
  /\ IsDate(Pair[1].pub_date) /\ IsDate(Pair[2].pub_date)
  /\ Pair[1].pub_date < Pair[2].pub_date
  /\ NextPair
  /\ UNCHANGED <<to_delete, capacity>>

(* Mutant: the index is one too low.                                       *)
SeenItemOffByOne ==
  /\ SameItem
  /\ IsDate(Pair[1].pub_date) /\ IsDate(Pair[2].pub_date)
  /\ Pair[1].pub_date >= Pair[2].pub_date
  /\ Len(to_delete) < capacity
  /\ to_delete' = Append(to_delete, item_idx - 1)
  /\ NextPair
  /\ UNCHANGED capacity

(* appendAssumeCapacity: asserts that there is room.                       *)
SeenItem ==
  /\ SameItem
  /\ IsDate(Pair[1].pub_date) /\ IsDate(Pair[2].pub_date)
  /\ Pair[1].pub_date >= Pair[2].pub_date
  /\ IF Len(to_delete) < capacity
       THEN to_delete' = Append(to_delete, item_idx) /\ NextPair /\ UNCHANGED capacity
       ELSE Return("overflow") /\ UNCHANGED loopVars

(* The elements of s at the indices in K, in their order.                  *)
Nth(K, k) == CHOOSE i \in K : Cardinality({j \in K : j <= i}) = k
Kept(s, K) == [k \in 1..Cardinality(K) |-> s[Nth(K, k)]]

(* std.mem.sort with std.sort.asc, which is stable: k-th comes the element *)
(* that has k elements up to itself, equal ones in their order.            *)
Ascending(s) == \A i, j \in DOMAIN s : i <= j => s[i] <= s[j]
NotAfter(s, i) == {j \in DOMAIN s : s[j] < s[i] \/ (s[j] = s[i] /\ j <= i)}
Sorted(s) == [k \in DOMAIN s |-> s[CHOOSE i \in DOMAIN s : Cardinality(NotAfter(s, i)) = k]]

(* Mutant: the last index is left out.                                     *)
RemoveAllButLast(items, indices) ==
  Kept(items, DOMAIN items \ ToSet(SubSeq(indices, 1, Len(indices) - 1)))

(* std.ArrayList.orderedRemoveMany on sorted indices, repeated or not.     *)
RemoveMany(items, indices) == Kept(items, DOMAIN items \ ToSet(indices))

(* Both loops are over: sort, remove, move the channel to the output.      *)
FilterChannel(oom) ==
  /\ pc = "items"
  /\ item_idx > Len(Current.items) \/ CacheItems = <<>>
  /\ LET items == RemoveMany(Current.items, Sorted(to_delete))
         o     == [channels[at] EXCEPT !.channel.items = items]
     IN IF oom THEN /\ channels' = [channels EXCEPT ![at] = o]
                    /\ Return("OutOfMemory")
                    /\ UNCHANGED <<output, at>>
               ELSE Move(o) /\ pc' = "channels" /\ UNCHANGED outcome
  /\ UNCHANGED <<inputs, loopVars>>

Finish ==
  /\ pc = "channels"
  /\ has_cache
  /\ at > Len(channels)
  /\ Return("ok")
  /\ UNCHANGED <<inputs, channels, output, at, loopVars>>

Done == pc = "done" /\ UNCHANGED vars

Next ==
  \/ TakeAll
  \/ \E oom \in AllocFails : NewChannel(oom) \/ CompareChannel(oom) \/ FilterChannel(oom)
  \/ UntitledChannel \/ UndatedChannel \/ OlderChannel
  \/ MissingGUID \/ UndatedItem \/ OtherItem \/ UpdatedItem \/ SeenItem
  \/ Finish
  \/ Done

(* One thread: it takes its next step as long as there is one.             *)
Spec == Init /\ [][Next]_vars /\ WF_vars(Next)

-----------------------------------------------------------------------------
Outcomes == {"running", "ok", "OutOfMemory", "panic", "overflow", "DateParseError",
             "MissingBuildDate", "MissingGUID", "MissingPubDate"}
OwnedChannel == [channel : Channel, list : Nat \cup {Null}]

TypeOK ==
  /\ has_cache \in BOOLEAN
  /\ fetched \in Seq(Channel) /\ cache \in Seq(Channel)
  /\ channels \in Seq(OwnedChannel) /\ output \in Seq(OwnedChannel)
  /\ at \in Nat \ {0} /\ item_idx \in Nat \ {0} /\ cache_idx \in Nat \ {0}
  /\ to_delete \in Seq(Nat \ {0}) /\ capacity \in Nat
  /\ pc \in {"channels", "items", "done"}
  /\ outcome \in Outcomes

(* Whatever the way out, the destructors of parser and output between them *)
(* give back the item list of every channel once: moving a channel to the  *)
(* output neither leaks its list nor leaves it with two owners.            *)
Owners(list) ==
  {<<"parser", i>> : i \in {i \in DOMAIN channels : channels[i].list = list}} \cup
  {<<"output", i>> : i \in {i \in DOMAIN output : output[i].list = list}}
FreedOnce == \A list \in DOMAIN fetched : Cardinality(Owners(list)) = 1

(* The indices collected so far are those of the items that were seen, in  *)
(* ascending order and in range, as orderedRemoveMany requires: sorting    *)
(* them changes nothing.                                                   *)
DeletesInOrder ==
  pc = "items" =>
    /\ Ascending(to_delete)
    /\ \A i \in DOMAIN to_delete : to_delete[i] \in 1..Len(Current.items)

-----------------------------------------------------------------------------
(* What merging is for: a fetched channel is printed unless the cache has  *)
(* a newer build of it, with the items the cache does not have, or has in  *)
(* an older version.                                                       *)
Seen(item, c) ==
  \E k \in DOMAIN c.items : /\ c.items[k].guid = item.guid
                            /\ c.items[k].pub_date >= item.pub_date
Old(c) ==
  {cache[k] : k \in {k \in DOMAIN cache : /\ cache[k].title = c.title
                                          /\ \A j \in 1..k-1 : cache[j].title # c.title}}
IsOlder(c) ==
  \E old \in Old(c) : /\ IsDate(old.last_build_date) /\ IsDate(c.last_build_date)
                      /\ old.last_build_date > c.last_build_date
NotSeen(c) == {i \in DOMAIN c.items : \A old \in Old(c) : ~Seen(c.items[i], old)}
Fresh(c) == [c EXCEPT !.items = Kept(c.items, NotSeen(c))]
NotOlder == {i \in DOMAIN fetched : ~IsOlder(fetched[i])}
Expected == [k \in DOMAIN Kept(fetched, NotOlder) |-> Fresh(Kept(fetched, NotOlder)[k])]

MergeCorrect ==
  outcome = "ok" => [i \in DOMAIN output |-> output[i].channel] = Expected

(* A merge that ends did what it should, or failed for one of three        *)
(* reasons: memory; a date or a guid that a comparison needs is missing or *)
(* cannot be read, and then it does fail; or the place reserved for the    *)
(* indices, one for each item of the channel, ran out (main.zig 174, 193). *)
(* The last takes an item that more than one cached item is a version of.  *)
Comparable(item, old) ==
  /\ Null \notin {item.guid, old.guid}
  /\ item.guid = old.guid => IsDate(item.pub_date) /\ IsDate(old.pub_date)
Mergeable(c) ==
  /\ TitlesSet(c)
  /\ \A old \in Old(c) :
       /\ IsDate(c.last_build_date) /\ IsDate(old.last_build_date)
       /\ old.last_build_date <= c.last_build_date =>
            \A i \in DOMAIN c.items, k \in DOMAIN old.items :
              Comparable(c.items[i], old.items[k])
SeenBy(item, old) ==
  Comparable(item, old) /\ item.guid = old.guid /\ old.pub_date >= item.pub_date
SeenTwice(c) ==
  \E old \in Old(c) : \E i \in DOMAIN c.items : \E j, k \in DOMAIN old.items :
    j # k /\ SeenBy(c.items[i], old.items[j]) /\ SeenBy(c.items[i], old.items[k])
FailuresExplained ==
  /\ outcome = "ok" => (has_cache => \A i \in DOMAIN fetched : Mergeable(fetched[i]))
  /\ outcome = "overflow" => has_cache /\ \E i \in DOMAIN fetched : SeenTwice(fetched[i])
  /\ outcome \notin {"running", "ok", "OutOfMemory", "overflow"} =>
       has_cache /\ \E i \in DOMAIN fetched : ~Mergeable(fetched[i])

(* Fetching the feed of the cache again prints no item of it, as long as   *)
(* no two of its channels have one title.                                  *)
SecondRunIsSilent ==
  /\ outcome = "ok" /\ has_cache /\ cache = fetched
  /\ \A i, j \in DOMAIN fetched : fetched[i].title = fetched[j].title => i = j
  => \A i \in DOMAIN output : output[i].channel.items = <<>>

(* A merge that succeeds prints what is new, and so nothing twice.         *)
PrintsNew == MergeCorrect /\ SecondRunIsSilent

-----------------------------------------------------------------------------
(* The inductive invariant behind these.  The item list of a channel is    *)
(* the parser's until the channel has been moved, so that its number tells *)
(* which channel that was; the channels from the current one on are as     *)
(* they were fetched.                                                      *)
ListsOwned ==
  has_cache \/ pc # "done" =>
    /\ Len(channels) = Len(fetched) /\ at <= Len(fetched) + 1
    /\ \A i \in DOMAIN channels :
         channels[i].list = IF i < at /\ i \in NotOlder THEN Null ELSE i
Untouched ==
  pc # "done" => \A i \in at..Len(fetched) : channels[i].channel = fetched[i]

(* The output is, in order, what is to be printed of the channels so far.  *)
PrintedSoFar ==
  has_cache =>
    /\ \A k \in DOMAIN output :
         /\ output[k].list \in 1..(at - 1) \cap NotOlder
         /\ output[k].channel = Fresh(fetched[output[k].list])
    /\ \A j, k \in DOMAIN output : j < k => output[j].list < output[k].list
    /\ \A i \in 1..(at - 1) :
         /\ Mergeable(fetched[i])
         /\ i \in NotOlder => \E k \in DOMAIN output : output[k].list = i

(* The pairs the inner loops have compared, and what came of it.           *)
Compared(i, k) == i < item_idx \/ (i = item_idx /\ k < cache_idx)
Matches(i, k) ==
  Current.items[i].guid = CacheItems[k].guid /\ CacheItems[k].pub_date >= Current.items[i].pub_date
InLoops ==
  pc = "items" =>
    /\ has_cache /\ at <= Len(channels)
    /\ TitlesSet(Current) /\ InCache(Current)
    /\ IsDate(BuildDates[1]) /\ IsDate(BuildDates[2]) /\ BuildDates[1] <= BuildDates[2]
    /\ item_idx <= Len(Current.items) + 1
    /\ cache_idx = 1 \/ cache_idx <= Len(CacheItems)
    /\ \A i \in DOMAIN Current.items, k \in DOMAIN CacheItems :
         Compared(i, k) => Comparable(Current.items[i], CacheItems[k])
    /\ ToSet(to_delete) = {i \in DOMAIN Current.items :
                             \E k \in DOMAIN CacheItems : Compared(i, k) /\ Matches(i, k)}
    /\ \A m \in DOMAIN to_delete : to_delete[m] <= item_idx
    /\ Ascending(to_delete)
    /\ Len(Current.items) <= capacity
    /\ ~SeenTwice(Current) => \A m \in DOMAIN to_delete : m <= to_delete[m]

Ended ==
  /\ pc = "done" <=> outcome # "running"
  /\ ~has_cache => cache = <<>> /\ at = 1 /\ pc # "items" /\ outcome \in {"running", "ok"}
  /\ ~has_cache /\ pc # "done" => output = <<>>
  /\ ~has_cache /\ pc = "done" =>
       channels = <<>> /\ output = [i \in DOMAIN fetched |-> Owned(fetched[i], i)]
  /\ has_cache /\ outcome = "ok" => at = Len(fetched) + 1
  /\ outcome \notin {"running", "ok", "OutOfMemory", "overflow"} =>
       at \in DOMAIN fetched /\ ~Mergeable(fetched[at])
  /\ outcome = "overflow" => has_cache /\ at \in DOMAIN fetched /\ SeenTwice(fetched[at])

IndInv ==
  TypeOK /\ ListsOwned /\ Untouched /\ PrintedSoFar /\ InLoops /\ Ended

(* What the loops rely on in every step: who owns the item lists, what the *)
(* index list holds, and what the output is so far (main.zig 173-211).     *)
LoopInv == IndInv /\ FreedOnce /\ DeletesInOrder
=============================================================================
