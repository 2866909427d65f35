# xrss in TLA+

xrss is a command line RSS reader: one invocation fetches one URL, parses the
response, compares it with the feed cached for that URL, rewrites the cache and
prints the items that are new. It is one thread of Zig (`src/*.zig`, about a
thousand lines) around a vendored copy of expat 2.8.1 (`lib/expat`, C), which is
where most of the code is. Paths in this document are relative to the repository
root; `xmlparse.c`, `xmltok_impl.c`, `xmltok.c` and `xmlrole.c` are in
`lib/expat/lib`.

## 1. Inventory

| part | source | state it keeps | operations |
|---|---|---|---|
| SAX handlers | `src/rss/Parse.zig`, `src/rss/config.zig` | `data`, `depth`, `state`, `active_property`, `active_sink`, `active_data` | `elementStart`, `characterData`, `elementEnd` |
| parsing loop | `src/rss.zig`, `Client` | the expat parser and the `Parse` | `init`, `parse`, `deinit` |
| feed data | `src/rss/Data.zig` | channels, their properties and items | setting a property, `read`, `write`, `deinit` |
| merge | `src/main.zig` 152-213 | `output`, `to_delete`, three loop indices | comparing channels, comparing items, moving channels |
| dates | `src/datetime.zig` | none | `parseRfc1123ToNanos` |
| cache file | `src/main.zig` 119-151, `Data.read`, `Data.write` | the file's contents | open, read, truncate, write, flush |
| whole runs | `src/main.zig` | the cache file and what was printed | fetch, read, truncate, write, merge, print, fail, be killed |
| expat: input | `xmlparse.c` | buffer, event and position pointers, deferral, parsing status | `XML_GetBuffer`, `XML_Parse`, `XML_ParseBuffer`, `XML_StopParser`, `XML_ResumeParser`, `XML_ParserReset`, position calls |
| expat: tokenizer | `xmltok_impl.c`, `xmltok.c` | none between calls | the scanners, `getAtts`, `charRefNumber`, `updatePosition` |
| expat: prolog | `xmlrole.c`, `xmlparse.c` `doProlog` | `PROLOG_STATE`, the DTD, the declaration being read, open parameter entities | one role per token |
| expat: content | `xmlparse.c` `doContent`, `storeAtts`, `addBinding` | tag stack, bindings, marks, `m_nsAtts` | start and end tags, CDATA, epilog, contexts |
| expat: entities | `xmlparse.c` `processEntity` and its three callers | lists of open entities, flags of each, accounting | opening, reading, leaving and closing an entity; external parsers |
| expat: storage | `xmlparse.c`, `siphash.h` | heap tracking, string pools, hash tables | not modelled |
| expat: encodings | `xmltok.c` | none, or a map | not modelled, except that a character may have two bytes |
| arguments, help, output layout | `src/main.zig` | none | straight-line code |

How they interact. `main` gives the response body to `Client.parse`, which
copies it into expat buffer by buffer. expat calls the three handlers from
inside `XML_ParseBuffer`; a handler has no way to stop expat: on an error it
sets `Parse.state` to `.err`, later calls return at once, and `Client.parse`
looks at the state after the final, empty buffer. The handlers build
`Parse.data`. `main` then reads the cache file, truncates it and writes
`Parse.data` into it, and only after that compares the two feeds, moving the
channels to print out of `Parse.data` into `output`. Within expat
`callProcessor` hands the unread bytes to the current processor, which takes
tokens from the tokenizer, in the prolog their roles from `xmlrole.c`, and calls
the application; a reference to an entity makes the processor read the entity's
text instead, for external ones through a second parser that the application
creates from inside its handler.

What is hard here:

* the parser is driven by callbacks whose order and boundaries are expat's:
  text arrives in pieces, buffers end anywhere, input may be deferred, and the
  name a handler was given may move when a buffer ends (`Parse.zig` 128, 150,
  220; `xmlparse.c` 297, 3046-3108);
* errors are sticky and reported late; any allocation may fail between two
  assignments that belong together (`Parse.zig` 71, 285; `rss.zig` 65);
* the assertions and `.?` of `endProperty`, `activeChannel`, `activeItem` and
  `characterDataImpl` rest on what earlier start tags checked;
* the merge transfers ownership of item lists, reuses one index list for all
  channels and gives up at the first missing guid or date;
* the cache is a shared file that is rewritten in place, before the comparison,
  without a lock, in a format whose reader has limits its writer has not;
* expat keeps pointers and marks from one token to the next and from one call to
  the next (the name in a binding's buffer, the byte before an attribute's name,
  a table that is versioned rather than cleared, `m_eventPtr` into a buffer that
  moves), and the application may stop, resume or ask anything in between;
* a declaration is spread over many tokens and may be cut by parameter entities
  that are read, refused or failing; entities are closed later than they end.

Correctness, part by part: the parser's state always tells which elements are
open, so no assertion fails, text never reaches the wrong property, and a feed
that is accepted is complete; the parsing loop returns; the feed grows by
appending and by setting each property once; the merge prints exactly the new
items, frees everything once, and each of its failures has its reason; a cache that
was written can be read again and reads as the same feed; an item is printed
twice or lost only for named reasons. For expat: no cut of the input, stop or
resume makes a difference to what the application is told; what it is told is
what the document says, by definitions stated without expat's caches; the work
and the output stay bounded.

The hazards with their lines and the properties that cover them are in
`PROJECT.json`.

## 2. Modules

| module | models | state and actions |
|---|---|---|
| `RssData` | the values of `Data.zig`: items, channels | no state |
| `RssParse` | `Parse.zig` | the six fields of `Parse`; `ElementStart`, `CharacterData`, `ElementEnd`, each a disjunction of the branches of its switch on `state` |
| `XmlParser` | expat as xrss sees it: which handler is called when | `parsing`, `processor`, `tagStack`; opening and closing a tag, a text, an error, the end of a buffer, the end of the document |
| `FeedClient` | `Client.parse`, composing `RssParse` with an instance of `XmlParser` | `pc`, `final`, `unread`, `tokens`, `result`; one action per step of the loop and per token |
| `FeedBuilder` | what parsing promises about the feed (abstract) | `channels`, `verdict` |
| `FeedClient_proofs` | theorems about `FeedClient` | |
| `Merge` | `main.zig` 152-213 | one action per way through the loops over channels, items and cached items |
| `CacheFile` | `Data.read`, `Data.write`, `main.zig` 119-151 | `file`, `fetched`, `cache`, `pc`, `error` and the history `last`; one action per step of a run that touches the file, and `Fail` wherever the run may end early |
| `DateTime` | `datetimeToEpochSeconds` of `datetime.zig` | operators for its steps; the actions walk the calendar it is compared with |
| `Formats_proofs` | theorems about `CacheFile` and `DateTime` | |
| `Xrss` | invocations of xrss over time, coarser than the above | per run `place`, what it was given, read and wrote; the file in two blocks; the server's version |
| `Main_proofs` | theorems about `Merge` and `Xrss` | |
| `XmlInput` | input buffer and parse calls | `m_buffer` with its pointers as distances, the call under way; one action per API call and per way a processor goes on |
| `XmlInput_proofs` | theorems about `XmlInput` | |
| `XmlTok` | the scanners of `xmltok_impl.c` as automata over character classes, `getAtts`, `charRefNumber`, `updatePosition` | no state |
| `XmlStream` | the loops around the scanners, for a text that arrives in pieces | `text`, `final`, the tokens found, the place counted; a piece, the end, a token, a position call |
| `XmlRole` | `xmlrole.c` | tables of handler, token, next handler and role; `level`, `includeLevel` |
| `XmlContentModel` | the scaffold of content models and `build_model` | operators on it |
| `XmlProlog` | `doProlog` and its processors, on `XmlRole` and `XmlContentModel` | `m_prologState`, the DTD's flags, entities, attribute lists, the declaration being read; one action per group of roles |
| `XmlProlog_proofs` | theorems about `XmlProlog` | |
| `XmlContent` | `doContent`, `storeAtts`, `addBinding`, CDATA, epilog, `storeRawNames`, contexts | the tag stack, bindings and their free lists, marks, `m_nsAtts`; a start tag is handled in steps between which handlers run |
| `XmlEvents` | the order of handler calls that `expat.h` promises (abstract) | open elements and the prefixes to be reported |
| `XmlContent_proofs`, `XmlScopes_proofs` | theorems about `XmlContent` | |
| `XmlEntity` | references in content, attribute values and entity values, external parsers, accounting | a stack of parsers, each with its list of open entities, the flags `open` and `hasMore` |
| `XmlEntity_proofs` | theorems about `XmlEntity` | |
| `MC...` | instances for TLC | |

`FeedClient` implements `FeedBuilder` (property `Builds`), `XmlContent`
implements `XmlEvents` (property `CallsOrdered`); both refinement mappings stand
beside the instance. expat is modelled twice: `XmlParser` is the interface the
feed parser is proved against, for any body; the six `Xml...` components below it
show in the code's detail why calls come in that order. They are separate
machines: each takes the others' results as a choice (a processor in `XmlInput`
takes whole tokens, wherever they end; a reference in `XmlContent` is reported
and nothing more).

Abstractions. A property is identified with its tag name. A text is a sequence
of characters of which only "blank or not" matters. Attributes are reduced to
the four outcomes the handlers tell apart. A body is a nondeterministic sequence
of tags and texts, well formed or not, that may end anywhere: it need not be
guessed in advance, since neither expat nor xrss looks ahead. An allocation
fails when the argument `oom` says so, in every call that allocates. Logging and
the layout of the output are left out. In `Merge` a channel is its title, build
date and items, an item its guid and date; a date is a number, missing (`Null`)
or unreadable (`Bad`).

In `CacheFile` a file is a sequence of words: the magic, a 64-bit number or one
character of a value. `read` takes words whole, so a file that ends inside a
word reads like one that ends before it. What reaches the file is a beginning
of what `write` produces, since the writer drains its buffer in order. A run may
fail or be killed at every point (the process, not the machine: what the kernel
accepted stays in the file), and any number of runs follow each other; they do
not overlap. `Encode` and `Decode` are `write` and `read` word by word, with the
three limits of the reader as constants. A file that cannot be read is never
replaced: reading precedes truncating, so the same run fails again each time
(`TornIsNoticed` says so of a torn file). `Xrss` lets runs overlap: truncating
leaves a hole for the run that is still reading or writing, and a hole reads as
an error.

`DateTime` holds the arithmetic only: which characters of a date are digits is
left out. TLC's integers have 32 bits, so
days and seconds of the day are kept apart and compared with the last day and
second whose nanoseconds fit an `i64` (`Overflows`).

In `XmlParser` an open tag carries two booleans for the memory its name is in:
`stored`, whether `storeRawNames` has copied the raw name, and `moved`, whether
that reallocated the tag's buffer. `FeedClient!SinkComparison` is then the
comparison of `elementEndImpl` with the name `active_sink` points at: any
outcome once the name was moved. `XmlContent` has the same memory in detail: a
buffer that is replaced gets a new generation, a pointer the generation it was
taken from.

In `XmlTok` a text is a sequence of character classes, and a character of two
bytes is two units. A scanner is an automaton whose tables hold the cases of the
C switch statements; the tables of different scanners are joined as the C
functions call each other. `XmlProlog` reads `XmlRole`'s tables; a token has a
kind and, where a handler looks at it, a word. A parser of an external parameter
entity is seen from both sides: for its parent it is the answer of the handler,
which may leave entities, attribute lists and elements declared (by declarations
the parent then finds in the DTD they share), and it is the instance that starts
in `Inherited`, a DTD that others have filled. An external subset may be named by
the document or supplied by the application (`m_useForeignDTD`); for either its
entity "#" is made known, but only one the document names gets a system
identifier (`Created`, `ExternalSubset`), so that "#" alone may be known and
undefined (`Supplied`). In `XmlEntity` a text is a
sequence of tokens with a width each, so that the accounting counts as the code
does.

Some operators are deliberately wrong variants of the operator that follows
them; their comment begins with "Mutant:". They are used by nothing in a
specification: `PROJECT.json` lists which property notices each of them when it
takes the place of the right one.

## 3. Runs

Several invariants that speak of one thing are checked as one named conjunction
(`LoopInv`, `IndInv`, `DtdInv`, `MemoryInv`, ...): the properties of interest,
and the facts that make the conjunction inductive, so that TLC checks what the
proofs rest on. Each conjunct has its own comment; each that is a property by
itself has its own wrong variant.

| run | configuration | question | bounds |
|---|---|---|---|
| parser | `FeedClient_parser.cfg` | assertions, nesting, left-over text, complete feeds, no text lost, termination; `FeedClient` implements `FeedBuilder` | 5 tags and texts, depth 5, up to 3 buffers, any but the last deferred, failing allocations, names that move |
| merge | `Merge_feeds.cfg` | ownership, index order, what is printed, why the merge fails, silence of a second run | feeds of one channel with any list of up to 2 items, of up to 2 channels with a few lists, and of one item 4 or 5 times |
| cache_runs | `CacheFile_runs.cfg` | what is read is what was last written; errors have a cause; a torn file is noticed | limits of 2 channels, 2 items and 2 characters, feeds below, at and above them |
| calendar | `DateTime_calendar.cfg` | day numbers, ranges of the intermediate results, years whose nanoseconds fit | every day of the years 0 to 9999 |
| xrss | `Xrss.cfg` | what it takes to print an item twice, to lose one, to mix two feeds in the file | 2 runs at a time, any number in all, 3 versions of 2 items, 1 outdated answer |
| input | `XmlInput.cfg` | no byte lost, doubled or counted twice; results true and errors kept; linear work; every call returns | 4 bytes in requests of 0, 1 or 3, a buffer of 1 that has to grow, 1 byte of context, 1 reset |
| tokens | `XmlStream.cfg` | cuts make no difference; `getAtts` agrees with the scanner; character references | 2 to 8 characters after each of 26 beginnings, every cut |
| prolog | `XmlProlog.cfg` | the application is told what was declared; the first declaration binds; unread references stop declarations; groups and entities fit | 2 declarations of up to 8 tokens, 2 open parameter entities, initial arrays of 2; a document, or a child parser that finds one of 6 DTDs |
| content | `XmlContent.cfg` | prefixes, attributes, duplicates, memory of names; `XmlContent` implements `XmlEvents` | depth 2, 14 start tags, with and without namespaces and triplets, documents and external entities |
| entities | `XmlEntity.cfg` | expansion, recursion, nesting, amplification, termination | documents over 2 entities whose texts have up to 2 tokens, and some of 4 or 5 |

Why the bounds are enough. In the run "parser" five tags are the least that
complete a channel with an (empty) item, two buffers before the final one let
one be deferred, and depth 5 allows one element more than the
parser ever accepts (rss, channel, item, property), so that everything too deep
is met; one property is shared by channels and items and one is of items only,
the two cases `Property.fromTagName` tells apart, and "x" is an element the
parser does not know, with a name that expat may move. In the merge the loops
carry nothing over but `to_delete`, from one channel to the next, and `output`:
two channels of two items show both. `InitCapacity` is 16, the growth of an
`ArrayList(u64)` on a machine with cache lines of 128 bytes. For 5 items room is
made for 5 indices, and the list gets 5 + 2 + 16 places (half as much again and
16); an item 5 times in both feeds makes 25 pairs, so the place runs out, and 4
times 5 pairs still fit. In the cache file 2
stands for the 8 channels, 1024 items and 1024 bytes the reader accepts: feeds
of 3 meet each refusal, and nothing depends on the limits otherwise. The
calendar needs no bound: four digits have no other years, and a walk of 400
years starts in each year divisible by 400. In `Xrss` two blocks are the least
that a reader or writer may be between, and a window of 2 in 3 versions makes an
item leave the feed.

`XmlInput` scales the sizes down: a buffer of 1 byte doubles twice within 4
bytes, and `ContextBytes` of 1 is where keeping context and moving differ.
`MaxResets` bounds the calls of `XML_ParserReset`, and `Locate` is cut when it
would count more than `MaxInput`: after an error, bytes are counted again without end. In
`XmlStream` each beginning puts a scanner where its decisions are made, and the
characters that follow are those it tells apart there; a decision hangs on at
most four of them, those about digits on up to eight. The beginnings of
character references lead to the numbers on both sides of D7FF and D800, DFFF
and E000, FFFD and FFFE, 10FFFF and 110000. In `XmlProlog` the longest
declarations that fit are an external unparsed entity and an attribute with an
enumeration; `GroupSize` and `ScaffoldSize` are 2 so that both arrays grow and
disagree with each other on the way. `MCInherited` are the DTDs a child parser
may find: entities known or not, `scaffIndex` not allocated, of the first size or
grown once, processing stopped by a reference that was not read, a standalone
document. `Stray` names the kinds of tokens that come
also where no rule mentions them: any other token out of place ends in the same
error, so one of each way an error is reported is enough. In `XmlContent`
`InitAttsVersion` 2 lets the version wrap after two tags and `MinPower` 1 lets
the table grow, `InitTagBuf` 8 and `Spare` 4 let "long" names replace buffers
that short ones fit. Depth 2 with an inner element that has a longer name is
the least in which a buffer is replaced while a name in it is still needed. In
`XmlEntity` two entities can refer to each other and themselves in every way;
`Threshold` 20 is below what the longer expansions produce.

TLC explores `FeedClient` and `Merge` with `Done` as a stuttering step after the
end, so a deadlock would be a step the code cannot take: none exists. In
`CacheFile` and `Xrss` a next run can always begin. The walks of `DateTime` end
after 400 years; in the `Xml...` runs a document is over, has failed or reached
a bound: their configurations do not check for deadlock, and that nothing
stands still before is what `CallsReturn` says where a loop could.

Fairness. `FeedClient` and `Merge` are single loops of one thread that waits for
nobody: `WF_vars(Next)` says only that a step that can be taken is taken.
`XmlInput` and `XmlEntity` assume it of expat's own steps and of handlers that
return, never of the application: nobody has to call, to resume or to pass more.

### Statements the code does not live up to

Each has a run of its own whose counterexample is expected.

* `unknown` (`UnknownElementsSkipped`). The log says "Skipping unknown element"
  (`Parse.zig` 129), yet a start tag inside an unknown element is an error
  (`Parse.zig` 114, 132): a channel with `<image><url>..</url></image>` is
  refused as a whole.
* `value` (`OpenedAreClosed`). An entity that has been read stays open until its
  inner entities are closed (`xmlparse.c` 328-330). In the parser of an external
  parameter entity within an entity value, `storeEntityValue` (6793) opens an
  internal one and returns, and neither `entityValueInitProcessor` (4969) nor
  `entityValueProcessor` (5097) goes on with it: its text and the rest of the
  external one are missing from the value, and it stays open. The run "entities"
  leaves such documents out.

### Observations

Behaviour met while reading and modelling that no run is about:

* Text is trimmed piece by piece (`Parse.zig` 150): "a " followed by "b" becomes
  "ab". Where pieces end depends on entities, line ends and buffers.
* `active_sink` keeps a pointer into expat's tag buffer (`Parse.zig` 128, 220),
  which expat reallocates when an element with a long name is open at the end of
  a buffer. `FeedClient` lets the comparison then have any outcome.
* Room is reserved for one index per fetched item (`main.zig` 174), one per
  matching pair is added (193): with one fetched item and a cache that repeats
  its guid 18 times the assertion of `appendAssumeCapacity` fails (outcome
  "overflow" of `Merge`; `FailuresExplained` says that it takes such a cache).
* `write` stores an empty value as length 0, which `read` takes for a missing
  one (`Data.zig` 44, 69-72): after `<title></title>` the next run unwraps a
  cached title that is null (`main.zig` 160).
* `write` has none of the limits of `read` (`Data.zig` 35, 44, 48): a feed of 9
  channels, of 1025 items or with a value longer than the buffer is written, and
  no later run of that URL gets past reading it.
* A parse call that is deferred returns success and forgets `m_errorCode`
  although the document has failed before (`xmlparse.c` 1148-1160), while
  `expat.h` 777-778 speaks of the error of the last call. `ErrorsStay` says that
  no other call forgets it, and that the application is told of nothing more.
* After an error the position calls count bytes again; `PositionExact` speaks of
  documents without one.
* A call is not deferred when the buffer last asked for would not fit any more
  (`xmlparse.c` 1145-1151). Of pieces of one size that costs one early look for
  each size of the buffer. Of pieces that differ, or that are smaller than the
  buffer asked for, every call can be such a look, and bytes are looked at more
  often than `tests/basic_tests.c` 5977 asserts for its own sizes:
  `WorkIsLinear` bounds only the looks in time there.
* `XML_ERROR_ENTITY_DECLARED_IN_PE` can be returned where a comment near
  `xmlparse.c` 5942-5961 calls the case unreachable; an ignored section that
  ends in "]]]>" is not seen to end there (`ignoreSectionTok`).
* When the attribute of type ID is itself a namespace declaration, its mark is set
  but it is not among the attributes reported, and `m_idAttIndex` stays that of an
  earlier tag (`xmlparse.c` 3931-3938). The start tags of the run "content" have
  no such attribute.
* Bytes of an attribute value count twice as the document's own in the
  accounting, with the tag and alone; `AmplificationBounded` says so.

## 4. Proofs

`FeedClient_proofs` proves, for every choice of the constants that satisfies the
named assumptions (`NullAssumption`, `NamesAssumption`, `ClientAssumption`):
any set of properties, names and characters, any bound on tokens, depth and
buffers.

* `Invariance`: `Spec => []IndInv`. `IndInv` is the conjunction of `TypeOK`,
  `AssertsHold`, `Nesting`, `NoLeftoverText`, `CleanFinish` and `LoopControl`.
  None of the first five is inductive alone. That `endProperty` finds an unset
  property of the right container (`AssertsHold`) needs the container not to
  change while the property is open, which is `Nesting`: the end tag expat
  accepts is the one on top of its stack, which is the parser's leaf. `TypeOK`
  needs it too: `depth` stays in its eight bits because it counts the levels
  of a state. `CleanFinish` needs that expat's epilog is the parser's `.end`, a
  conjunct of `Nesting`, and that the final buffer is read last
  (`LoopControl`).
* `TypeCorrect`, `NoAssertFails`, `NestingHolds`, `NoLeftoverTextHolds`,
  `CleanFinishHolds`: its parts, as theorems of the specification.
* `EndTagsAcceptedHolds`: the action property, by cases on the action under
  `IndInv`.
* `Refinement`: `Spec => Builds`. The initial state maps to the initial state of
  `FeedBuilder`; each handler is one step of it or a stutter (`HandlerBuilds`),
  where `AssertsHold` gives that the property set was `Null`.

For each conjunct of `IndInv` there are lemmas for the three handlers and for
expat's actions, then one step lemma (`TypeStep`, `AssertsStep`, `NestingStep`,
`LeftoverStep`, `ControlStep`) with a case for each action of `Next`.

`Formats_proofs` proves of `CacheFile`, under `NullAssumption` and
`CacheAssumption`, for any sets of properties and characters, any feeds and any
limits of the reader:

* `ReadsLastFeedHolds`: `CacheSpec => []ReadsLastFeed`. The invariant (`CacheInv`)
  adds that the file, when there is one, is a beginning of what `Encode` makes of
  the feed of the run that truncated it last, that a run which writes has that
  feed, and that a run which is under way has met no error. What a run then finds
  (`Found`) is what `FeedRead` says of `Decode` after `Encode`: if the words read
  and the words lost make up the encoding of a feed, either reading ends with
  "EndOfStream" and something was lost, or it is refused and the feed is beyond
  the limits, or it gives the feed, nothing was lost and nothing is left over.
  This is shown for a number, a value, a property, the properties of an item, an
  item, the items, a channel and the channels (`IntRead`, `TextRead`, `PropRead`,
  `PropsRead`, `ItemRead`, `ItemsRead`, `ChannelRead`, `ChannelsRead`); `Outcome` is
  the form they share. `ReadsAll` is the induction over a loop of the reader, for
  any of its three loops: `right` is what holds after each turn, `Tails` what is
  still ahead.
* `TornIsNoticedHolds`: the action property, from `Found`.

The induction theorems of the library take an operator as their parameter, which
the provers cannot instantiate. Here (and in `XmlContent_proofs`) a set takes its
place: `Least` gets from the well-foundedness of `<` that a nonempty set of
numbers has a least member, and `Induct` from it that a set that contains 0, and
n + 1 with n, contains all numbers. A loop or a concatenation is such a set of
numbers, those for which it does what it should; `LoopExists` shows in the same way
that the recursive functions of `CacheFile` exist.

Of `DateTime` it proves, for every set of starting years and length of walk
that `DateTimeAssumption` allows:

* `DaysCorrectHolds`: `Spec => []DaysCorrect`. `DaysCorrect` is inductive with
  `TypeOK` and the fact that the day exists in its month (`DayExists`). The
  algorithm counts years from March; `MonthBegins` tabulates where its months
  begin, `EraDaysAreYearDays` removes the eras from the sum, and `MarchYear` and
  `LeapDay` relate two years that follow each other. With them `DayAfter`,
  `MonthAfter` and `YearAfter` say that each of the three steps of the calendar
  adds one to the day number.
* `TypeCorrect`, `RangesHoldAlways`, `NanosFitHolds`, `NumbersFitHold`: the other
  invariants.
  `NanosFitHolds` uses `DaysOfYears`, the bounds of the day number of a year.

`FeedClient_proofs` ends with `NoTextLostHolds`. That collected and reported text
agree but for blanks is said without a filter: some one-to-one, order-preserving
map takes the characters of one that are not blank to those of the other
(`SameSolids`). `SameSolids` is kept when a piece is appended to both
(`SolidsGrow`), and a piece is trimmed of blanks only (`TrimMoves`).

`Main_proofs` proves of `Merge`, under `MergeAssumption`, for feeds and caches of any size
and any allocation that fails:

* `Invariance`: `Spec => []IndInv`. `ListsOwned` says which channel owns which
  item list: channel i its own, until it has been moved to the output.
  `Untouched` says that channels the loop has not reached are as fetched,
  `PrintedSoFar` that the output is what the comparison asks for of those it has
  passed, `InLoops` what `to_delete` holds between two comparisons, in ascending
  order: the items for which one of the pairs compared so far has equal guids
  and a cached date that is not older, and `Ended` what each outcome means.
* `LoopInvHolds` (with `FreedOnce`, `DeletesInOrder`) and `PrintsNewHolds` follow
  from it.
* `FailuresExplainedHolds`: a merge that has ended did what it should, or it failed
  for want of memory, or for a title, a date or a guid that it needs and cannot
  have, or because the place for the indices ran out. The last takes an item that
  more than one item of the cached channel is a version of (`SeenTwice`): without
  one, `InLoops` says that the m-th index is at least m, so that there are no more
  indices than fetched items, for which there is room.

and of `Xrss` (whose specification is `RunsSpec`), under `XrssAssumption`, for any
number of runs at a time, of versions and of items in a feed:

* `RunsInvariance`: `RunsSpec => []RunsInv`. `OneRun` says that without an overlap at most
  one run is under way, `OwnFile` that a run that writes finds in the file what
  it wrote, `Stages` what a run holds at each of its steps, `Progress` that the cache accounts for
  what was printed: its items have been printed or are lost, and no printed item
  is newer than it; while a run replaces it, the same of what that run has read.
  `PrintedOnce` alone is not inductive: an item could be printed that was printed
  before and is in no file.
* `PrintedOnceHolds`, `NothingMissedHolds`, and the action property
  `TornForGoodHolds`.

`XmlInput_proofs` proves under `InputAssumption`, for any size of the buffer, the
context, the pieces and the requests:

* `Invariance`: `Spec => []IndInv`. `Filling` relates the buffer to what was
  received: from the promised context on it holds the bytes up to the last one
  received, each at the place counted back from the end. `Calling` says which part of it each state of a call is about,
  `Placing` that event and position pointers stand at the bytes `history` says,
  `Failing` when a document that has an error reports it, and that only a call
  that is deferred makes it stop to. Moving the data to the
  front, copying it to a larger buffer and a buffer given back by the
  application (`XML_ParseBuffer`) change distances and contents together.
* `BufferInvHolds`, `PositionsTrueHolds`, `ResultsTrueHolds` and the action
  property `TokensFollowHolds`. All of it holds of the parser of a parameter
  entity too (`IsParamEntity`), which cannot be suspended; the run has a parser of
  a document.
* `WorkIsLinearHolds`: what deferral (`callProcessor`) is for. A bound on the
  bytes looked at in vain is not inductive, since one look may cost as much as
  all before it. `Wasting` says how the cost, the bytes told of, those looked at
  and `m_partialTokenBytesBefore` go together: a look in time at the same token
  is paid for by what has come since the last one, as much as all before it, and
  the first look at what is left after a token by that token. So three bytes
  are looked at in vain for each that was passed, at most. `Hasting` says that
  after an early look the next piece of the same size cannot fit: the buffer
  grows first, and an early look with a buffer of one size is the only one. Both
  are checked by the run too, as parts of `WorkIsLinear`.

`XmlProlog_proofs` proves under `PrologAssumption`, for any set of tokens, any
DTDs that a child parser may find, any depth of groups, any number of open
entities, and any initial size of the arrays (more than one place for the
connectors):

* `DtdInvHolds`: `Spec => []DtdInv`. The hard part is that the roles of
  `doProlog` trust the order in which `xmlrole.c` gives them. So the proof first
  goes through the tables (`RuleShape`, then `RuleMoves` and `TokenMoves`): what
  a token with a role needs of the handler before it, and what handler it leaves
  (`EntityMoves`, `DoctypeMoves`, `ElementMoves`, `LevelMoves`). With these,
  `DeclarationInv` says what is known of the entity being declared while a
  handler is still inside its declaration, `DefinedInv` that all others have
  been defined, but for the entity "#" of a subset the application supplies,
  `GroupInv` that the level of groups, the scaffold's and the two
  arrays' agree. `GroupsAfterToken` shows the latter for opening groups, where
  one or both arrays grow, for connectors, for each kind of content and for
  closing; `StillAfter`, `BeginsAfter`, `DefinesAfter`, `ReadsOutAfter` and
  `OpensAfter` do so for entities by what a role may do to them, whichever of
  its cases in `doProlog` did it.
* `FirstDeclarationBindsHolds` and `UnreadStopsDeclarationsHolds`: the action
  properties, by the same kinds of roles.

`XmlEntity_proofs` proves under `EntityAssumption`, for any entities, documents,
widths of tokens and limits:

* `EntityInvHolds`: `NothingLost` implies `Spec => []EntityInv`. `NothingLost` is
  about entity values only: no external entity such a value may refer to refers
  to an entity that has a value. Otherwise the parser of the external entity
  leaves that entity on its list and open: the invariant is false then, and so is
  `OpenedAreClosed` (run `value`). The flags alone (`OpenExact`) are not
  inductive. `ReadsHead` says that the entity read is the head of the list, so
  that only its end closes anything; `LevelsNest` that a text ends at the level
  of tags it began at, and ends no element begun outside; `WaitsForAbove` that
  each parser reads the external entity the one above it waits at, which is what
  its flags have more than that one's; `ErrorsEnd` that nothing is read after an
  error. `Extend` shows that what holds of a parser depends on the one above
  only, so that a step is about the last one (`KeepStep`, `ListStep`), about one
  more (`ReadExternalStep`) or one less (`ExternalEndsStep`). `Longer` and
  `Shorter` are the lists when an entity is put before them or the head is taken
  off: that no entity is listed twice needs no fold over them.
* `AmplificationBoundedHolds`: with `OwnTextAccounted` too, `Spec =>
  []AmplificationBounded`. `OwnTextAccounted` is what `XML_ACCOUNT_NONE` stands for:
  a text read without being counted has been counted before, as part of a tag or
  of a declaration (run `entities` goes beyond it, with documents that had counted
  nothing). The limit is compared with the counters and the property with what is
  out, so `AmpInv` relates the two at every token. `Balance` says that the direct
  bytes are the ones of the document's own text up to where the root parser is
  (`Passed`, wherever it has stopped), that the output and what can still be added
  to it uncounted (`Rest`) is within the counters, and within the limit. An
  entity's text is read only after a token of the document's own, so the shortest
  include stands for no bytes only where there are none. A step either takes no
  token (`QuietKeeps`), or one (`TakenKeeps`). The bytes of a text are a recursive
  function; `Least` and `Induct` give the induction over numbers its sums need.
* `RefusalsExactHolds`: with `NothingUnknown` too, `Spec => []RefusalsExact`.
  `NothingUnknown`: no external entity a value may refer to refers to one that is
  not declared. There `storeEntityValue` returns and what follows is never read, so
  a recursion in it is never reported. `RefInv` has a frame for each text that is
  open, in each parser. Everything gone through (`TakenAt`) of it is good, but for
  the entity read in its place (`Through`); its tags are balanced so far
  (`Balanced`); and what it names is led to by everything open around it (`LedTo`).
  Hence an entity found open again leads to itself, and an entity whose text has
  been read out is good: nothing it leads to leads to itself or fails to nest
  (`GoodFrom`). `Reached` is defined by layers; `ReachedLeast` and `ReachedClosed`
  say that it is the least closed set, which is so as there are as many layers as
  entities: a layer that adds nothing is the last, by the cardinalities. In an
  entity value the parsers share their marks (`Shared`), so those of the parser
  that goes on are the ones it left.

`XmlContent_proofs` proves under `ContentAssumption`, for any start tags, defaults
and names, any depth, and any widths, sizes of buffers and limits:

* `Inductive`: `Spec => []ContentInv`. `Control` says what each state of `work`
  goes with. `Bindings` has three parts: `Parted`, every binding is on one of the
  lists `Held` (one per open tag, one for the tag being handled, one inherited) or
  free; `Chained`, what a binding hides is below it and has the same prefix, and a
  prefix is bound by one that is held. Without the second the first would not
  be kept when the bindings of a tag are withdrawn. `NamesKept` is about pointers:
  a name that is still needed is in a buffer of its present generation, and where
  it is a uri's, the binding is held by the tag or below it, so that it outlives
  the name. `RawKept` says that raw names are stored from the outermost tag on, and
  all of them before a call returns. `MarksKept` says which attribute or binding a
  mark belongs to while `storeAtts` is at work.
* `MemoryInvHolds`: `BindingsOnce` and `NamesAlive` follow from the invariant.
* `CallsOrderedHolds`: every step is a step of `XmlEvents` or a stutter.
* `MarksOffHolds`.

`XmlScopes_proofs` goes on from `ContentInv`, under `NamesAssumption` too: a
prefixed name has a name after its colon (the tokenizer wants one), and a context
names a prefix once (`getContext` takes each from a hash table).

* `ScopesInductive`: `Spec => [](ContentInv /\ ScopeInv)`. `Chained` above says
  that what a binding hides is held below it, not that it is the right one.
  `Scopes` says this for every level of open tags: a list binds a prefix once, the
  binding hides what the prefix meant by the levels below (or a binding with no
  uri), and the binding field is what it means by all of them. `PushScoped`,
  `PopScoped`, `RaiseScoped`, `DropScoped` and `MoveScoped` are the five things a
  step does to the lists. `Declarations` says that the bindings of a tag are the
  declarations among its attributes and defaults, and of a tag being handled
  those looked at so far: the marks tell which these are, so a list that `Scopes`
  wants to bind a prefix once is never given a second binding (`FreshPrefix`).
* `ScopesKeptHolds`: `MeansInScope` finds the innermost tag that declares a prefix
  and the binding on its list; `PassedInScope` compares this with the context:
  `getContext` lists what each prefix means, in some order (`ContextListed`), and
  `setContext`, one binding after the other, gets these meanings back
  (`ContextMeans`).

The assumptions on constants say that the model value for nothing (`Null`) is
not also a name, word, date or number, that bounds are numbers, and that the
arrays of a prolog start with more than one place, as they do (32 each). For
`XmlEntity` they say that the names of entities are finitely many and no other
tokens, and of a document that the entity being declared is one of a value.

Only model-checked:

* `Terminates` and both `CallsReturn`: liveness under fairness is beyond the
  prover.
* `XmlStream`, `CallsSpellDeclarations` and `ConnectorsAgree` of `XmlProlog`,
  `Expanded` of `XmlEntity`: they compare with definitions by recursion over texts
  and declarations, each of which would need an induction of its own.
* `AttributesReported` and, but for `MarksOff`, `DuplicatesExact` of `XmlContent`:
  they compare the attributes told and the table of names with sequences filtered
  from what the tags say.

## 5. Plan

Done: every model of section 2, and the proofs of section 4. Next: storage below
expat's parser, that is the hash table with its probing and growth, the string
pools and the tracking of allocations; and the properties that are only
model-checked so far.

## 6. Not modelled

* expat's encodings: tables and stateless conversions; the detection of an
  encoding; unknown encodings.
* expat's storage: memory tracking, hash tables with their salt, string pools,
  copying a DTD for a parser of an external entity. The models have sets,
  functions and sequences there. So have failing allocations inside expat: each
  ends parsing with an error at once.
* Documents of which more than one parser has groups nested deeper than
  `m_groupConnector` has room for at first (32). A parent and a child that both
  read element declarations of one DTD share the scaffold and `scaffIndex` while
  each has its own `m_groupSize` (`xmlparse.c` 5835-5871). `XmlProlog` has a child
  find a `scaffIndex` of any size, and a parent whose own groups are not deep find
  one that a child has allocated (`ElementRead`); what `DtdInv` says of the arrays
  is said of these.
* A child parser that stops in the middle of its entity while its parent goes on:
  in `XmlProlog` it reads to the end or the handler fails.
* expat's tools, fuzzers, tests and build files: not part of xrss.
* HTTP: its result is a body, which is any body, or an error before anything
  is changed.
* `Data.Channel.required_all`, `Item.required_one_of`: nothing in the code uses
  them.
* The characters of a date (`parseRfc1123ToNanos` up to the call of
  `datetimeToEpochSeconds`): a scanner without state. It compares no two digits
  with anything, so that 99 Jan and 25:61:61 are dates (`datetime.zig` 17, 40).
* Arguments, help, the layout of the output: straight-line code without state.
  One buffer of 1024 bytes serves stdout, the cache reader and the cache writer
  (`main.zig` 76); each is done with and flushed before the next is made.
* `Client.init` failing half-way (`rss.zig` 20-33): a leak on the way out.
