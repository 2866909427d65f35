-------------------------------- MODULE Xrss --------------------------------
(***************************************************************************)
(* Invocations of xrss for one URL over time (main.zig): each fetches what *)
(* the server lists, reads the cache file, truncates and rewrites it, and  *)
(* only then compares and prints.  Invocations may overlap, since nothing  *)
(* locks the file, and may fail or be killed between any two steps.        *)
(*                                                                         *)
(* Items are numbered in the order they are published; version v of the    *)
(* feed lists the last Window items up to v and has build date v.  The     *)
(* file is taken in two blocks, the least that a reader or writer may be   *)
(* between; CacheFile has the format, Merge the comparison in detail.      *)
(***************************************************************************)
EXTENDS Integers, FiniteSets, Sequences

CONSTANTS
  Runs,        \* invocations that may be under way at the same time
  MaxVersion,  \* bound on the versions the server publishes
  Window,      \* items in one version
  MaxStale,    \* bound on the requests that are answered with an old version
  Absent, Hole \* no file; a block of zeros

ASSUME XrssAssumption ==
  /\ {MaxVersion, Window} \subseteq Nat \ {0} /\ MaxStale \in Nat
  /\ Hole \notin Nat /\ Absent \notin Seq(Nat \cup {Hole})

VARIABLES
  newest,   \* the version the server lists
  stale,    \* old answers it may still give
  file,     \* the versions the blocks of the cache file are of, or Absent
  place,    \* per run: idle, read, create, write, compare
  given,    \* per run: the version it was given
  got,      \* per run: the blocks it has read, or Absent
  written,  \* per run: the blocks it has written
  printed,  \* history: how often an item was printed, up to twice
  dropped,  \* history: the items of runs that ended after truncating the file
            \* and before printing
  overlap,  \* history: two runs have used the file at the same time
  wentBack  \* history: a run was given a version older than one before it

systemVars == <<newest, stale, file, place, given, got, written, printed, dropped,
                overlap, wentBack>>
runVars == <<given, got, written>>
history == <<printed, dropped, overlap, wentBack>>

Versions == 1..MaxVersion
Feed(v) == {i \in Versions : v - Window < i /\ i <= v}

RunsInit ==
  /\ newest = 1
  /\ stale = MaxStale
  /\ file = Absent
  /\ place = [r \in Runs |-> "idle"]
  /\ given = [r \in Runs |-> 0]
  /\ got = [r \in Runs |-> Absent]
  /\ written = [r \in Runs |-> 0]
  /\ printed = [i \in Versions |-> 0]
  /\ dropped = {}
  /\ overlap = FALSE /\ wentBack = FALSE

-----------------------------------------------------------------------------
Publish ==
  /\ newest < MaxVersion
  /\ newest' = newest + 1
  /\ UNCHANGED <<stale, file, place, runVars, history>>

UsesFile(r) == place[r] # "idle"

(* The run is over and its memory is gone.                                 *)
EndRun(r) ==
  /\ place' = [place EXCEPT ![r] = "idle"]
  /\ given' = [given EXCEPT ![r] = 0]
  /\ got' = [got EXCEPT ![r] = Absent]
  /\ written' = [written EXCEPT ![r] = 0]

(* A run fetches the newest version, or an old one from somewhere that has *)
(* not heard of it yet.                                                    *)
Fetch(r) ==
  /\ place[r] = "idle"
  /\ \E v \in 1..newest :
       /\ v < newest => stale > 0
       /\ stale' = IF v < newest THEN stale - 1 ELSE stale
       /\ given' = [given EXCEPT ![r] = v]
       /\ wentBack' = (wentBack \/ v < newest)
  /\ place' = [place EXCEPT ![r] = "read"]
  /\ got' = [got EXCEPT ![r] = <<>>]
  /\ UNCHANGED written
  /\ overlap' = (overlap \/ \E s \in Runs : UsesFile(s))
  /\ UNCHANGED <<newest, file, printed, dropped>>

FileNotFound(r) ==
  /\ place[r] = "read"
  /\ file = Absent
  /\ got' = [got EXCEPT ![r] = Absent]
  /\ place' = [place EXCEPT ![r] = "create"]
  /\ UNCHANGED <<newest, stale, file, given, written, history>>

(* The next block of the file, and what it says once it is the last one.   *)
ReadBlock(r) ==
  /\ place[r] = "read"
  /\ file # Absent
  /\ Len(file) > Len(got[r])
  /\ got[r] = <<>> => file[1] # Hole
  /\ got' = [got EXCEPT ![r] = Append(@, file[Len(@) + 1])]
  /\ place' = [place EXCEPT ![r] = IF Len(got[r]) = 1 THEN "create" ELSE "read"]
  /\ UNCHANGED <<newest, stale, file, given, written, history>>

(* The file ends too early, or does not begin with the magic.              *)
Unreadable(r) ==
  /\ place[r] = "read"
  /\ file # Absent
  /\ \/ Len(file) <= Len(got[r])
     \/ got[r] = <<>> /\ file # <<>> /\ file[1] = Hole

(* Mutant: a file that cannot be read counts as none.                      *)
ReadErrorIgnored(r) ==
  /\ Unreadable(r)
  /\ got' = [got EXCEPT ![r] = Absent]
  /\ place' = [place EXCEPT ![r] = "create"]
  /\ UNCHANGED <<newest, stale, file, given, written, history>>

ReadError(r) ==
  /\ Unreadable(r)
  /\ EndRun(r)
  /\ UNCHANGED <<newest, stale, file, history>>

(* Mutant: the file that is there is not truncated.                        *)
CreateKeep(r) ==
  /\ place[r] = "create"
  /\ file' = IF file = Absent THEN <<>> ELSE file
  /\ place' = [place EXCEPT ![r] = "write"]
  /\ UNCHANGED <<newest, stale, runVars, history>>

Create(r) ==
  /\ place[r] = "create"
  /\ file' = <<>>
  /\ place' = [place EXCEPT ![r] = "write"]
  /\ UNCHANGED <<newest, stale, runVars, history>>

(* The file with block n of version v; what was truncated beneath the      *)
(* writer is a hole now.                                                   *)
WithBlock(n, v) ==
  [i \in 1..(IF Len(file) > n THEN Len(file) ELSE n) |->
     IF i = n THEN v ELSE IF i <= Len(file) THEN file[i] ELSE Hole]

(* Mutant: one block too many is written.                                  *)
WriteBlockMore(r) ==
  /\ place[r] = "write"
  /\ file' = WithBlock(written[r] + 1, given[r])
  /\ written' = [written EXCEPT ![r] = @ + 1]
  /\ place' = [place EXCEPT ![r] = IF written[r] = 2 THEN "compare" ELSE "write"]
  /\ UNCHANGED <<newest, stale, given, got, history>>

(* A block goes to the run's own position in the file, whatever other runs *)
(* have made of the file since.                                            *)
WriteBlock(r) ==
  /\ place[r] = "write"
  /\ file' = WithBlock(written[r] + 1, given[r])
  /\ written' = [written EXCEPT ![r] = @ + 1]
  /\ place' = [place EXCEPT ![r] = IF written[r] = 1 THEN "compare" ELSE "write"]
  /\ UNCHANGED <<newest, stale, given, got, history>>

(* Mutant: the cache is read after it was written.                         *)
CachedLate(r) == {[build |-> given[r], items |-> Feed(given[r])]}

(* Blocks of two versions may read as any feed of items of both; that they *)
(* may be no feed at all is part of Fail.                                  *)
Cached(r) ==
  IF got[r] = Absent THEN {[build |-> 0, items |-> {}]}
  ELSE IF got[r][1] = got[r][2] THEN {[build |-> got[r][1], items |-> Feed(got[r][1])]}
  ELSE {[build |-> got[r][1], items |-> s] : s \in SUBSET (Feed(got[r][1]) \cup Feed(got[r][2]))}

Emit(items) ==
  printed' = [i \in Versions |-> IF i \in items /\ printed[i] < 2 THEN printed[i] + 1
                                                                  ELSE printed[i]]

(* Mutant: a version the cache has already is not compared.                *)
NewsNotAgain(r, old) ==
  IF old.build < given[r] THEN Feed(given[r]) \ old.items ELSE Feed(given[r])

(* What is not in the cache is news, unless the cache is of a newer build. *)
News(r, old) ==
  IF old.build <= given[r] THEN Feed(given[r]) \ old.items ELSE {}

Compare(r) ==
  /\ place[r] = "compare"
  /\ \E old \in Cached(r) : Emit(News(r, old))
  /\ EndRun(r)
  /\ UNCHANGED <<newest, stale, file, dropped, overlap, wentBack>>

(* A run fails or is killed; a comparison may fail for want of a guid or a *)
(* date, and output may have reached the terminal in part.                 *)
Fail(r) ==
  /\ place[r] # "idle"
  /\ IF place[r] = "compare"
     THEN \E old \in Cached(r) : \E items \in SUBSET News(r, old) : Emit(items)
     ELSE UNCHANGED printed
  /\ dropped' = IF place[r] \in {"write", "compare"} THEN dropped \cup Feed(given[r]) ELSE dropped
  /\ EndRun(r)
  /\ UNCHANGED <<newest, stale, file, overlap, wentBack>>

RunsNext ==
  \/ Publish
  \/ \E r \in Runs :
       \/ Fetch(r) \/ FileNotFound(r) \/ ReadBlock(r) \/ ReadError(r)
       \/ Create(r) \/ WriteBlock(r) \/ Compare(r) \/ Fail(r)

RunsSpec == RunsInit /\ [][RunsNext]_systemVars

-----------------------------------------------------------------------------
RunsTypeOK ==
  /\ newest \in Versions /\ stale \in 0..MaxStale
  /\ file = Absent \/ file \in Seq(Versions \cup {Hole})
  /\ place \in [Runs -> {"idle", "read", "create", "write", "compare"}]
  /\ given \in [Runs -> 0..MaxVersion]
  /\ got \in [Runs -> Seq(Versions \cup {Hole}) \cup {Absent}]
  /\ written \in [Runs -> 0..2]
  /\ printed \in [Versions -> 0..2]
  /\ dropped \subseteq Versions
  /\ overlap \in BOOLEAN /\ wentBack \in BOOLEAN

Quiet == \A r \in Runs : place[r] = "idle"
Whole == file # Absent /\ Len(file) = 2 /\ file[1] = file[2]

(* An item is printed twice only if runs have overlapped or the server has *)
(* gone back; failures and kills alone repeat nothing.                     *)
PrintedOnce == ~overlap /\ ~wentBack => \A i \in Versions : printed[i] <= 1

(* Between two runs, an item of a cache that can be read has been printed, *)
(* or it is lost for good: the run that fetched it first had replaced the  *)
(* cache when it failed.  Overlapping or outdated runs may lose items too. *)
NothingMissed ==
  Quiet /\ Whole /\ ~overlap /\ ~wentBack =>
    \A i \in Feed(file[1]) : printed[i] > 0 \/ i \in dropped

(* Only runs that overlap leave a file that mixes two feeds; otherwise it  *)
(* is, from its first block to its last, of the run that truncated it.     *)
OneWriter ==
  ~overlap /\ file # Absent => \A i, j \in DOMAIN file : file[i] = file[j]

(* The file: its blocks are of versions that were fetched, and mixed only  *)
(* by runs that overlap (main.zig 134-150).                                *)
FileInv == RunsTypeOK /\ OneWriter

-----------------------------------------------------------------------------
(* The inductive invariant behind these: how far each run has come, what   *)
(* the file is to a run that has it to itself, and what its contents say   *)
(* about the items printed so far, as long as nothing is outdated.         *)
Stage(r) ==
  /\ place[r] # "idle" => given[r] \in Versions
  /\ place[r] = "read" => got[r] # Absent /\ Len(got[r]) <= 1
  /\ place[r] \in {"create", "write", "compare"} => got[r] = Absent \/ Len(got[r]) = 2
  /\ place[r] \in {"write", "compare"} => file # Absent
  /\ place[r] \in {"idle", "read", "create"} => written[r] = 0
  /\ place[r] = "write" => written[r] < 2
  /\ place[r] = "compare" => written[r] = 2
Stages == \A r \in Runs : Stage(r)

OneRun == ~overlap => \A r, s \in Runs : UsesFile(r) /\ UsesFile(s) => r = s

AlikeFile == file # Absent => Len(file) <= 2 /\ file \in Seq(Versions)
ReadSoFar(r) ==
  IF file = Absent THEN got[r] = <<>>
  ELSE Len(got[r]) <= Len(file) /\ \A i \in 1..Len(got[r]) : got[r][i] = file[i]
WrittenSoFar(r) ==
  /\ file # Absent
  /\ Len(file) = written[r]
  /\ \A i \in 1..Len(file) : file[i] = given[r]
OwnFile ==
  ~overlap =>
    /\ AlikeFile
    /\ \A r \in Runs :
         /\ place[r] = "read" => ReadSoFar(r)
         /\ place[r] = "create" => got[r] = file
         /\ place[r] \in {"write", "compare"} => WrittenSoFar(r) /\ got[r] \in Seq(Versions) \cup {Absent}

UpTo(c, v) == c # Absent => \A i \in 1..Len(c) : c[i] <= v
Accounted(c) ==
  IF c = Absent THEN \A i \in Versions : printed[i] = 0
  ELSE Len(c) = 2 =>
         /\ c[1] = c[2]
         /\ \A i \in Versions : printed[i] > 0 => i <= c[1]
         /\ \A i \in Feed(c[1]) : printed[i] > 0 \/ i \in dropped
Replacing(r) == place[r] \in {"write", "compare"}
Progress ==
  ~overlap /\ ~wentBack =>
    /\ UpTo(file, newest)
    /\ \A r \in Runs :
         place[r] # "idle" => /\ given[r] <= newest
                              /\ UpTo(file, given[r]) /\ UpTo(got[r], given[r])
    /\ \A r \in Runs : Replacing(r) => Accounted(got[r])
    /\ (\A r \in Runs : ~Replacing(r)) => Accounted(file)

RunsInv ==
  FileInv /\ Stages /\ OneRun /\ OwnFile /\ Progress /\ PrintedOnce

(* The file ends too early and nobody is going to write to it.             *)
Torn ==
  /\ file # Absent /\ Len(file) < 2
  /\ \A r \in Runs : place[r] \in {"idle", "read"}

(* A torn file stays: no run gets as far as creating it anew, so nothing   *)
(* repairs it, and nothing is printed again.                               *)
TornForGood == [][Torn => Torn' /\ file' = file /\ printed' = printed]_systemVars
=============================================================================
