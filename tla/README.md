# A formal model of ini-parser

TLA+ modules, TLC configurations and TLAPS proofs for the C library under
`src/` and `include/` and its C++ wrapper. Paths and line numbers
below are those of the repository. `PROJECT.json` ties every definition to the
lines it models.

## 1. The system

| component | state | operations | used by |
|---|---|---|---|
| Mutex, `ini_mutex.c` | a pthread mutex `base` (type NORMAL), flags `initialized`, `locked` | init, destroy, lock, unlock | hash table, context |
| Hash table, `ini_hash_table.c` | `entries`, `capacity`, `length`, a mutex | create, destroy, get, set (expand, set_entry), length | context, C++ wrapper |
| Iterator, `ini_hash_table.c` | table, `_index` | iterator, next | load, free, save, wrapper cache |
| Context, `ini_parser.c` | `sections`: table of name -> printed address of the section's table; a mutex | create, load, get_value, free, save, save_section_value, print | applications, wrapper |
| Validation, `ini_parser.c` | none | ini_good | load, wrapper |
| File system, `ini_filesystem.c` | none | exists, is directory, permission, size, open, BOM check | validation, load, save |
| C++ wrapper, `IniParser.cpp/.hpp` | `m_context`, cache `m_data`, `m_dataCached` | load, save, get, set, clear, copy, move, iterate | applications |
| Strings, status codes, constants | none | strdup, messages | all |

How they interact: every table and every context has a mutex of its own. A
load holds the context's mutex while it calls the tables, and each table call
takes that table's mutex for itself. The context keeps no pointers to its
section tables but strings printed from them with `%p`, which
`ini_get_section_ht` reads back. The wrapper calls the C functions, and reaches
past them into `sections` without the context's mutex.

What is hard in this code, and what must hold:

* Hash table: linear probing ends only if a slot is free; expansion copies
  strings one by one and may fail at each. *A table is a map; a failed set
  changes nothing; no string leaks; every call returns.*
* Iterator: it is used between other calls. *Every key once, none missed*, as
  long as the slots do not move.
* Mutex: an unsynchronised flag decides whether `base` is touched. *One thread
  inside; a waiting thread gets in.* The code provides neither.
* Context: each of a dozen early returns must release the lock and account for
  every table; `ini_load` reads a file that may have changed since it was
  validated, in two critical sections. *What is in the context is what the
  file said; pointers lead to live tables; nothing leaks; load returns.*
* Saving: truncation before locking, flush after unlocking, a look at the file
  long before it is opened, quoting. *The file is one whole text; a crash leaves
  a prefix; what is saved reads back the same; the lock comes free.*
* Files: `ini_good` and `ini_save` ask about a path several times before and after
  they open it. *A verdict was true at some moment of the call; a stream is left
  open only if the path changed under it.*
* Text: `ini_good` and `ini_load` each classify lines for themselves. *What the
  first accepts, the second understands.*
* Wrapper: a cache beside the context, exceptions. *The cache shows the
  context; an operation that throws changes nothing.*

## 2. The modules

| module | models |
|---|---|
| `StringMap` | abstract: a table as its users see it, a map changed one call at a time; it replies to a set with the new value, where `ini_hash_table.h:78` promises the previous one (finding 7) |
| `HashTable` | one `ini_ht_t`, slot by slot and allocation by allocation; implements `StringMap` |
| `HashTableIter` | `HashTable` with an `ini_ht_iterator_t` used between its calls |
| `IniMutex` | one `ini_mutex_t` and the threads that use it |
| `IniStore` | abstract: a map of maps, emptied as a whole, filled pair by pair, read |
| `IniContext` | one `ini_context_t`: create, load, get_value, free; other programs write the file; implements `IniStore` |
| `IniText` | what `ini_good` accepts, `ini_load` reads and `ini_save` writes, as operators on texts |
| `IniFile` | a path that others change, as `ini_good` and `ini_save` ask about it, call by call of the system |
| `IniSave` | threads that save one context to one file, or print it, among loads, full disks and crashes |
| `IniWrapper` | objects of the C++ class, their contexts and caches, one thread |
| `IniReaders` | threads that read one such object, and fill its cache |
| `MCHashTable`, `MCIniContext`, `MCIniFile`, `MCIniSave`, `MCIniWrapper` | instances for TLC |
| `HashTable_proofs`, `HashTableIter_proofs`, `IniMutex_proofs`, `IniFile_proofs`, `IniContext_proofs`, `IniWrapper_proofs`, `IniText_proofs`, `IniSave_proofs` | theorems |

**HashTable.** Variables `entries`, `capacity`, `length` are the fields of the
struct; `newEntries`, `source`, `index` are the locals of
`__ini_details_ht_expand` and `__ini_details_ht_set_entry`; `pc`, `call`,
`reply` are the call in progress, and `heap` counts the strings that
`ini_strdup` has made and nobody has freed. Each turn of a probe loop and of
the copy loop is a step (`ProbeCollision`, `LookupCollision`,
`RehashCollision`, `RehashSkip`); each `ini_strdup` or `calloc` that may fail
is a pair of actions (`Store`/`StoreFails`, `RehashStore`/`RehashFails`,
`ExpandStart`/`ExpandRefused`); a new entry needs two copies, and when the second
fails (`CopiedAtFailure`) the first is to be freed (`FreedAtFailure`). Strings are members of `Keys` and `Values`, and
`hash_key` is any function `Hash`; `hash & (capacity - 1)` is `hash % capacity`
because capacities are powers of two (`MaskAssumption`, from
`ini_constants.h`). Calls run one at a time: what the table's mutex is for, and
what it fails to do, is the subject of `IniMutex`.

**HashTableIter** adds `it` (`_index`) and history: which keys were there when
the iterator was made, how often each was reported, how often the table has
expanded since (`moved`). `ini_ht_next` skips empty slots within one call, so
`NextEntry` goes to the first occupied slot ahead.

**IniMutex.** `ini_mutex_lock` is `LockAlready` (flag set: success at once) or
`LockCheck`, `LockBase` (waits for `base`), `LockFlag`; `ini_mutex_unlock` is
`UnlockAlready` or `UnlockCheck`, `UnlockBase`, `UnlockFlag`. Calls of different
threads overlap in every way, so that a thread may come to `pthread_mutex_unlock`
without having `base`: what happens then is undefined, and it may take `base` from
whoever has it (`UnlockBase`) or fail (`UnlockRefused`: the flag stays as it is).
Init and destroy
are one step each, between calls, as their callers must arrange. Both flags are 0, 1
or something else, because `ini_ht_create` and `ini_create_context` take the mutex
from `malloc` (`Allocate`, also after `ini_ht_destroy` has freed one, whatever
`ini_mutex_destroy` said): a mutex that looks initialised is refused, and one that
looks locked is free to everyone until it is unlocked once (`stale`). `crossed` is
history: a lock has been granted `base` while an unlock was between its check and its
clearing of the flag. `MaxDepth` bounds nested locking.

**IniContext.** `sections` maps names to addresses, `tables` addresses to their
contents (`Free` if there is none); `HashTable` is proved to be such a map. A
load goes through `LoadCall` (with `ini_good` as the predicate `Good`), `Clear`
(first critical section), `Open` (the file again, by then perhaps another one),
`Relock`, one action per kind of line, and `LoadDone` or another way out
through `Leave`. `ini_get_value` is one critical section, `GetValue`. Every
allocation may fail: `NoMemory` where the code checks, `StoreSection` and
`StorePair` with `fault` set where it does not. `KnownSection` and `Crash` are
the repeated header: the string that holds the table's address is taken for the
table (`Wild`), and a pair stored there is undefined behaviour, after which
that thread does nothing more. `LoadNull` begins a load with a NULL context: it makes
one (`private`) and goes on with `Open` like any other load, through the same failures;
`Finish` is what its returns do, `ini_free` if it failed (`DestroyedOnError`), and
nothing if it succeeded, which leaves all that it holds to nobody. Such a context
shares nothing with another, so that it is followed while there is no other.
`ImplementsStore` maps the pointer structure to `IniStore`: `SectionAt` and
`tables` followed from names to values. Its `Clear` is a step of its own, as in the
code: until a reload has parsed the file again, readers do not find the keys that
both the old and the new contents have. `ctx->mutex` is a proper lock here, so that what
fails here is due to the context's own code. `loaded`, `fault`, `lost` are
history.

**IniText.** A text is a sequence of characters. `Pieces` is `fgets` with a
buffer of `LineMax` (`INI_LINE_MAX`), `Lines` the pieces as C strings without
leading blanks; `Good` is the loop of `ini_good`, line by line
(`GoodLine`: skipped, header, or a pair under a header with an acceptable value),
`Loaded` the map of maps that `ini_load` makes, `SavedText` and `SectionText` what
`ini_save` and `ini_save_section_value` print. `Understood` and `Representable` say
outright, without parsing and printing, which accepted texts `ini_load` can place
and which contexts survive a save and a load; `Misunderstood` and `Misjudged` are
the samples for which that is not so.

**IniFile.** `path` is what a name leads to: nothing, a file, something else, or
somewhere that may not be looked at, with what may be done to it. `ini_good` is
`CheckDirectory`, `CheckStatus` (`ini_check_file_status`); `SizeExists`,
`SizeDirectory`, `SizeStat` (`ini_get_file_size`) before and, with the stream open,
after `GoodOpen`; and `Parse`, of a text that is good or bad. `ini_save` is
`AskThere`, `AskFile` or `AskParent` (`ini_get_file_permission`) and `SaveOpen`.
`Change` comes between any two of them: what another program does, and what another
thread does with `ini_save`, which empties the file; the text in an open stream may
then be `mixed`. `seen` (what was there during the call) and `trouble` (stat, fopen,
reading or fclose failed although the path was all right) are history. A write
permission is asked of the working directory when a file is to be made in the root
directory (`inRoot`), where the comment at `ini_filesystem.c:83` says "parent
directory" (finding 9).

**IniSave.** `file` is the text on the disk; a stream is a `buffer` and a position
`at`, and what is buffered goes to the file whole at any moment (`Flush`) or is lost
(`FlushFails`: nobody asks `fprintf`), so that two writers overlay each other
(`Overlay`). `ini_save` is `SaveOpen` (truncates, without the lock), `SaveLock`,
`SaveSection` for each section, `SaveUnlock`, `SaveClose` or `SaveCloseFails`.
`ini_save_section_value` has the lock from `SectionCall` to `SectionReturns`:
`SectionNotFound`; `SectionExists` (always an error, see the findings);
`SectionAbsent` (prints to a temporary file), `SectionOpen` (truncates),
`SectionClose`; or `SectionRefused`. `ini_print` is `PrintCall` and `PrintReturn`: it
holds the lock and changes nothing. A load is `LoadClear` and, if it goes on, `LoadFile`
or `LoadOther`, which parse a whole text in one step (line by line it is in
`IniContext`). `Crash` loses the buffers and the context; `RemoveFile` takes the file
from its path at any time, and streams that are open (`gone`) go on writing to what
nobody finds any more, while others make a new file there. `plan`, `target` and `damage` are history: what each thread is writing,
what the last one set out to write, and whether the process crashed (`cut`), a write
failed (`gap`), two threads had the file open (`shared`) or wrote different texts
(`mixed`). The lock is a proper one.

**IniWrapper.** `alive` are the objects, `owns` their `m_context`, `cache` and
`cached` their `m_data` and `m_dataCached`; `live` and `memory` are the contexts
and what they hold, a map of maps or `NoTable`. A member function is one step,
because one thread uses the objects; what makes it hard are the ways out of it.
`load` may be refused (`LoadRefused`), fail late (`LoadFails`: a context cleared,
partly filled, or without a table) or succeed; `setString` may throw before or
after it made a section (`SetFails`) or lose its pair unnoticed (`SetDropped`);
copy assignment may stop half-way (`AssignFails`). A constructor from a file is
`Construct` and a load; one that throws leaves nothing but, for the copy
constructor, a filled cache in its source (`ReadAll`). `torn` is history: the
object has changed its context in a call that threw, which leaves `m_data` as it
was, so that `getAllData` and `getString` differ until the next change.
`CacheFresh` says that this is the only way they can. `getString`, `hasKey`,
`hasSection` and `empty` read the context and change nothing.

**IniReaders.** `populateCache` step by step: `CheckCached`, `ClearData`, `Fill` for
each section, `SetCached`; `Look` is what `getAllData` copies or `getSection` finds.
Every access to `m_data` is taken to be atomic, which is more than `std::map` gives.

## 3. The runs

| run | expects | shows |
|---|---|---|
| `hash_table` | pass | `TypeOK`, `KeysFindable`, `LengthExact`, `HalfLoad`, `NoStringLeak`, refinement of `StringMap`, and every call returns; an iterator reports each key once and misses none until an expansion, and once more at most for each |
| `mutex` | pass | `FlagTellsBase`: however calls overlap, flag and `base` agree between calls until a lock is granted while an unlock is past its check (`crossed`), even if malloc left the flag set or a thread unlocks what another has; `LockGranted`: until then every lock that waits is granted |
| `mutex_race` | violation | even when no calls overlap two threads are inside at once (`ini_mutex.c:60`) |
| `mutex_stuck` | violation | after such a crossing a lock waits for ever (`ini_mutex.c:87`) |
| `context` | pass | the context is what the file said, its pointers are good, what leaks is exactly what could not be stored and what successful loads with NULL hold (`LeakedIsLost`), refinement of `IniStore`, load returns |
| `context_repeated` | violation | a repeated section header yields a wild pointer (`ini_parser.c:350`) |
| `path` | pass | `VerdictIsDue`: undisturbed, `ini_good` returns the status the path deserves; `VerdictWasTrue`, `RefusalWasDue`: disturbed, one that was true during the call, but for new files in the root directory; `LeakNeedsChange`: what it takes to leave a stream open |
| `wrapper` | pass | contexts have one owner each, caches are fresh unless a call threw, copies are the same |
| `wrapper_throw` | violation | a load that throws has changed the contents (`IniParser.cpp:163`) |
| `readers` | violation | a reader that fills the cache empties it for another (`IniParser.cpp:301`) |
| `save` | pass | `SavedWhole`, `CrashLeavesPrefix`, `SectionSaveLosesNothing` of the steps; `GoodIsUnderstood`, `ReadsBack` of the texts; every call returns (`SaveReturns`) |
| `save_section` | violation | a section save of a file that exists changes nothing (`ini_parser.c:659`) |

Bounds, and why they are enough:

* `hash_table`: 2 slots growing to 4 and 8, refused beyond (`MaxCapacity`); three
  keys, of which two collide in every array and wrap around, and one collides with
  them only in the smaller arrays, where it meets the one that wrapped. Every probe
  pattern (home, collision, wrap, shared chain that an expansion splits) occurs;
  two values tell an update from an insertion; expansions happen under the
  iterator, insertions before and behind it.
* `mutex_*`: two threads suffice for each violation, three for waiting behind
  each other; nesting of 2 is the first that differs from 1; storage from malloc in
  `mutex`, zeroed in the others, which do not need it to fail.
* `context`: one loader (README_CPP.md:316 asks writers to synchronise; a load
  may be repeated without end), one reader, five files: two sections with a
  shared key and an overwritten one; a repeated header; a key before any
  header; a malformed one; an empty one. The last three fail validation and are
  still parsed when the file changes between validation and opening. Loads with NULL
  and with a context take turns with creating and freeing one. Two
  addresses let a second section succeed, be lost, or find no memory.
* `path`: one thread, because all that a second one could do to the first is
  `Change`; up to three changes during a call, which is enough for a path to be
  something else before, while and after it is opened, and something fourth when the
  call began; every kind of path, and a file of each access that makes a difference.
* `save`: two savers, one thread that saves sections, one that prints; the file
  absent, removed at any time, or with a section and the global one; a context loaded from it, from
  whatever is left of it, or from a file with an empty global section, so that
  texts differ in length and some are refused. A third saver would only repeat what
  two do to each other. The texts are checked beside that (2 600 contexts, 2 400
  files): every value of up to 4 characters that the code tells apart, every key and
  name of up to 3, every line of up to 3 under a header; one character stands for
  both blanks and one for both comment signs, which the code never tells apart. Each
  condition of `Good` and `Loaded` looks at one or two neighbouring characters or
  at the ends, so that longer values repeat shorter ones, as `GoodTexts` and
  `RoundTrip` prove; the limits of a line are met with a buffer of 9.
* `save_section`: one thread, no other.
* `readers`: two readers and two sections, with calls that ask for one or for all.
* `wrapper`: two parsers, for copies and moves, and three contexts, because a new
  one is made before the old one is freed; two sections and one key with two
  values, so that a copy can be cut between sections and a pair be changed; one
  file with an empty section, which a copy does not take over. Contexts are
  interchangeable and so are parsers, and there is no liveness: `Symmetry` is
  sound.

Fairness. `IniWrapper` and `IniFile` assume none. `HashTable!FairSpec`: weak fairness of the steps of a call in
progress, which runs on its caller's thread. `IniContext!FairSpec`: the same for
`ini_load` past its first check; what waits for the lock is disabled while it is
held, and holders are loads, so with one loader weak fairness suffices.
`IniMutex!FairSpec`: a thread in a call goes on, a thread that has the lock
unlocks it eventually (weak), and one that waits in `pthread_mutex_lock` gets
the mutex if it is free again and again (strong, the scheduling that any
starvation-free pthread mutex gives). `IniSave!FairSpec`: the same two kinds, weak for
the steps of a call and for what stdio writes, strong for `SaveLock`; a crash ends a
call too. Starting a call is never fair.

`mutex` and `mutex_stuck` switch deadlock checking off: after a crossing every thread
may wait, which is the point of the second.

## 4. The proofs

All are for arbitrary constants within the assumptions of the modules: `Null` is
no string, `Hash` is into the naturals, capacities are positive and powers of
two, `NoThread` is no thread, what stands for an absent text, table or context is
none; there are a key and the global name; `Files` are paths in `IniFile` and
sequences of lines in `IniContext`; `LineMax` is more than 2, and texts are sequences
over any set `Chars` that has the characters the code asks for; the contexts in
`Made` are finite maps of finite maps of texts (`IsContext`), any names, keys and
values, as `setString` stores them. The theorems that assume more say so.

* `HashTable_proofs`: `TypeCorrect`, `Findability` (`KeysFindable`), `Counting`
  (`LengthExact`), `Load` (`HalfLoad`), `NoLeak` (`NoStringLeak`), `Refinement`
  (`Spec => ImplementsMap`). `KeysFindable` is not inductive: when a probe ends
  at an empty slot one must know that the key is nowhere else, hence `Scanned`
  (all slots passed hold other keys), kept by every turn of a probe loop
  (`ScanNext`), from which `Absent` and `StoredFindable` follow. During a rehash
  the new array must hold just what has been copied, so that a copied key is
  never there already (`RehashKeyIsNew`) and the swap changes no value.
  `HalfLoad` needs that a set that goes on to probe has room for one entry;
  `NoStringLeak` needs the count of the half-filled new array. `IInv` collects
  these; `InvStep` shows every action keeps it. The refinement maps the slots
  to `Contents(entries)`; `Store` is the commit, failures and answers are the
  replies, all other steps stutter.
* `HashTableIter_proofs`: `NoRepetition` (`ReportedOnce`), `Iteration` (`NoneMissed`). `StillInv` says slot by slot what has been
  reported; it holds as long as entries stay in their slots (`SlotsStandStill`).
* `IniMutex_proofs`: `FlagCoherent` (`FlagTellsBase`), for any number of threads and
  nested locks, with no assumption on how calls overlap. `CallInv` is what a call
  under way has found at its check. As long as nothing has crossed, `StaleInv` says
  that a flag left by malloc keeps calls away from `base`, `GrantInv` that a thread
  which has got `base` and not yet set the flag has no unlock about, and `HeldInv` that
  after that the flag stays set until the unlock which released `base` clears it.
* `IniFile_proofs`: `TypeCorrect`, `VerdictsWereTrue` (`VerdictWasTrue`),
  `LeaksNeedChange`, `RefusalsWereDue`, for any number of threads and of changes,
  where the run has one thread and three changes. A
  returned status says too little to be kept by the steps before it: `CallInv` adds
  what a call under way has found, namely that it saw a regular file with a size
  (`HasText`) once it is past its first look, that what its stream delivers was
  there, or two texts were (`TwoTexts`), and that a save which asks for the file, or
  for the directory, saw one, or none. `StepPreserves` takes care of all other
  threads for a step that leaves the path alone, `ChangeKeeps` for one that does not.

  `VerdictsAreDue` (`VerdictIsDue`) is about a call that nothing disturbed: `Alone`
  says that the call has seen one thing at the path and the system has not failed, and
  `DueInv` what the questions asked so far then tell of that thing (`Settled`), so that each way out has the
  one status that is due.
* `IniContext_proofs`: `TypeCorrect` and `Ownership` (`SectionsOwnTables`) hold for any
  number of threads that load one context at once. `LeakBound` (`LeakedIsLost`),
  `Meaningful` (`ContextIsPrefix`), `Honest` (`NothingInvented`) and `Refinement`
  (`ImplementsStore`) assume `LoadsTakeTurns`: no two calls of `ini_load` of a context
  overlap, which `README_CPP.md:316` asks of writers ("Writers require external
  synchronization"); readers come at any time. Without it they are false: the lock is
  given back between clearing and parsing, and two loads merge (see `hazards`).
  None of them is inductive. `AloneInv` says that a load with a context of its own is
  the only one under way, so that freeing that context, or losing it, takes nothing from
  anybody (`TablesFinished`). `OwnInv` adds that only a thread that parses has a
  current table. `PhaseInv` says where a thread that loads is: before it parses
  the context is empty, and it stays so, with no header read, as long as the thread
  has no current table.
  `CurrentInv` is the heart: the table that pairs go to is that of the section the
  file is in, and no other has it; only if a store failed need that section not have
  it either. What one more line adds to the meaning of a file (`MeaningAppend` and the
  lemmas before it) is proved once and used for pairs, headers and blank lines. The
  refinement follows `SectionAt` and `tables`; a reload clears the map of maps in one
  step, stores a section or a pair in one, and every other step stutters.
* `IniWrapper_proofs`: `TypeCorrect`, `Ownership` (`ContextsOwned`), `Freshness`
  (`CacheFresh`), `Copying` (`CopyIsSame`, an action property), for any number of
  parsers, contexts and files. `ContextInv` is that the live contexts are just those
  owned, each by one object; `ObjectInv` adds to `CacheFresh` that a cache which is
  not marked filled is empty, because `populateCache` adds to what is there. Each
  member function is one of a few changes of ownership (`HasNow`, and what is next to
  it) followed by what it does to the cache.
* `IniText_proofs`: `GoodTexts`, the part of `GoodIsUnderstood` about texts: of every
  text of any length that `ini_good` accepts, `ini_load` understands every line, with a
  buffer of any size. `Pieces` counts columns recursively; that the function exists,
  that the pieces partition the text and where they may end (`ColumnIs`, `NthExists`,
  `PieceIs`, `NewlineEnds`, `LongLines`) is proved by taking the least position at
  which it fails. So is what is needed of `FlattenSeq`: the sections printed so far
  are how the whole begins (`UptoGrows`).

  `RoundTrip`: for every context, in whatever order its table gives the sections,
  what `ini_save` writes is accepted and read back as it was, exactly if the context
  is `Representable`. The argument has five parts.
  (1) `PiecesJoined`: after a newline `fgets` starts anew, so that the pieces of two
  texts joined are those of each; hence a text that `Spells` a list of rows (lines
  that begin with no blank and no comment sign, without NUL) comes as these rows,
  or, if one is too long, has a piece that `ini_good` turns down (`Cut`), whatever
  comes before or after it (`AllSpelled`, `CutIsBad`).
  (2) `ValueReadsBack`: the line of a pair is accepted and gives the value back
  exactly if `ValueSurvives`, from where the first quote and the last character that
  is trimmed are.
  (3) `SavedTold`: what is printed is a list of rows that tells of each section:
  blank lines, one header for each, each pair under the header of its section;
  joining keeps this (`ToldJoined`). What `ini_load` makes of rows that tell of a
  context are its sections and keys (`RowsLoaded`), which gives `PrintableReadsBack`
  for contexts whose names and keys may be written and that have no global section.
  (4) Nothing else is read back. What comes out of `ini_load` can be written:
  no name has a `]`, no key a `=` or a blank at an end (`LoadedIsPrintable`), so that a
  context which is read back is such.
  (5) With a global section it is not: after another section its pairs come under
  a header (`GlobalIsLost`), and some order puts another one first; alone, its first
  pair comes where `ini_good` wants a header (`GlobalAlone`). The one corner is a
  first key that begins with a byte order mark, which is taken off: a value long enough
  to hold the whole pair again might make up for it, but what is left of the line is
  shorter than the value would have to be (`PairIsLost`).

  `LoadedReadsBack`: for a context that was loaded, only the values and the lengths of
  the lines are left to ask about, unless it has a global section.
* `IniSave_proofs`: `TypeCorrect`, `Whole` (`SavedWhole`), `Prefix`
  (`CrashLeavesPrefix`), `NothingLost` (`SectionSaveLosesNothing`, an action
  property), `Understanding` (`GoodIsUnderstood`) and `Rereading` (`ReadsBack`: `RoundTrip`
  for the samples and for the context at hand), for any number of threads that
  save and print, texts of any length, and every order of truncations, loads,
  flushes, failures, closings, removals and crashes. `SaveInv` collects: `GoneInv`, who
  writes to a file that was removed, and so touches none that counts
  (`ElsewherePreserves`); `OpenInv`, who can have
  the file open with whom (while a section save is about to create the file, others
  have at most truncated it); `CarriedInv`, that what a thread has buffered is what
  comes next in its text, as far as its iterator is, unless a write failed;
  `PlansInv`, that all who write write the target, unless texts were mixed;
  `PrefixInv`, for a thread that has the file to itself; and `CoverInv`, for those
  that share it, which is what makes `SavedWhole` inductive: at each position of the
  target either the file is right already or some writer has yet to come by. A
  truncation moves that writer to the beginning, a write fills its positions or
  passes them (`OverlayIs`), and a writer that closes has no position before it.

Only model-checked:

* `CallsReturn`, `LockGranted`, `LoadReturns`, `SaveReturns`: liveness under fairness
  and `ENABLED` are outside TLAPS.
* The violations of section 5 (`LockReturns` among them), which are counterexamples and need no proof.

## 5. Findings

1. `ini_mutex_lock` gives the lock to a second thread when the flag is set.
2. `ini_mutex_unlock` and a racing lock leave `base` held for ever.
3. A repeated section header is undefined behaviour in `ini_load`.
4. `ini_save_section_value` fails for every file that exists, leaking a stream: 180
   lines that would update it are unreachable.
5. `load` of the C++ class throws with the former contents gone, and with a
   cache that still shows them, although strong exception safety is promised.
6. Readers of one C++ object clear and fill its cache under each other, although
   several readers are said to be safe.
7. `ini_ht_set` returns the new value, where `ini_hash_table.h:78` promises the previous
   one. The code does it consistently: `hash_table` and the theorem `Refinement` show
   that it implements `StringMap`, which replies with the new value.
8. `ini_load` with a NULL context, which `ini_parser.h:77` and `:78` invite, fills a context
   whose address nobody gets: a success leaks all of it. `context` and the theorem
   `LeakBound` show that this, and sections that could not be stored, is all that leaks.
9. For a new file in the root directory the permission of the working directory is asked
   (`ini_filesystem.c:91`), although the comment at `:83` says "parent directory". `path`
   and `RefusalsWereDue` show that this is the one undue refusal; TLC finds one
   when the third disjunct of `RefusalWasDue` is taken away.

The first six are counterexamples of runs that expect them; the last three are named
by properties that pass because they say what the code does.

Not a run, but in `mutex`: the second of two locks of a thread does nothing
and the first unlock releases the mutex, where `ini_mutex.h:60` and `:90` speak of a
recursive one. Nothing in the library locks twice.

What `ReadsBack` and `GoodIsUnderstood` had to except, and nothing in the repository
promises: the global section is saved without a header and refused when it is
loaded; unquoted values with commas, values that begin with a quote, values with
blanks or comment signs and a quote, and carriage returns at the end do not survive;
quotes may make a line too long; `setString` takes names with `]`, keys with `=` and
line breaks anywhere. `ini_good` lets a line pass that begins with a carriage return,
and lines longer than the buffer if they are indented, comments, or hold a NUL:
`ini_load` reads the pieces as lines of their own.

`PROJECT.json` quotes, for each, the sentence of the repository it contradicts,
and lists under `hazards` what else can go wrong and is not covered yet.

## 6. Plan

1. done: `HashTable`, `StringMap`, `HashTableIter`, `IniMutex`, `IniContext`,
   `IniStore`, `IniText`, `IniFile`, `IniSave`, `IniWrapper`, `IniReaders`, and a theorem
   for each safety and action property of a passing run, and for each refinement.
2. left: the hazards of `PROJECT.json` that have no property. A hash table used by
   several threads at once, under the mutex as it is, would cover the pointers that
   `ini_ht_get` returns and expansions under an iterator; two loads of one context, which
   merge, need a specification of what a merge may hold.

## 7. Not modelled

Windows branches; wording of messages; number
conversion in `IniParser.hpp`; `ini_strstrip`; the build and scripts. In `IniFile` a
directory has a size and reading a device gives nothing; opening a named pipe, which
would wait, is left out. Lines 666 to 844 of `ini_parser.c`, which no call reaches.
`IniSave` does not count streams, so that the one that leaks at `ini_parser.c:659` is
only noted. Two loads of one context at a time: `IniContext` allows them, the runs
have one loader because README_CPP.md:316 asks writers to synchronise. Reading a value
through the pointer `ini_ht_get` returns after the table's lock is gone is listed
under `hazards`. Of the C++ class: `print`, `save`, `validate`, which call the C functions and
change no object, and `std::bad_alloc` thrown by its containers.
