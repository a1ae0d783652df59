# A verification project for the parallel Huffman codec and the LZSS codec

This directory holds TLA+ models of the programs under `src/`, the TLC
configurations that check them on small instances, and TLAPS proofs about
them for every size.  `PROJECT.json` lists the components, the runs, a mutant
for every property, the source lines behind every definition, and the hazards
that the properties are for.

## 1. The system

The repository holds two independent programs and a library.

`huffcode` (`src/huffman/libhuffman`) reads a file into memory, compresses it
into a second memory buffer and decompresses that into a third one, either
sequentially or with a team of OpenMP threads, and times the steps.

`lzss` (`src/lzss`) compresses or decompresses a file with a sliding window
of 4096 characters and one of five ways to search it, chosen when it is linked
(`FMOBJ` in its Makefile).

The task system (`common/tasksys.cpp`) is linked to `huffcode`.  It runs the
tasks that ispc programs launch; the functions of this repository's ispc file
launch none, so its clients are those that its comments describe.

| Component | State it keeps | Operations |
| --- | --- | --- |
| Partition of work (`util.h`, `huffman_parallel.cpp`) | none | `UPDIV`; start and end of the piece of a thread |
| Parallel histogram (`get_symbol_frequencies_parallel`) | `histo_per_thread` and `pSF`, shared by the team; loop variables of each thread | count a byte, wait at the barrier, add a row, store a bin |
| Huffman tree and codes (`util.cpp`) | the array `pSF` of roots, nodes with parents, the `SymbolEncoder` | sort and merge two entries, walk from a leaf to the root |
| Parallel encoder (`get_out_size`, `do_encode`) | sizes and offsets of the chunks, the output buffer, `curbyte`, `curbit` and the position of each thread | measure a chunk, prefix sum, put a bit, write a byte, flush |
| Code table in the header (`write_code_table_memory`, `read_code_table_memory`) | a `data_buf` with `curr_offset`, the tree under construction | write or read the number of entries, the size of the file, an entry |
| Parallel decoder (`huffman_decode_parallel`) | position in the file, node of the tree and position in the output of each thread | fetch a byte, descend, emit a symbol |
| Sequential codec (`huffman_seq.cpp`) | the same with one thread and without a table of offsets | encode, decode |
| Driver (`run_huffman`, `huffcode.cpp`) | three buffers | read in parallel, compress, rewind, decompress, compare |
| Bit file (`bitfile.cpp`) | a file and a buffer of up to eight bits | put and get a bit, a character, some bits, a number; align, close |
| LZSS encoder and decoder (`lzss.cpp`) | sliding window and lookahead (two rings), a bit file | `EncodeLZSS`, `DecodeLZSS` |
| LZSS matchers (`brute.cpp`, `list.cpp`, `hash.cpp`, `kmp.cpp`, `tree.cpp`) | nothing, linked lists, or a binary tree, over the indices of the window | `InitializeSearchStructures`, `FindMatch`, `ReplaceChar` |
| LZSS command line (`main.cpp`, `optlist.cpp`) | the list of options, the mode, two names, the files on disk | scan a word, process an option, open and close files |
| Task system (`common/tasksys.cpp`) | the list of active task groups, the slots of free ones, a semaphore; per group the waiting tasks and a counter | `InitTaskSystem`, `ISPCLaunch`, `ISPCSync`, the loop of a worker, `AllocTaskGroup`, `FreeTaskGroup` |
| Timers, `backup/`, results | none that matters | measuring |

How they interact.  The driver hands one buffer to the next stage and rewinds
it in between; inside a stage the threads share arrays without any lock and
rely on the cut of the work, on one explicit barrier and on the implicit ones
at the end of parallel regions.  Encoder and decoder share the format of
the compressed buffer: the code table, one start offset per thread, and the
chunks one behind the other.  Neither the number of threads nor the end of a
chunk is stored in it.  In `lzss` the encoder asks the matcher for a match,
writes a token to the bit file, and passes every byte that it consumed to
`ReplaceChar`, which stores it in the window and keeps the search structure in
step; the decoder rebuilds the same window from the tokens.  `main` calls one
of the two, or both in one process; two calls of the program share nothing but
files.  Clients and workers of the task system share the active list under one
mutex, and everything else (the flag that the system is set up, the free
slots, the counters, the semaphore) without it, by atomic instructions or none.

What is hard, and what makes each component correct:

| Component | Hard | Correct when |
| --- | --- | --- |
| Histogram | every thread reads what all others wrote; short or empty pieces | no race, in every interleaving the table is the sequential one, and no partial sum is ever visible |
| Codes | the order of equal counts is open; unsigned loop bound; degenerate trees | prefix-free without gaps, optimal, lengths fit the byte of the header |
| Parallel encoder | the two passes cut the input differently; bits of neighbours in one buffer | each thread stays in its slot, slots tile the buffer, the bytes are the reference encoding |
| Parallel decoder | the end of a chunk is not marked; padding | each thread stops inside its chunk; the output is the input |
| Header, sequential codec | the measured size must be exact; the reader checks nothing | the buffer is used up exactly; the table is read back as written |
| Bit file | stale bits in the buffer; portions across byte boundaries; padding | it is a queue of bits |
| LZSS | overlapping matches, two rings of different lengths, padding that looks like a token, lost writes | the windows of both sides agree at each token; the copy is the input |
| LZSS command line | the last word may lack, or be, an argument; files that cannot be opened | a call ends as its words and the files demand, and with what was asked for |
| Task system | first use by several clients at once; compare-and-swap on the free slots; a counter that is increased late and counted down as the last access; busy waiting that runs other clients' tasks; tokens for tasks that are gone | groups have one owner; a client goes on when all its tasks have run, each once, and it does go on |
| Matchers | the key of a string changes under its list or node; indices behind the arrays | lists and tree are those of the window as it is now; the match is one, and the longest |

## 2. The modules

Control is kept action by action; data is reduced to what the properties tell
apart.  A byte has `ByteBits` bits, a symbol is a model value, a small number
or a string, a code is a sequence of bits, a byte of Huffman output is the set
of its bits that are 1.

| Module | Stands for | State and actions |
| --- | --- | --- |
| `Partition` | both cuts of the work | operators: the explicit cut in pieces of `UPDIV(n, p)`, and the one of `omp for schedule(static)`, which the runtime makes (external: libgomp's) |
| `FrequencyTable` | abstract: what counting promises | an entry goes from NULL to its frequency, once |
| `Histogram` | the parallel counting pass | `histo`, `pSF` and, per thread, `pc`, `i`, `j`, `freq`; one action per loop iteration, per side of the barrier and at the end |
| `HuffmanCodes` | `calculate_huffman_codes` | the sorted array is the set `roots`, a merge takes any two of least count; `BuildSymbolEncoder` walks up from every leaf |
| `Bitstream` | reference: the codes of a chunk packed into bytes | operators |
| `ChunkedEncode` | `get_out_size` and `do_encode` | stages of the main thread `main`, of the team `pc`; one action per symbol measured, per offset, per bit put, per flush |
| `ChunkedDecode` | `huffman_decode_parallel` | one action per fetched byte, per step down the tree, per symbol |
| `CodeTable` | header writer and reader | one action per iteration on a `data_buf`; assertions of `data_buf` are a state of their own |
| `SeqCodec` | the sequential codec | holds an instance of `CodeTable`; measure, allocate, write the header, encode, rewind, read the header, decode |
| `Huffcode` | `run_huffman`, both versions | composes `ChunkedEncode`, `ChunkedDecode` and `SeqCodec` with the parallel `fread`: the instances `Enc`, `Dec` and `Seql` share the input, the code table, the compressed buffer and the output; `isSeq` chooses |
| `BitFile`, `BitFileUse` | `bitfile.cpp` | operators from a stream to a stream; any sequence of calls |
| `BitQueue` | abstract: a queue of bits | what `BitFileUse` implements |
| `Window` | `lzlocal.h` | the sizes, `Wrap`, what a match is |
| `LZSS` | `lzss.cpp` | EXTENDS `BitFile` and `Window`; one action per token and per byte shifted or copied; the matcher returns any match, or never returns |
| `OptList` | `optlist.cpp` | one action per letter or word that is scanned; a reference definition of what the words mean |
| `LZSSProgram` | `main.cpp` | EXTENDS `LZSS`, holds an instance of `OptList`; calls one after the other, each a new process, with the files in between: an action per option, per opening and closing |
| `ForkJoin` | abstract: tasks are launched, each runs once, then the client goes on | what `TaskSystem` implements |
| `TaskSystem` | `tasksys.cpp`, pthreads version | one action per critical section of the mutex and per access to memory that is shared without it; `pc` of each client and worker |
| `Lossless` | abstract: a copy appears position by position | what `Huffcode` and `LZSSProgram` implement |
| `Chains` | the linked lists of `list.cpp` and `hash.cpp` | operators on heads and next |
| `KMP` | `kmp.cpp` | the table and the search, whose loops are folds of their turns |
| `SearchTree` | `tree.cpp` | operators on the nodes and the root |
| `Matchers` | the five matchers between two calls of the encoder | `FindMatch` and `ReplaceChar` are one action each; those of the tree are one action per node, as their loops need not end |
| `Histogram_proofs`, `HuffmanCodes_proofs`, `SeqCodec_proofs`, `Huffcode_proofs`, `TaskSystem_proofs`, `LZSS_proofs`, `Matchers_proofs` | | the theorems of section 5 |
| `OperatorLemmas` | | lemmas on the operators of the models: the cuts of `Partition`, bits and bytes of `Bitstream`, sequences, sums, folds, digits, powers of two, prefix-free codes |
| `MC...` | | code tables and inputs for TLC |

The matcher appears twice: in `LZSS` as what the encoder relies on, and in
`Matchers` as the five that there are.  In `LZSS` an answer of `FindMatch` is any
member of the set `Matches`, so that losslessness does not depend on which one is
taken, and `ReplaceChar` stores a byte, if it returns: a call of either of them
may go on for ever (`InMatcher`).  `FindsLongest` of `Matchers` says that an
answer is a member of that set, and which.  Two runs show where the code is
worse than what `LZSS` relies on.  `kmp.cpp` can return a string that is no match
(`wrapped_once`); with it the claims about `LZSS` hold only up to there.
`ReplaceChar` of `tree.cpp`, the matcher that the Makefile links, does not return
once the tree has been emptied (`endless_tree`); this is a behaviour of `LZSS`.

### What a step of the task system is

`taskSysMutex` makes the accesses to the active list atomic, so that they are
one action with what the same critical section does otherwise.  The lock of
`InitTaskSystem`, the variable `threads`, a slot of the free list, the counter
of a group and the semaphore are each accessed by actions of their own.
`activeTaskGroups.reserve(64)` runs after `threads` was published and without
the mutex: it is two actions, and if another client has used the list in
between (`raced`), the list is the old one, the new one, or broken, which ends
the program (`BreakVector`).  The semaphore is named after the process id and
may be an old one: at first it holds any number of tokens up to `OldTokens`.

### Memory outside of arrays

Where the code leaves an array the model says what the build does.  An address
behind the Huffman output buffer can be written (the run `uneven_chunks` needs
no more than the addresses inside it).  In `tree.cpp` the indices `ROOT_INDEX`
and `NULL_INDEX` are behind `tree`, which is the last variable of the program
that the Makefile builds: memory that is zero at first and that keeps what is
written.  In `kmp.cpp` a byte behind the window is any byte.  `lists[255]` of
`list.cpp` is also behind its array; the model gives every byte a list.

## 3. The runs

Passing runs, with the number of distinct states:

| Run | States | What it shows |
| --- | --- | --- |
| `histogram` | 102,730 | Three threads, four symbols, buffers of 0, 1 and 4 bytes.  `NoDataRace`; `Correct`: the result is the sequential one; `PublishesOnce`: the pass implements `FrequencyTable`; `Termination` |
| `huffman_codes` | 16,961 | Every table of four frequencies up to 5, every resolution of ties.  `SingleEntryLeft`, `Decodable` (prefix-free, no gaps), `LengthFitsByte`, `Optimal` against all assignments of lengths that Kraft's inequality allows; `Termination` |
| `huffcode` | 463,725 | Both versions, with four code tables of which one has a code of no bits and one is degenerate; three threads in the parallel one.  `WholeFileRead`, also when the amount to read wraps around; `OwnSlot`, `SlotsTileBuffer`; `FileIsPacked`: the encoder's output is the file that the decoder is specified for; `FetchesOwnSlot`; `NoFailure`: no assertion of `data_buf` fails and nobody leaves the tree, if two symbols occur; for the sequential version `BufferUsedUp`, `TableRestored`, `OutputIsReference`; `CopiesFile`: it implements `Lossless`; `ReachesEnd` |
| `bit_file` | 20,989 | Every sequence of calls with up to seven bits in bytes of three.  `StreamIsQueue`: it implements `BitQueue` |
| `lzss` | 1,068,903 | Every file of up to seven bytes over two values, every choice of matches, with room for the output and without, encoded and decoded by one call or by two: `WindowIsHistory`, `CopiesFile`; `Termination`: unless a call of the matcher never returns, every call ends, with the whole file if there is room; `TestRestoresFile`: after the test mode the decompressed file is the input.  Every command line of up to three of thirteen words, on files of up to one byte, where files can be written and where not: `EndsForAReason` |
| `task_system` | 662,068 | Two clients and a worker.  `ActiveHoldsWaiting`, `OneOwner`, `CounterCounts`, `StopsForAReason`; `RunsTasksOnce`: it implements `ForkJoin`; `SyncReturns` |
| `matchers` | 295,812 | A window of eight bytes, every sequence of replacements and questions.  `ChainsHoldWindow`, `TreeIsSearchTree`, `FindsLongest` |

Runs that find a violation, each a finding in `PROJECT.json`:

| Run | Violated | What happens |
| --- | --- | --- |
| `uneven_chunks` | `ResultIsCorrect` | Five bytes on four threads: the sizes are measured over the runtime's pieces, the encoding uses its own, two slots overlap and the output differs from the file.  A build with `-t 4` and a file of 1000001 bytes prints "Compression result is incorrect" |
| `one_symbol` | `NoNullChild` | Only one byte value occurs: its code has no bits, the decoder's root has no children, and `p->isLeaf` is read through NULL |
| `endless_tree` | `ReplaceReturns` | Replacing takes the only node out of the tree; `AddString` follows `NULL_INDEX` behind the array and goes round.  The default build never ends on a file of two spaces and a newline |
| `stale_group` | `TakesWhatItRead` | `AllocTaskGroup` takes any result of a compare-and-swap but NULL for success; if the slot holds a third group by then, the assertion `ptr == tg` stops the program.  Three clients are needed, and no worker |
| `wrapped_once` | `ReturnsMatch` | `kmp.cpp` wraps an index once that may be almost three times the window, compares bytes behind it, and returns a match that is none.  A build with `kmp.o` decodes some files to other bytes |

More facts that the models show and that are not runs of their own.  The
table of an empty file makes the bound `n - 1` of the merge loop wrap around
(action `Crash` of `HuffmanCodes`): the program ends with a segmentation fault.
`EncodeLZSS` ignores what the bit file returns and reports success when the
output could not be written; `CopiesFile` of `LZSSProgram` therefore asks for
`EnoughRoom`.  With one name for input and output `lzss` empties its input
before it reads it; `EndsForAReason` says how such a call ends, and no property
says that the data is kept.  The usage text of `lzss` has an option `-t`, which is not
in the string given to `GetOptList` and is skipped like any unknown letter, and
says that the default is to encode stdin to stdout, where it is the test mode.
The comment above `usage` of `huffcode` proposes `-b`, for which `main` has no
case: it prints the usage and returns 1.  Two clients that use the task system
for the first time at once may break the list of active groups (`raced`), which
`StopsForAReason` and the other properties of the list except: it stays
unchecked what happens to the list then.

### Bounds, and why they are enough

- `histogram`, `huffcode`: three threads are the least with
  a first, a middle and a last one.  The sizes give empty pieces, short last
  pieces, one byte per thread, and a thread whose start lies behind the end.
  In `huffcode` they are those for which both cuts agree
  (1, 2, 3, 5 with three threads: the remainder is 0 or 2, or there are fewer
  bytes than threads); that the rest fails is `uneven_chunks`.
- A byte of two or three bits (`ByteBits`) makes chunks end inside, at and
  behind the boundary of a byte with codes of three bits, and lets a number
  cross two of them.  No loop depends on the eight.
- `huffman_codes`: frequencies 0 to 5 over four symbols give all shapes of
  trees with up to four leaves, ties at each level, the single symbol and the
  empty table.  `UIntMax = 7` stands for 2^32 - 1: far beyond the number of
  symbols.
- `lzss`: a window of four and a lookahead of three bytes: both rings wrap,
  at different moments, within seven bytes, matches overlap the head of the
  window, and `Space` is one of the two bytes.  `Rooms` are three bytes, less
  than some files take, and fourteen, which is enough for all.
- The command lines of `lzss` are made of words that are empty, no options,
  known and unknown letters, options with their argument in the same word and
  in the next one, missing arguments and help; with three words an argument
  can look like an option and be followed by another one.
- `task_system`: two clients meet in every part of the code that has no mutex,
  and one worker is enough to compete with both of them for a task, as clients
  take tasks themselves while they wait.  One slot makes both a hit and a miss
  in `AllocTaskGroup` and `FreeTaskGroup` possible; `TaskLimit = 2` is exceeded
  by some rounds and not by others; `MaxCalls = 5` rounds and launches let a
  group be used by one client, kept, and used by the other.
- `matchers`: a window of eight with `MAX_CODED = 3`, so that the strings
  around a replaced byte cross the end of the window; three lists for two
  bytes, so that unequal strings collide.  Without a bound the lists and the
  windows are all reached; a tree is replaced `MaxReplaced = 9` times, once
  round the window and on.  The lookahead and its head are arbitrary at every
  question, a superset of what the encoder asks.
- `FindsLongest` is about the nodes of a tree that was never empty (the other
  case is `endless_tree`), about indices that `Wrap` can handle (the other is
  `wrapped_once`), and allows a hash to miss what is too short to be encoded.
  An equal, older string has no node, so that after a removal the tree may miss
  a match that is still in the window: that costs compression only.

### Fairness

Threads of a team are scheduled by the operating system: every thread that can
take a step eventually takes one, hence `WF_vars(Step(t))` for each thread and
weak fairness for the main thread (`Histogram`, `ChunkedDecode`).  There is no
lock, so that strong fairness is not needed.
`Huffcode` needs only `WF_vars(Next)`: each of its steps makes progress.
In `TaskSystem` every client and worker has weak fairness.  A waiting client
spins (`TakeNothing`) and never blocks on the semaphore, and the mutex is held
within one action, so that nobody can be starved by it; a worker that sleeps on
the semaphore can take a step only when there is a token.
The other sequential modules have `WF_vars(Next)`: a program that can go on does.
`LZSSProgram` has weak fairness for all steps but those that return from
`FindMatch` or `ReplaceChar`: with `tree.cpp` the code does not guarantee them
(`endless_tree`: a file of two spaces and a newline).  `Termination` therefore
says that the program ends or stays in such a call (`<>[]InMatcher`), and the
loops of the encoder and the decoder around the matcher are what it is about.
In `Matchers` only `Replace` is fair: once called, `ReplaceChar` runs, but the
encoder need not call.

## 4. Mutants

For each property of a passing run a mutated definition stands in the module,
before the one it changes and named after it (`AllArrived_NoBarrier`,
`BytesFor_RoundedDown`, `TakenOut_RootKept`).  It is a plausible slip in the
code, and with it the run finds the property violated.

## 5. The proofs

The theorems hold for every value of the constants that the modules' own
assumptions allow.  Most state the property of a passing run, which
TLC shows on a small instance and TLAPS in general.

| Module | Theorem | States |
| --- | --- | --- |
| `OperatorLemmas` | `ChunksCover`, `ChunksDisjoint`, `CutsAgree` | facts about the two cuts |
| `Histogram_proofs` | `TypeCorrect`, `FrequenciesCorrect`, `RaceFree`, `Implementation` | `TypeOK`, `Correct`, `NoDataRace`, `PublishesOnce` |
| `HuffmanCodes_proofs` | `OneTreeIsLeft`, `CodesAreShort`, `CodesAreDecodable`, `CodesAreOptimal` | `SingleEntryLeft`, `LengthFitsByte`, `Decodable`, `Optimal` |
| `Huffcode_proofs` | `TypeCorrect`, `FileIsRead`, `SlotsTile`, `ThreadsKeepToSlots`, `ReferenceIsPacked`, `FetchesInsideSlot` | `TypeOK`, `WholeFileRead`, `SlotsTileBuffer`, `OwnSlot`, `FileIsPacked`, `FetchesOwnSlot` |
| | `MeasuredExactly`, `ReferenceIsWritten`, `TreeIsRebuilt` | `BufferUsedUp`, `OutputIsReference`, `TableRestored` |
| | `FailsNever`, `ResultCorrect`, `Implementation` | `NoFailure`, `ResultIsCorrect`, `CopiesFile` |
| `TaskSystem_proofs` | `TypeCorrect`, `OwnedAlways` | `TypeOK` |
| | `CountersCount`, `GroupsHaveOneOwner`, `ActiveListCorrect`, `Implementation`, `StopsOnlyForAReason`, `TwoClientsTakeWhatTheyRead`, `TwoClientsStopForAReason` | `CounterCounts`, `OneOwner`, `ActiveHoldsWaiting`, `RunsTasksOnce`, `StopsForAReason`, `TakesWhatItRead` |
| `LZSS_proofs` | `SameWindows`, `TestIsLossless`, `EndsAsAsked` | `WindowIsHistory`, `TestRestoresFile`, `EndsForAReason` |
| | `DecoderCopies` | the part of `CopiesFile` for the test mode |
| | `BitsComeBack` | `StreamIsQueue` |
| `Matchers_proofs` | `ListsHoldWindow` | `ChainsHoldWindow` |
| | `TreeStaysSorted` | `TreeIsSearchTree` |
| | `LongestIsFound` | `FindsLongest` |

None of these properties is inductive (but for the type of the histogram).
The strengthened invariants below were first checked with TLC on the
instances of the runs.  Each proof has one lemma per action, or per group of
actions with the same effect, and a step for each part that it can disturb.

### Partition and histogram

`ChunksCover` and `ChunksDisjoint`, for every number of items and threads: the
explicit cut gives each item to one thread and no other, also with more threads
than items.  The multiplications are handled by lemmas on division and monotony
(`Division`, `ProductMonotonic`, `UPDIVRoundsUp`).  `CutsAgree`: this cut and
the one of `omp for schedule(static)` give every thread the same items exactly
when the remainder of the size is 0 or `p - 1`, or there are fewer items than
threads.  So the sizes of the run `huffcode` are typical of all for which the
encoder can work, and all others have the fault that `uneven_chunks` shows.

The invariant of the histogram adds what each private state means: a row of
`histo` counts the positions that its thread has passed (`CountInv`,
`CountedInv`); nobody merges while somebody counts (`BarrierInv`); `freq` is the
number of occurrences in the chunks of the rows added so far (`MergeInv`), which
needs the rows to be final, hence the barrier; a stored bin is final, another
is NULL or final (`StoredInv`).  Counts are cardinalities of sets of positions:
to add a row is to join two disjoint sets (`CountSplit`).  `Correct` then
follows because some thread has stored each bin (`ChunksCover`), `NoDataRace`
because no two have the same (`ChunksDisjoint`).

### Huffman codes

For every alphabet, table and order of equal counts.  `CountInv`: after `i`
iterations there are `n - i` roots, and the array of an empty file is the only
one on which the loop goes wrong.  `ForestInv`: the nodes made so far form a
forest, in which an inner node has two different children, which know it as
their parent, and every node but the roots has a parent of a greater number.

That order makes the recursive functions of the module exist: were there nodes
without a walk to the root, take the last one; its parent has a walk
(`BitsUpwards`; for `LeavesUnder`, downwards, take the first).  In the same way
different nodes are shown to have different codes (`CodesDiffer`) and the code
of a leaf to begin no other node's (`LeafNoPrefix`).  `KraftUnder`: what the
leaves under a node contribute to Kraft's sum is what the node would contribute,
were it a leaf.  At the root this is Kraft's equation, hence `Decodable`.  Each
step of a walk goes to a greater one of the `n - 1` inner nodes, hence
`LengthFitsByte`.

`CodesAreOptimal`.  `BestInv`: whatever lengths with Kraft's inequality the
symbols could have, the roots can have lengths with it such that the tree takes
no more bits, counting what the merges so far have cost (`Merged`, the sum of the
counts of the inner nodes).  At first the roots are the symbols; at the end there
is one root, and `Merged` is the number of bits of the codes (`CostOfTree`, by
undoing the merges one after the other).  A merge keeps it (`MergeIsBest`): take
lengths at no greater cost whose greatest one, `B`, is as small as possible.
Then two elements have it, for a single one could be shortened: the other terms
of Kraft's sum are multiples of twice its term (`LongestIsShortened`).  The two
lightest may take these places (`Exchanged`), and become one node of length
`B - 1`.

### Driver and parallel encoder

The hypotheses of the theorems about `Huffcode` are named, and each theorem has
only those it needs.  `SameCut(n, p)`: both passes cut a file of `n` bytes alike;
`CutsAgree` says of which sizes this is true.  `IsPrefixCode(c)`: no code of the
table begins another one, which `CodesAreDecodable` proves of the codes that
`HuffmanCodes` makes.  `Decodable` is both, for all `Sizes` and `Codes`.
`Storable`: the length of a code and the number of codes fit their fields in the
header, as they do with bytes of eight bits and at most 256 symbols
(`CodesAreShort`).  The code tables and sizes of the run `huffcode` satisfy all
of them.

The number of bits of a chunk is the cardinality of the set of pairs of a
position in it and a bit of its code (`Counts`), so that measuring, putting and
flushing are compared without recursion.  `SizingInv`: a thread in
`get_out_size` has counted the bits of the positions it has passed, and
afterwards `bytes` is what the bits of its piece need.  `PrefixInv`: the slots
computed so far lie one behind the other from 0 on, without a gap; with the
allocation of their sum this is `SlotsTileBuffer`.  `EncodingInv`: `curbyte` and
`curbit` in `do_encode` amount to the bits of the positions encoded so far.

`ThreadsKeepToSlots` proves `OwnSlot` under the hypothesis `SameCut`, that both
passes cut the file alike.  The hypothesis is needed (`uneven_chunks` violates
the property without it), `CutsAgree` says which sizes satisfy it, and the
inputs of the run do.  `ReadInv`: what has been loaded is the union of the
pieces of the threads that have finished reading, and `ChunksCover` makes it
the file.

`ReferenceIsPacked` is about the contents of the buffer, whose reference is
recursive over the data.  No induction is needed: `BitsSteps` and `FlattenSteps`
say what the sequence of bits of a chunk is at the next symbol, the code under
way is a piece of it, and so `PackingInv` can say of each thread that the bytes
it has stored are the first bytes of its reference, and that `curbyte` holds the
next bits.  A step changes one byte of one slot; that it is not a byte of
another thread is `SlotsApart`, again from the prefix sum.  The offsets in the
header agree with the `CHOOSE` in `PackedStart` because only one function
satisfies the equation (`StartsAgree`).

### Parallel decoder

`DecInv`: a thread whose part of the output is not full stands at a node that is
on the way (`OnWay`) from the root to the leaf of the next symbol, and the bits
it has walked (those of the symbols it has emitted and the length of its path)
are those of the bytes it has fetched from its own slot.  If the codes are
prefix-free and have bits, the child it goes to next exists and is on the same
way (`ChildOnWay`), and it is a leaf exactly at the end of the code
(`WayToLeaf`); what it emits is therefore the symbol of the file.  As long as a
symbol is missing, there are bits of it in the slot that were not fetched:
`FetchesOwnSlot`.  The output is the file on what the threads have passed, and
`ChunksDisjoint` makes each byte new (`NotYetWritten`).  A table with one code
of no bits is a case of its own: no thread ever emits a symbol.

### Header and sequential codec

`SeqCodec_proofs` proves that every action keeps `SeqInv`; `Huffcode_proofs`
instantiates it with the driver's variables (`SameCodec` says that the actions
are those of the driver's instance) and states the results of `Huffcode`'s
specification.

While the file is written, `SeqInv` says how far everything is: `Measuring`
(the bytes counted beyond the header, and `cnt` bits, are the bits of the
first `k` codes), `WritingHeader` (the cursor is at `EntryStart(i)`, a sum over
the codes before `i`, and what was written lies before it), `Encoding`
(the cursor, `curbit` and `curbyte` amount to `k` codes and `b` bits).  At the
end of the file both counts are of the same bits: `BufferUsedUp`.

While it is read, the buffer holds what `Complete` says.  A number survives the
way through the bytes because it is the sum of its binary digits
(`NumberRead`, from `DigitsSum` and the widths of the fields), a code because
the bits beyond its length are cut off again (`CodeRead`).  `TreeOf`: the tree
under construction has the paths of the entries read so far and no others; one
more path ends in a new node, as no other code passes there
(`PathAdded`).  `Decoding` is the sequential form of the parallel decoder's
invariant.

`AccessFits`: the guard of every access to a `data_buf` holds, except when the
decoder asks for a byte behind the file of a code without bits.  So `Abort` is
never enabled with two symbols or more, which is the sequential half of
`FailsNever`; the other is that no decoding thread crashes.

`ResultCorrect` and `Implementation` put both versions together.  `ResultCorrect`
is the property that the run `uneven_chunks` finds violated where the hypothesis
`SameCut` fails.

### Task system

For any number of clients, workers, slots and addresses of groups, as far as
`TaskSystem` constrains them.  `Owned` is the inductive invariant of who has
what: `LockInv` (one client at most is in `InitTaskSystem`, and the workers
start after it), `PlaceInv` (what a program counter says about handle, job and
slot), `OwnInv` (a group that exists is in one slot of the free list or with
one client, never both).  That `CreateGroup` always finds an address
follows by counting: clients and slots that have a group are fewer than the
addresses.

`TasksInv` adds the round between a launch and the end of the sync: a group
nobody uses is empty (`IdleInv`), the infos belong to the tasks of the round
(`RoundInv`), a task waits in one place at most (`WaitInv`, `JobInv`), it has
been run once if it neither waits nor is being run and else not at all
(`RunsInv`), and `unfinishedTaskCount` is the number of tasks that wait or have
been taken, less those the launch has not added yet (`CountInv`); it may thus
be negative for a moment.  Actions that touch none of this are treated together
(`Quiet`), the others one by one.  When `ISPCSync` finds the counter not
positive, nothing is pending and every task has run: each step is one of
`ForkJoin` or a stutter (`Implementation`).  `QueueInv` relates `inActiveList`
to the active list while nobody has raced with `reserve`.

`StopsOnlyForAReason` has the hypothesis `[]TakesWhatItRead`.  It is false with
three clients, which is the finding of `stale_group`.  For one or two clients,
as in the run `task_system`, and any number of slots it is a theorem
(`TwoClientsTakeWhatTheyRead`), and `TwoClientsStopForAReason` has no
hypothesis.  `SlotInv`: while one client is about to take what it has read, the
slot holds that, or it is empty.  The other client may have taken the group
(`HasTaken`).  A group is put into the first slot found empty, so it goes
back to the same slot, or to one before it.  In the latter case (`HasMoved`) the
other client finds slot 1 occupied whenever it begins a round and puts its
group back there at the end, so that it never fills the slot in question.

### LZSS

The theorems are about the whole program: any command lines, any number of
calls, any file decoded, and any match.  Three assumptions are stated in the
modules.  A string fits into the window (`LZSSAssumption`: 18 and 4096 in
`lzlocal.h`).  The token for a string has at least the bits of one byte, more
than what fills up the last byte of a file, and at most two bytes for each byte
of the string (`TokenAssumption`: 17 bits for three bytes or more).  Words are
sequences of characters, and NULL is none (`SessionAssumption`).

The windows (`SameWindows`).  `LookaheadInv`: the lookahead is the part of the
input that begins at `Consumed`, byte `p` at index `p % MAX_CODED`, and it is
full as long as the input has not ended: therefore the byte that is read into
the place of the one that leaves is the right one.  `EncoderInv`: the window is the history of
`Consumed` bytes also between two bytes of a token, and the token takes no more
bytes than the lookahead has.  `DecoderInv`: while a string is copied, the
window lags behind the output by the bytes copied so far (`Behind`), which are
in the lookahead; then it takes them over at once.  That this gives the
window of the longer text (`HistoryString`) needs the string to be no longer
than the window: then no two of its bytes have the same index, and each of
them is the last one with its index.  `FreshInv`: a call starts with
empty buffers and processes options only before it touches them.

The decoder may read any bytes, so the proof includes the bit file: every
function of it keeps the type of a stream, what it puts or gets is a byte, a
bit or a number of `count` bits (`GetBitsNumType`), and hence the length of a
string is at most that of the lookahead it is copied to.  The loops of
`bitfile.cpp` are folds; `LeftFoldExists` and `RightFoldExists` show that the
function a fold is defined by exists, `PrefixInduction` carries a bound along
it (`CharsPutFrom`, `BitsGotFrom` and their like: what the first turn finds and
each turn passes on holds in the end).

Losslessness (`TestIsLossless`) rests on the agreement of the windows and on
two facts about `bitfile.cpp`, for every size of a byte.  Putting: a stream
stands for the bits of its file and, behind them, those that wait in
`bitBuffer`; `PutBit`, `PutChar` and `PutBitsNum` append the bits of what they
put, also across the boundary of a byte, as long as there is room (`Puts`), and
`FlushOutput` adds fewer than `ByteBits` zeros (`FlushedFile`).  Getting: the
counterparts take the next bits and give the number they are the bits of, or
fail when there are too few (`Gets`, `GetNumGets`); a number is put together
again from its bytes and bits (`NumberOfBytes` and the lemmas around it).
`marks` holds the places where tokens end, as numbers of bits and of bytes; the
file is tiled by tokens (`Tiling`), and each of them (`Token`) is either the
flag and the byte, or the flag, an offset and a length such that the window has
the next bytes there.  `EncodedInv`: what has been put is such a tiling of what
has been consumed, in at most two bytes per byte.  `DecodedInv`: what has been
decoded is a prefix of the input, and the next token begins where the bit file
is; after the last one there are fewer bits than a token has, although they
look like the flag of a string, so that the decoder ends there.  `MatchInv`: a
match is a string of the window.  `InputInv` and `RestoredInv` relate this to
the files: the input is still on the disk, and the output is stored there.
`DecoderCopies`: each step of the decoder that changes the output is one of
`Lossless`.

The bit file by itself (`BitsComeBack`), for any sequence of calls, rests on
`Puts` and on what the functions that get bits leave (`GotTo`): the bits asked
for, or, if there are too few, a stream that has moved on within the file
(`Moved`), as the calls before the end of the file have taken their bits.
`UseInv` is the inductive invariant: while the stream is written there is room
for what it holds, and while it is read `bitBuffer` is the last byte that was
got, as long as bits of it wait.  Then `Contents` is the sequence of the bits
put (`PutQueueIs`) or of those left (`GetQueueIs`), and each call is a step of
`BitQueue`: putting appends (`QueuePut`), aligning and closing append the bits
that fill the last byte (`FlushQueue`), getting takes from the front
(`QueueTaken`, `QueueGot`).  An array or a number is any sequence of bits:
every one of them is the bits of some number (`NumberExists`), so that what is
proved for `BitFilePutBitsNum` and `BitFileGetBitsNum` serves the functions for
arrays, too (`PutBitsIsNum`, `ArrayBitsGot`).

The command line (`EndsAsAsked`).  `ScanInv`: the list has exactly the options
that the words before the current one contain by the reference definition, and
those of the current one up to `argIndex`; the current word is not an argument;
only when `GetOptList` has gone two words beyond does the last option lack its
argument.  `IsArgument` is defined by recursion over the words:
`RecursionOverWords` shows that the function exists, so that its equation can be
used (`ArgumentRule`).  `ChosenInv`: while `main` takes the options one by one,
those for help and the one without an argument are still to come, and the
latter is the last.  `WorkInv`: work is begun only if nothing was in the way.
The theorem has the hypothesis `NamesDiffer`: if the input does not exist and
has the name of the output, opening the latter makes it exist after the crash.

### LZSS matchers

The lists (`ListsHoldWindow`).  `Linked`: a list is followed by a sequence of
indices, whose last one has `NULL_INDEX` for the next.  `ChainsInv`: the
sequences of all keys have no index twice, and each has the indices of the
strings with its key.  A removal takes one index out of its sequence
(`RemovedIs`), an addition appends one (`AddedIs`); walking through a list gives
its sequence back (`ChainIs`).  `ReplaceChar` is two loops, and between them the
byte is stored: the first one has taken out all strings whose key may change,
the others keep theirs (`OthersKeepKey`), and the second one adds by the new
key.

The longest match (`LongestIsFound`).  brute.cpp, list.cpp and hash.cpp compare
with some of the strings, one after the other, and keep the better match
(`BestIs`).  A string that is in another list has no byte, or at most
`MAX_UNCODED` bytes, in common with the lookahead (`ListsAnswer`).
kmp.cpp: `FillInv` and `TableIs` say that the table has the longest border of
each part of the lookahead, `SearchInv` that no string that begins before the
present one agrees further than the match so far.  After a mismatch the search
skips strings: if one of them agreed up to there, what it agrees with would be a
longer border (`SearchStep`).  That the loops end follows from `2 * i - j` and
`2 * m + i`, which grow in every turn.

The tree (`TreeStaysSorted`).  `TreeInv` follows it with a set for each node,
the node and all nodes under it: `Nested` says that the set of a node is made of
those of its children, that the root's has all nodes, and that `parent` is the
converse of the children; `Sorted` that what is on the left of a node is before
it in the order of `CompareString`, and what is on the right is after it.  The
paths of the code are never followed: each operation is one lemma about its
assignments (`TakenOutIs`, `PromotedIs`, `AttachedIs`, `ReplacedIs`) and one
about the sets of the result (`OneTakenOut`, `OnePromoted`, `OneAttached`,
`OneRenamed`).  `TreeIsSearchTree` defines the nodes under a node level by
level; they are its set (`SubtreeIs`).
`Phase` has what the loops rest on.  `OutBefore` and `OutFrom` say which of the
strings that contain the replaced byte are out of the tree: all of them at the
moment when the byte is stored, so that no node's string changes.
`OnTheRight`: on its way to the rightmost descendant `RemoveString` leaves behind
only smaller strings, so that the promoted one is the greatest.  `BelongsHere`:
all that is above the node that `AddString` has reached compares with the new
string the way it went.  `Beaten`: no string outside of what is under the node
that `FindMatch` has reached has more bytes in common with the lookahead than
the match so far; if the first byte that differs sends the search to one side,
no string on the other agrees further (`OtherSide`).

### What is only model-checked

- Liveness (`Termination`, `ReachesEnd`, `SyncReturns`): the prover has neither
  fairness nor ENABLED.
- `CopiesFile` of `LZSSProgram` for a file that is decoded by a later call: with
  arbitrary command lines an input of that call may be a file that no encoder
  wrote, or that another call has overwritten, and the property is false; the
  run has the command lines for which it is meant.

Two hypotheses stay hypotheses, because they are false in general: `SameCut` of
the theorems about the parallel version, and `[]TakesWhatItRead` for three
clients or more.

## 6. What is not modelled

- Of `tasksys.cpp`: the ConcRT, GCD and Windows versions, which the Makefile
  does not choose; the memory that `ISPCAlloc` hands out, which is returned as
  it was; launches of no tasks, which would break an assertion of the list, if
  ispc emitted them; `sem_open`, whose failure the code tests against NULL
  instead of `SEM_FAILED`; the end of the process.
- `main` of `huffcode`: its options, the cache of the times of the sequential
  version (which with `-r` may be those of another file) and the statistics.
- Of `lzss`: the usage text and `FindFileName`, the freeing of the list of
  options, the comparison with `diff`, which `TestRestoresFile` stands for.
- Timers and messages: without effect on the data.
- `backup/` and results: an earlier copy and measurements.
- `malloc` and its failures, except where they end a function early; the file
  system, except that a file has an end and may be full.

## 7. Plan

Done, in this order: partition and histogram with proofs; codes; parallel
encoder, decoder and driver; header and sequential codec; bit file; LZSS;
matchers; the task system; the sequential version in the driver; the command
line of LZSS.

Next, models: `Histogram`'s result into `HuffmanCodes` into the codecs as one
composition, and the LZSS encoder together with a real matcher.

Next, proofs: `CopiesFile` of `LZSSProgram` over several calls, for command
lines that decode what an earlier one has encoded.
