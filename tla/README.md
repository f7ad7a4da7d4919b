# ByteSlice in TLA+

ByteSlice is a C++ library of columns for main-memory scans. A `Column` holds
fixed-width codes in blocks of `kNumTuplesPerBlock` tuples; a *ByteSlice* block
stores byte 0 of all its codes together, then byte 1, and so on, so that AVX2
registers compare 32 codes at a time, most significant byte first, and stop as
soon as no code can change the answer. The answers go to a `BitVector`, whose
set positions a `BitVectorIterator` gives one by one. OpenMP spreads the blocks
of a column, or of a vector, over a team of threads.

Paths below are relative to the repository (`src/column.cpp` is the column's code).

## 1. Inventory

| component | state | operations | what makes it correct |
|---|---|---|---|
| `types.h`, `macros.h`, `param.h` | none | `CEIL` | rounding, and what it makes of 0 in `size_t` |
| `avx-utility.h` | none | byte comparisons, masks, `FLIP` | the signed order of flipped bytes is the unsigned order |
| `ColumnBlock` (interface) | `num_tuples_` | `Scan`, `GetTuple`, `SetTuple`, `BulkLoadArray`, `Resize`, `SerToFile`, `DeserFromFile` | every layout gives the same answers |
| `ByteSliceColumnBlock` | `data_[4]`, `num_tuples_` | as above | a scan gives each tuple the verdict of its code, whatever slices early stop skips, and nothing else |
| `NaiveColumnBlock` | `data_`, `num_tuples_` | as above | the same, one code at a time |
| `BitVectorBlock` | `data_`, `num_`, `num_word_units_` | `And`, `Or`, `Set`, `SetOnes`, `SetZeros`, `CountOnes`, bits, words, `ClearTail` | no bit past `num_` stays set |
| `BitVector` | `blocks_`, `num_` | the same over all blocks, in parallel | to its caller, one set of bits and atomic operations |
| `BitVectorIterator` | a stack of positions, a cursor | `Next`, `GetPosition` | every set position once, in order |
| `Column` | `num_tuples_`, `blocks_` | `SetTuple`, `LoadTextFile`, `BulkLoadArray`, `Resize`, `Scan`, `SerToFile`, `DeserFromFile`, `Destroy` | the blocks' sizes are what the tuples ask for; tuples stay where they are |
| `Sequential{Read,Write}BinaryFile` | `file_` | `Open`, `Close`, `Read`, `Append`, `Flush` | a handle is used while open, and closed once |

**Interactions.** `Column` calls its blocks; `Column::Scan` gives each block the
block of the vector with the same number; a block's scan reads and writes whole
words of it and ends with `ClearTail`. `CountOnes` and the iterator count and
walk whole words, so they rest on `ClearTail` having been called. The column and
the vector made for it share nothing but the number of tuples, which only
assertions compare.

**What is hard.** (1) The scan: which lanes' masks mean something after how many
slices, under three ways to combine and six comparators, with whole registers
and words read past the last tuple. (2) The parallel loops: blocks claimed in
any order, counts added up. (3) Sizes: a `Resize` must leave blocks that every
later call can use, and the arithmetic is in `size_t`. (4) The iterator keeps
positions of a word it read earlier. (5) A vector outlives the size its column
had, and nothing but an assertion compares the two: scans of another size, by
either layout, and `And`/`Or` of two such vectors. (6) Serialisation looks at no
result of a write or a read: what a full disk, a short read or a file read too
early makes of a restored column. Nothing else is persisted and no messages are
exchanged: there is no crash recovery and no retry to model. `PROJECT.json`
lists each hazard with its line and properties.

## 2. Modules

| module | models | composed of |
|---|---|---|
| `Types` | `types.h`, `CEIL`, what a comparator and a `Bitwise` ask for | |
| `AvxUtility` | registers of bytes as functions, masks as sets of lanes | `Types` |
| `BitVectorBlock` | a block as the set of its positions that are 1, its operations as operators | `Types` |
| `ByteSliceColumnBlock` | the codec: `SetTuple`, `GetTuple`, a literal's slices | `AvxUtility`, `BitVectorBlock` |
| `BlockScan` | *abstract*: what `ColumnBlock::Scan` promises, word by word | `Types` |
| `ByteSliceScan` | both `ByteSliceColumnBlock::Scan`s as a state machine | the codec; refines `BlockScan` |
| `NaiveScan` | both `NaiveColumnBlock::Scan`s, tuple by tuple | `BitVectorBlock`; refines `BlockScan` |
| `BitVectorSpec` | *abstract*: a bit vector with atomic operations | `Types` |
| `BitVector` | the parallel operations, thread by thread and word by word | `BitVectorBlock`; refines `BitVectorSpec` |
| `BitVectorIterator` | `Next`, one action per turn of its loop | `BitVectorBlock` |
| `Column` | a column through any sequence of its calls | `Types` |
| `ScanSession` | a column, a second one and a vector through loads, resizings, scans and `And`/`Or`, release build | `Column`, `BitVectorBlock` |
| `SequentialBinaryFile` | the two file objects, and of stdio and the disk what they use | |
| `ColumnFile` | `SerToFile` by one program, `DeserFromFile` by another, one `Append` or `Read` a step | `SequentialBinaryFile` |
| `*_proofs` | theorems (section 5) | the module of their name |
| `MC*` | the small instances of section 3 | |

How state and actions correspond to the code:

- **ByteSliceScan.** The variables are the locals of `ScanHelper2` under their
  names (`offset`, `bv_word_id`, `bitvector_word`, `i`, `m_less`, `m_greater`,
  `m_equal`, `input_mask`), the block (`data_`), the operand (`other`: a second
  block, or the literal's slices repeated) and the vector's block (`bits`).
  `EnterWord` is the head of the loop over words, `BeginGroup` that over
  registers with the masks' initialisation, `ScanSlice` one `ScanKernel2` of the
  nested `if`s, whose conditions are `Continue`, `EndGroup` the result and its
  move mask, `StoreWord` the combination with the old word, `Finish` the
  `ClearTail`, which goes by the vector's own number of tuples (`vnum`): it may
  differ from the column's, since only assertions compare the two. Both storages
  are whole blocks, so the words a smaller vector does not use are written too;
  those a larger one has and the column has not stay as they were (`Visited`).
  The refinement is of the tuples that both blocks have (`Both`), and in a
  vector of the column's size of all that is in use. The two overloads have
  the same text but for three things, all
  kept: in the literal version `input_mask` is not initialised for `kSet` (any
  value here), `NEARLYSTOP` can disable early stop, and the literal is masked
  with `kCodeMask` where a stored value is not.
- **NaiveScan.** `EnterWord` is the head of the loop over words, `ScanTuple` a
  turn of the inner loop, whose condition and `break` are `InWord`, `StoreWord`
  the combination with the old word (not read for `kSet`), `Return` the end:
  there is no `ClearTail`. `data_` and `lit` are what the casts to `DTYPE` leave.
  The vector's block has a size of its own, `vnum`; when it is smaller, words it
  does not have in use are written all the same, its storage being whole.
- **BitVectorBlock.** Bit `b` of word `w` is position `w * kNumWordBits + b`.
  Words above `num_word_units_` are allocated and never initialised: the scans'
  modules start them with anything, `ScanSession` lets an `And` or `Or` that goes
  too far read anything there, the others, which read none, leave them out.
- **BitVector.** `Begin` opens a parallel loop, `Claim` and `Leave` are the
  dynamic schedule of the pragma, `LoadWord`, `StoreWord` and `EndBlock` the block
  operation inside, `Return` the barrier. A scan's answers are an argument
  (`ByteSliceScan` is where they come from), those for positions past the last
  tuple included. `memset` is modelled word by word.
- **BitVectorIterator.** `Next_Pop` is the decrement and the early return,
  `Next_Block` and `Next_SameBlock` the check of the cursor, `Next_Word` the
  reading of a word and the push of its positions, `Next_True` the return and the
  caller's `GetPosition`. `SetOrUnsetBit` is the caller between two calls.
- **Column.** A block is `[num, data]` with `data` always whole, as allocated.
  `status` says how the program ended: an assertion of the debug build, an
  access out of bounds, an allocation of 2^44 blocks. `BulkLoadArray` is one
  action per block; the other calls are one step. Here a scan goes to a vector
  made for the present number of tuples; `ScanSession` drops that.
- **ScanSession.** `LoadTextFile` and `Resize` are those of `Column`.
  `BlockScanned` is what a block's scan does to the vector's block in one step:
  for ByteSlice what `ResultCorrect` of `ByteSliceScan` says, with the lanes past
  the tuples compared as the storage holds them, for Naive what `NaiveLeaves`
  proves of `NaiveScan`. A vector keeps the number of tuples it was made for
  (`num_`). `ScanInto` is the loop over the
  column's blocks, which indexes the vector's (and the second column's) blocks
  without a look at their number. `AndOr` is the loop over the vector's own
  blocks against a vector made for the second column; words that other has
  allocated and never written hold anything (`rest`). `asked`, `covered` and
  `fits` are history: what the scans so far ask for, of which tuples, and
  whether all sizes agreed all along.
- **SequentialBinaryFile.** `file_` of each object is NULL, open or dangling: no
  `Close` sets it back to NULL. A call that gives stdio anything but an open
  `FILE` leaves it `undefined`. What is appended waits in the buffer of the
  `FILE` and reaches the disk in order, when stdio likes, or at a flush or a
  close. Each of these writes may stop half-way. What a failed `fclose` did not
  write is gone; C leaves open what a failed `fflush` or `fwrite` does with the
  rest, so it either waits on (`Given`) or is dropped (`Dropped`), which is what
  glibc, the library of the repository's `Dockerfile`, does: it resets the
  buffer whatever `write` returned, and the `fclose` that follows reports
  nothing. A read may come short. `said` keeps the results of `Open` and
  `Close`; those of `Append` and `Flush` are parameters (`n`, `ok`), the first
  dropped as its callers drop it.
- **ColumnFile.** A cell is what a write can stop behind; the cells of the saved
  column are the numbers of their places, so that the restored column shows
  where each came from. `Start`, `Size` and `Part` are the order in which both
  functions go through `num_tuples_` and the slices of each block. Reader and
  writer take steps in any order: a file may be read before it is flushed.
  `lost` is history: which appends, flushes, closes or reads failed, came short
  or, of a read, too early.

## 3. Runs

| run | instance | question | result |
|---|---|---|---|
| `scan` | 2-bit bytes, 3-bit codes in 2 bytes, 2 lanes, 2 registers a word, 2 words a block; column and vector of 3, 5 or 8 tuples each; literals and blocks, all comparators and `Bitwise` | do the two scans give the verdict of the codes, is early stop sound, do the accesses stay in bounds, do they implement `BlockScan`? | holds |
| `scan_slices` | 1-bit bytes, 3-bit codes in 3 bytes, 4 lanes, a word a register of either kind; 3, 6 or 8 tuples each; `NEARLYSTOP` | the first two questions with a slice that is neither the first nor the last, and without early stop for literals | holds |
| `naive` | words of 2 bits, registers of 4, 3-bit codes in a `DTYPE` of 4 bits; column and vector of 1, 3, 5 or 8 tuples each | does the naive scan give the answers of the ByteSlice one, what does it leave past the tuples, does it implement `BlockScan`? | holds |
| `bitvector` | 9 tuples in blocks of 4 (4, 4 and 1), words of 2 bits, registers of 4; 2 threads; every operation | do the interleavings have the effect of the atomic operation? | holds |
| `column` | blocks of 2, at most 5 tuples, 2 codes; `NDEBUG` | which calls keep the blocks fit, and what holds in any case? | holds |
| `column_shrink` | the same with assertions | does `Resize`'s own assertion (`src/column.cpp:97`) hold? | **violated** |
| `column_last` | the same | is the size of the last block corrected (`src/column.cpp:90`)? | **violated** |
| `iterator` | every vector of 9 tuples in blocks of 4; 3 tuples whose bit may change | does a loop on `Next` give the set positions in order and end? | holds |
| `iterator_exhausted` | the same, `Next` called again after `false` | does `Next` return true only if there is a next (`src/bitvector_iterator.h:27`)? | **violated** |
| `session` | at most 6 tuples in blocks of 4, words and registers of 2 bits, both layouts, a second column of 3 or 6 tuples; `NDEBUG` | what does a query of several scans answer when sizes change between them? | holds |
| `file` | columns of 0 to 2 blocks, one slice of 2 cells a block | what does a restored column hold after short writes, failed flushes, short reads and early reads, and when is a saved file whole? | holds |
| `file_reopen` | the same | is a file open when `Open` says it is (`src/sequential_binary_file.cpp:20`)? | **violated** |

**Why the bounds are enough.** The scan's loops are over words, registers and
slices: two of each show the first, the last and the passage between them, and
the proofs of section 5 hold for any number. 3 tuples end in the first word (a
register is read past them, a word of the last register is never visited), 5 in
the second, 8 at the end of the block; the vector's size is below, at and above
the column's, ends in the word the column's ends in, in the one before and in the
one after. The old bits are some or all of its tuples', and in `scan_slices`,
where a register of bits is one word, also of a word it does not use. The three code arrays make codes that
agree and differ with the operand in either slice, equal lanes next to unequal
ones, and a code with more than `BIT_WIDTH` bits. `scan_slices` gives every code
at distances 0, 4 and others, so that any of the three slices may decide. The
naive scan's sizes end in the middle of a word, of a register and at a block's
end, for the vector below, at and above the column's, and 21 and 9 do and do not
outgrow a `DTYPE`. Three blocks and two threads
let a thread take two blocks while the other has one, both orders of leaving,
and a last block of which a register is nearly empty. In the column, 5 tuples
over blocks of 2 give one, two and three blocks, full and not, and an array that
spans three. In the session, 6 tuples over blocks of 4 give last blocks of 1 to
4, and a vector may be one block short, longer or shorter in its last block; two
comparators with one literal give both answers for every tuple. Two blocks of a
column and two cells of a slice let a write or a read stop within a slice and
between two, so that a `num_tuples_` is made of a slice and a slice of a
`num_tuples_`. In the iterator, words of zeros, a block of zeros, the last block
of one tuple, and both bits of a word changed while on the stack all occur.
`SizeRange`, the modulus of `size_t`, is small but larger than any size asked
for, so that a wrap-around shows and nothing else does. `MaxTuples` (column)
and the guard on `seen` in `Next_Pop` bound the models.

**Deadlock** is checked where the system never stops (`bitvector`). A scan ends,
an iteration ends, a save and a restore end, and a column or a file object whose
program has failed does nothing more.

**Fairness.** A scan, of either layout, is one thread that is never blocked:
`WF(Next)`. Sessions and files have safety properties only: their caller may stop. In the
vector the operating system runs every thread of a team (`WF` of each thread's
`Work`) and the caller's return from the barrier; the caller need not begin
anything. A bulk load goes on once begun. The caller of an iterator is the loop
`while (it.Next())` of the tests and the example: `WF(Call)`.

**The properties.** Beyond one type invariant per module:

- `ResultCorrect`, `EarlyStopSound`, `AccessesInBounds`, `ImplementsBlockScan`
  for the scan, and `IInv`, the inductive invariant that the proof rests on.
- `LayoutsAgree` (values of `BIT_WIDTH` bits get the answer ByteSlice gives),
  `TailAsFound` (past the tuples only `kOr` and unvisited words keep what was
  there, nothing is set) and `ImplementsBlockScan` for the naive scan.
- `TailsClean` (no bit past the tuples between two operations), `BlocksOnce` and
  `BlocksOwned` (each block goes from the old bits to the new once, by one
  thread), `ImplementsBitVectorSpec`, `CallsReturn`.
- `LayoutKept` (which calls make the blocks unfit for the tuples: exactly two
  kinds of `Resize`, restoring another shape, `Destroy`), `ResizeKeepsTuples`,
  `HealthyCallsReturn`, `BulkLoadExact`, `ScanComplete`, `LoadEnds`.
- `QueryExact` (while sizes agree, count and bits are what the scans asked for),
  `StaleVectorExact` (a vector of another size is exact for the tuples both have
  had throughout, after scans and `And`/`Or` alike), `TailsDirtied` (only a naive
  scan of a column that has outgrown the vector sets bits past its tuples),
  `LostTuplesAnswer` (tuples that a `Resize` took away are answered for only in
  the last word of a ByteSlice block).
- `RestoreExact` (without a mishap, a failed flush being one, every cell comes
  back to its place, and what the file does not reach keeps what it held),
  `OrderKept` (whatever is lost, nothing is reordered or read twice),
  `ClosedWhole` (a `Close` that returns true means that the file is whole if
  every append came whole and no flush failed before it; its own result does not
  tell of either).
- `SeenAscending`, `SeenExactly`, `StaleWithinWord` (a position whose bit was
  unset is given only from the word being worked through), `IterationEnds`.

Operators named after the one they precede, with a suffix (`Continue_IgnoresOpt`,
`Claim_NotExclusive`), are plausible mistakes in that piece of code: with one in
its place the property it is paired with in `PROJECT.json` is violated.

## 4. What was found

1. `Resize` to fewer blocks stops one short (`bid > new_num_blocks`,
   `src/column.cpp:85`): the assertion at line 97 fails in the debug build; in
   the release build the extra block stays and the next scan indexes past the
   vector's blocks.
2. `Resize` within the same number of blocks to a multiple of
   `kNumTuplesPerBlock` leaves the last block's size as it was
   (`src/column.cpp:93`), against the comment of lines 90-91.
3. `BitVectorIterator::Next` returns true after it has returned false:
   `stack_top_` wraps (`src/bitvector_iterator.h:48`).
4. A file object opens one file in its life: `Close` does not reset `file_`
   (`src/sequential_binary_file.cpp:37`), so that `Open` then says "Already
   opened file" of no open file, and a second `Close` closes the `FILE` twice.

A save can lose cells though its `Close` returns true. A `Flush` that fails
(`src/sequential_binary_file.cpp:86`), on a disk that is full for a while, drops
with glibc what waited in the buffer, cells of `Append`s that had returned their
whole size; `fclose` (line 73) then finds an empty buffer and returns 0 over a
file that ends early. An `Append` that comes short may drop what waited too, and
the appends that follow go on where it should be: a restore takes them for it, a
`num_tuples_` made of a slice included, and `OrderKept` is all that is left;
`SerToFile` does not look at the result. No comment, test or assertion of the
repository promises otherwise, so no run states this as a violation:
`ClosedWhole` says which results a caller must have looked at, and
`Flush_SaysTrue`, a `Flush` that does not pass on the result of `fflush`, is the
mutant under which TLC shows the file that lacks its end.

Two more are in the model as calls that end the program, and
`HealthyCallsReturn` names them: `Resize` of a column without blocks reads
`blocks_[-1]`, and `Resize(0)` asks for 2^44 blocks because `CEIL(0, n)` wraps.

## 5. Proofs

All constants are arbitrary, under the assumptions named in the modules: a word
is a whole number of registers' lanes, a register of bits a whole number of
words, a block a whole number of registers of bits; padding is less than a byte;
1 to 4 bytes a code; a team has a thread at least; no size asked for wraps in
`size_t`, but the blocks that `CEIL` makes of 0 are more than can be allocated;
the values that stand for "no call" and "no load" are no call and no load. TLC
evaluates the assumptions in the runs. Every invariant and every action property
that a passing run checks is proved.

- **Codec** (`ByteSliceScan_proofs`). `SliceOrder`: comparing two tuples'
  slices from the most significant, as signed bytes, orders their codes. The
  argument: the number made of the first `k` bytes (`Prefix`) grows by a Horner
  step per slice, an order of Horner sums is lexicographic, and `FLIP` turns the
  signed order of bytes into the unsigned one. `CodecHolds`: stored values and
  masked literals have the slices of the same padded code. `RoundTrip`:
  `GetTuple` gives back what `SetTuple` was given, modulo `2^BIT_WIDTH`.
- **Tail** (`BitVectorBlock_proofs`). `ClearTailExact`: `ClearTail` removes the
  positions from `num` on and no other, for every `num`.
- **Scan** (`ByteSliceScan_proofs`). `ResultCorrect` is not inductive: it says
  nothing before the end. `IInv` adds, for each lane, what `m_less`,
  `m_greater`, `m_equal` mean after `byte_id` slices (`MasksOK`; `m_equal` only
  where `NeedsEqual` kept it up), that `input_mask` is the set of lanes whose bit
  can change (`InputMaskOK`), which bits of the word are gathered (`WordOK`) and
  which words are stored (`BitsOK`), and the loops' bounds (`LoopsOK`).
  `Invariance` proves it by one lemma per action; the hard step is `EndGroup`,
  where a lane left undecided by an early stop must be irrelevant and a decided
  one must agree with the codes, by `SliceOrder`. `TypeCorrect`, `ScanCorrect`,
  `EarlyStop` and `InBounds` follow. The vector's block has any size: the
  `ClearTail` of `Finish` is then `ClearTailExact` on the words in use and leaves
  the others (`FinishBits`), and `VisitedIsOffset` shows that the words before
  the last `offset` are those with a tuple (`WordsVisited`, where `CEIL` does not
  wrap). `Refinement` shows that each step is one of `BlockScan` on the tuples
  of both blocks or changes nothing it sees: a word that starts before the last
  common one ends has a common tuple (`BothCursor`), a later one is a stutter.
- **Naive scan** (`NaiveScan_proofs`). `LayoutsAgree` and `TailAsFound` speak of
  the end. `NaiveInv` adds which answers the word under way holds (`WordOK`),
  that a stored word is what `bit_opt` makes of its old bits and its answers,
  none past the tuples, and any other word as it was (`BitsOK`), and where the
  loops are (`LoopsOK`). `StoreOnly` says that storing a word changes no other;
  `VisitedIsOffset` that the loop ends at the first word without a tuple.
  `NaiveInvariance`, then `NaiveTypeCorrect`, `NaiveAgrees`, `NaiveTail` and
  `NaiveLeaves` (every position of the vector's block, whatever its size); `NaiveRefinement` uses that in a vector of the column's size no
  bit past the tuples is ever set (`SeenIsTuples`). The two refinements
  together: for their callers both layouts do what `BlockScan` says.
- **Bit vector** (`BitVector_proofs`). `TailsClean` and `BlocksOnce` speak of
  blocks between operations or between claims. `VectorInv` adds where the loop and
  its threads are (`LoopOK`), that during an operation no bit lies past the words
  in use and that the two operations without a `ClearTail` find the tail clean
  (`StorageOK`), and of `CountOnes` (`CountOK`) that the threads' private counts
  are the cardinalities of disjoint sets of tuples which together are the set
  bits of the words read so far, and the total is that of the threads that have
  left: a count lost or added twice at the reduction would break it. The shares
  are not in the state, so they are an existential of the invariant, with one
  witness built per step (`SharesKept`, and the steps of a claim, a word and a
  leave). `VectorInvariance`, then the four invariants; `BitVectorRefinement`
  shows that `Return` is the atomic operation and every other step a stutter, for
  any number of threads, blocks and words.
- **Iterator** (`BitVectorIterator_proofs`), under `StopAtEnd`, which says that
  the caller does not call `Next` again after `false`, as the loops of the
  tests and the example do not; without it `TrueMeansNext` shows what goes
  wrong. `SeenExactly` holds between two calls only. `IterInv` adds where the
  cursor is in each place of the code (`PlaceOK`), that the stack descends within
  one word already read, with the position given last on top of those that wait
  (`StackOK`), that what was given lies below the cursor and below what waits
  (`SeenOK`), and that every tuple read and not touched is set exactly if it was
  given or waits (`AccountOK`). The loop that pushes a word's positions is a
  recursive function, turn by turn; what it makes of every word
  (`PushedPositions`) is proved from a least turn that would be the first to go
  wrong (`LeastNatural`, by the well-foundedness of the naturals).
  `StaleWithinWord`, an action property, follows from the same invariant.
- **Column** (`Column_proofs`). `SizesShape` and `LayoutShape` turn the sequence
  of sizes that tuples ask for into a number of blocks and a size for each;
  `BlocksAskedFor` shows that `CEIL` computes that number from 1 tuple on;
  `ResizedShape` gives the number, the data and the sizes of the blocks that
  `Resize` leaves, whatever it found. From these `ResizeFits` (which resizings
  keep the layout, exactly) and `ResizeKeeps`. `ColumnInv` has the two facts that
  one step does not show: a column that is not destroyed has at least the blocks
  its tuples ask for (`EnoughBlocks`, without which `ResizeKeepsTuples` would fail
  on tuples in no block), and a bulk load on blocks that fit has stored exactly
  what it has done and goes on where that ends (`LoadOK`, from which
  `BulkLoadExact` and the load's part of `HealthyCallsReturn`). `LayoutKept`,
  `ResizeKeepsTuples`, `HealthyCallsReturn`, `ScanComplete` and `BulkLoadExact`
  hold for both builds, all block and word sizes and all arrays.
- **Files** (`ColumnFile_proofs`). `FileInv` follows the cells: those of the file
  and then the buffer ascend, are cells of the parts appended, and are all of
  them unless an `Append`, a `Flush` or the `Close` failed (`StreamOK`): a write
  that fails cuts the stream behind some cell, whether the rest waits or is
  dropped (`GivenCells`, `CutCells`), and what is appended later ascends all the
  same. A restored cell
  comes from what the reader's cursor has passed, and while nothing is lost cursor
  and parts go together (`RestoredOK`). `FileInvariance`, then `FileRestoreExact`,
  `FileOrderKept` and `FileClosedWhole`, for any number of blocks, slices a code
  has and cells a slice has.

- **Session** (`ScanSession_proofs`), on the lemmas of `Column_proofs` and
  `ClearTailExact`. Three things make `StaleVectorExact` inductive. The sizes of
  column and vector are those that their numbers of tuples ask for, or what
  `Resize` makes of them (`ColumnInv`, `SessionTypeOK`), and a column never has
  more blocks than the most tuples ask for (`BlocksBounded`): so a tuple that
  both have has the same place in both, whatever their sizes (`HeldPlace`,
  `HeldExact`). And while the sizes have agreed all along (`fits`), no bit is set
  past the tuples and every tuple of the vector has been the column's (`FitsOK`).
  `BlockAnswered` says what a scan leaves of one block of any two sizes,
  `BlocksCombined` the same of `And` and `Or` with a block that may have words
  never written; `TupleScanned`, `LostTupleScanned` and `VectorCombined` carry
  both to the vector. `SessionInvariance`, then `SessionTypeCorrect` and
  `SessionStaleVectorExact`; `SessionTailsDirtied` and `SessionLostTuplesAnswer`
  are steps from the invariant. `SessionQueryExact` also counts: the loop of
  `CountOnes` is a recursive function, and that it has the values it should
  (`CountLoopExact`) is shown without induction over data: the cardinalities of
  the bits below each block satisfy its equation, and any function that does
  agrees with them, or there would be a least block where it does not. The
  bits set are then the tuples asked for (`SetAreTuples`).
- **From a block's scan to the session.** `ScanCorrect` and `NaiveLeaves` state,
  for blocks and vectors of any sizes, what `BlockScanned` takes for one step,
  position by position; `BlockScannedExact` that with equal sizes and a clean
  tail it is what `BlockScan` promises.

**Only model-checked**: liveness (`CallsReturn`, `LoadEnds`, `IterationEnds`, and
that a scan or an operation ends, the fairness part of the refinements), which
the prover does not treat; and the four runs that show a violation, which are
counterexamples. `BlockScanned` repeats the outcome of the detailed scans and is
not tied to them by a refinement: that its definition and those theorems say the
same is for the reader to see.

## 6. Not modelled

- `PadLeft` blocks, which `CreateNewBlock` never makes; `ScanKernel`,
  `BitVectorBlock::Set`, the AVX accessors of both kinds of block and `IsEnd`,
  which nothing calls; the 16-, 32- and 64-bit registers of `avx-utility.h`.
- What a file held before the writer truncated it; a reader that goes on after
  the writer has truncated; a column restored by a program of another build.
- A column of a type that does not exist or of a bit width outside 1 to 32, of
  which `CreateNewBlock` makes no block but ends the program (an assertion or
  `exit(1)`, `src/column.cpp:158-162` and `244-246`): type and width are given
  once, to the constructor.
- An empty vector's iterator, which is undefined from its constructor on.
- Prefetching, debug printing (`types.cpp`), memory allocation, wording of errors.
- Threads that share a column with others than the team of a call, which the
  library does not support.
- The example, the tests and the build files, which are not the library.

## 7. Plan

The parts of the library that keep state are modelled, and the safety of all of
them is proved; liveness stays with TLC. If the code changes, the places to go
on from are those of section 6: an iterator over an empty vector once its
constructor looks at the number of blocks, `PadLeft` once `CreateNewBlock` makes
such blocks, and `Resize` once its loop and its last block are corrected (the
violation runs then become passing ones, and `LayoutKept` names fewer calls).
