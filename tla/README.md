# lean_string: specification, model checking and proofs

`lean_string` is a Rust crate with two string types of two machine words:
`LeanString` (growable) and `LeanStr` (immutable). A short text lives inside the
two words (inline), a `&'static str` is kept as a reference (static), everything
else is in a reference-counted heap buffer that clones share and that is copied
when one of them is modified. The code is small, `unsafe` throughout, and its
hard parts are those a test reaches only by luck: the interleavings of clones,
drops and in-place writes of several threads; allocations that fail half way
through an operation; and buffers whose header, length word and allocation
layout change as they grow, shrink and are converted.

All paths below are relative to the repository (`src/...`).

## The system

| Component | State | Operations | Hard because |
|---|---|---|---|
| Heap buffer (`src/repr/heap_buffer.rs`) | count, capacity (growable header only), optional length word, bytes; length field in the handle | allocate, realloc, `into_exact`, `into_growable`, `set_len`, `is_unique`, `release` | atomics with Relaxed/Acquire/Release; layouts recomputed from other data at dealloc; realloc may fail after bytes have moved |
| Representation (`src/repr.rs`) | one of inline, static, heap | every edit of a text, share, replace, conversions | tests of uniqueness and the acts that rely on them are separate steps; every allocation may fail |
| Static buffer (`src/repr/static_buffer.rs`) | pointer, length | new, `set_len` | length limit |
| Inline buffer and last byte (`inline_buffer.rs`, `last_byte.rs`) | 2 words | new, `from_char`, `set_len` | the length shares a byte with the text, the tag with a length; byte order and width of the target |
| Public API (`src/lib.rs`) | a representation | the methods of `LeanString` and `LeanStr` and their `try_` forms, `Clone`, `Drop`, conversions, iterators | multi-step methods (`split_off`, `try_into_lean_str`) that fail in the middle |
| Case mapping (`src/case.rs`) | none | search for the first change | chunked search over bytes of multi-byte characters |
| Number formatting (`src/repr/num_to_repr.rs`) | a buffer being filled | digit count, digits | the size comes from a table, the bytes from a loop; nothing compares them |
| `ToLeanString`, `ToLeanStr` (`src/traits.rs`) | a writer with its first error | conversion from `Display` | error kept across writes; the caller's code runs in between |
| serde, arbitrary (`src/features`) , errors (`src/errors`) | none | glue | |

Components interact by calls only, and threads only through the heap buffers that
their handles share. There is no persistence, no message and no timeout.

Correctness means: every handle behaves as a string value of its own (whatever
it shares); the count of a buffer is the number of references to it; a buffer is
freed exactly once, after the last use, with the layout it was allocated with;
no write in place while another reference exists; no data race; a failed call
changes nothing; a text is always initialized, valid UTF-8 inside its block.

## The modules

The project has two halves and a ground floor. The *concurrent* half keeps every
atomic step of the sharing protocol and reduces texts to opaque values. The
*sequential* half keeps texts, lengths, capacities and layouts, and makes each call
one step. They meet in the representation: what the first treats as "a copy" or "a
realloc" the second spells out, and what the second does at once the first takes
apart. The *byte level* goes below the second: what it takes for granted of a handle,
of a block and of a formatted number is there made of bytes.

    StringValues          StringApi                     abstract: texts only
         ^                    ^
         | IndependentValues  | ImplementsApi
    SharedBuffer        LeanStrings <-- Builders        the program
                         Repr, HeapBuffer, CaseMap, Utf8
                              ^
                              | ImplementsHeapBuffer
                        BlockMoves   HandleBits   NumToRepr   bytes

### Concurrent half

`SharedBuffer` — threads own handles, send them (`Send`), lend them (`Sync`),
read, clone, assign, drop and modify them. A step is one atomic operation on a
count or one access to the bytes behind it. An operation on a heap buffer goes
through the points `check` (the load of `is_unique`), `recheck` (the second load,
in `reallocate`), `toInline`/`toHeap` (the copy), `share` (the clone
`make_ascii_case` makes of itself), `resize`/`into` (realloc in place), `write`,
`release` (`fetch_sub`) and `free` (fence and dealloc), in the orders the code
has them; the allocator may fail at each allocation. The operations are grouped by
the path they take: `push` stands for `push_str`, `push`, `insert`, `insert_str`
and `extend_from_within`, `edit` for `remove` and `retain`, `truncate` also for
`pop`, `convert` for the two conversions.

Memory orderings. The model is not sequentially consistent: `unk[t]` is the set of
past events (accesses to a buffer, older values of a count) that do not happen
before thread `t`'s next step. A load may return any older count that is still
unknown to the loader; a `Relaxed` read-modify-write reads the latest
count and passes nothing on; `Release` makes what the thread knows part of what
the count carries; `Acquire` of a count removes what it carries from `unk`. Only
edges that Rust guarantees are credited: a count is taken to carry knowledge of
its own buffer alone. A data race is then a thread that
writes, reallocates or frees while an access to the buffer is unknown to it, or
that may read while a write is unknown to it.

`StringValues` — the abstract specification: handles with an owner and a text. A turn of
a thread creates, changes, sends away or drops one handle, its own, or clones one that it
may read. `SharedBuffer` relates its steps to it thread by thread: a step of `t` has to be
a turn of `t`, and a step of `Clone::clone` has to be `Clone`.

`SharedBufferInv` — the inductive invariant. `SharedBufferProofs` — the proof that it is
one; `SharedValuesProofs` — the bound of the count, the refinement of `StringValues`, and
when texts change.
`MCSharedBuffer` — the instance for TLC.

### Sequential half

`Utf8` — texts as sequences of bytes over two ASCII letters and four two-byte
characters (enough to tell boundaries, case and multi-byte moves apart); what
`ptr::copy` does; `uninit` for bytes no length covers.

`HeapBuffer` — blocks with their header type, count, allocated size, length
word and bytes, and the operations of `heap_buffer.rs`. An operation maps a handle
and a heap to the *set* of its outcomes: `ok`, `err` (memory or size), `panic`,
or `ub`, a broken safety contract (a `debug_assert!`, an `unreachable_unchecked`,
a dealloc or realloc with a layout the allocator was not given).

`Repr` — an operator for each method of `repr.rs`, under its name.

`LeanStrings` — a single-threaded program that calls the API in any order: one
action per method of `lib.rs`, with multi-step methods (`try_split_off`,
`clone_from`, `try_into_lean_str`) made of the steps of the code, drops of
temporaries included. The variable `io` records the last call and how it ended.

`StringApi` — the abstract specification: what each call does to the texts, and
nothing else. `MCLeanStrings` — arguments and symmetry for TLC.

`CaseMap` — the searches of `case.rs` for the first character a case mapping
changes, chunk by chunk and then byte by byte or character by character, as
`Repr` and `LeanStrings` use them in `to_case`, `to_ascii_case` and
`make_ascii_case`. The Unicode tables are the standard library's: `Utf8` has one
character whose upper case is longer than itself, and the three sigmas, of which the
capital one has a lower case that depends on its neighbours.

`Builders` — texts made piece by piece while code of the caller runs: `Extend` and
`FromIterator` (a size hint that may be wrong, pieces that are characters, `&str` or
owned strings), the `Display` fallback of `ToLeanString` and `ToLeanStr` with its
writer, and decoding of UTF-8 and UTF-16. It extends `LeanStrings`: between two
pieces the caller may call any method on a handle the builder has not
borrowed (it may hold clones of the text under construction), panic, or go on writing
after a write failed. `job` holds the builder's progress and, as `asked`, the pieces it
was handed. The same `StringApi` is implemented; `MCBuilders` instantiates it.

`ReprInv` — what is true of handles and blocks between two calls (`Sound`) and what one
call may do to them (`Trade`). `TextProofs` — lemmas about texts: characters, boundaries,
moves, the searches of `CaseMap`. `ReprProofs` — what each method of `HeapBuffer` and
`Repr` does. `LeanStringsProofs` — the theorems on `LeanStrings` and `Builders`.

### Byte level

`HandleBits` — the two words of one handle, byte by byte in memory order, on each of
the four targets (32 or 64 bits, little or big endian). It has the arms of
`InlineBuffer::new` (two words put together from overlapping loads on 64-bit little
endian, copies from both ends elsewhere), `from_char`, the branch-free `len`, the tags of
static and heap lengths, and the `ON_THE_HEAP` pattern of 32 bits. A `usize` is the
sequence of its bytes, so lengths around 2^24, 2^31 and 2^56 are ordinary values. `shows`
is what the handle was last made to stand for.

`BlockMoves` — the bytes of one block: length word, count, capacity and text at their
offsets, through `new`, `with_capacity`, `realloc`, `into_exact` and `into_growable`
with their overlapping `ptr::copy` and, when the allocator refuses, the restoration.
A byte is a letter, a numbered part of a word, or unwritten; a write outside the
block adds to its domain and is caught. It shares the layout arithmetic of `HeapBuffer` and
is shown to implement the outcomes that module promises, so the sequential half rests
on them.

`NumToRepr` — `digit_count` and the loop that writes digits backwards, one step per
statement group. A magnitude is a sequence of limbs in base 10000, which is what the loop
takes off at each turn. `Ends` has the ends of the arms of the `match` tables as they are
written in the code; the eight tables differ in how many of them they use. A negative
integer goes through the cast to `$u`, whose width is `NarrowU` for the narrow types, as a
complement, and is complemented again.

`HandleBitsProofs`, `BlockMovesProofs` and `NumToReprProofs` — the proofs of the three.

The panicking form of a method is its `try_` form with an error turned into a
panic at the very end, so the models have the `try_` forms only.

## What is checked

| Run | Bounds | Shows |
|---|---|---|
| `shared_safety` | 2 threads, 2 handles, 2 buffers, 1 text, all operations | `TypeOK`, `RefCount`, `NoDangling`, `NoLeak`, `UniqueIsUnique`, `NoDataRace` |
| `shared_limit` | 2 threads, 3 handles, 1 buffer, limit 1 | `CountBounded`: the overflow panic of `make_shallow_clone` keeps the count near the limit |
| `shared_refinement` | 2 threads, 2 handles, 2 buffers, 2 texts ; push, `make_ascii_*`, truncate and clear besides clone, assignment and drop | `IndependentValues`: copy on write implements `StringValues`, thread by thread; `EditsOnlyWhenDue` |
| `shared_liveness` | 2 threads, 2 handles, 2 buffers; push and conversions | `Reclaimed`: unreferenced buffers are eventually freed |
| `lean_grow` | 2 handles, 3 blocks, texts up to 6 bytes, word size 1, handle lengths up to 3, capacities up to 8 | growth, sharing and conversion where lengths move to the heap (32 bits): all properties below |
| `lean_edit` | same sizes, texts up to 4 bytes | insert, remove, pop, truncate, clear, retain, `split_off`, case mapping, `write_fmt`, `to_lean_str` and `to_lean_string`, repeat |
| `lean_splice` | same sizes, texts up to 5 bytes | `replace_range` and `extend_from_within` with every kind of bound |
| `lean_wide` | handle lengths = capacities up to 5, layouts unlimited | growth where the handle stores every length (64 bits) |
| `builders` | 2 handles, 3 blocks, texts up to 4 bytes, hints 0 and 3 | `BuiltFromPieces`, `FormatReports`, and the sequential properties during builds and Unicode case mapping |
| `handle_bits` | 4 targets, 10 characters, 8 lengths, 2 addresses | `TypeOK`, `Decodes`, `NicheUnused` |
| `block_moves` | words of 2 bytes, texts up to 17 bytes, capacities up to 19, handle lengths up to 5 | `WellFormed`, `ImplementsHeapBuffer` |
| `numbers` | all 8- and 16-bit integers, sampled 32- and 64-bit ones | `BackwardsFill`, `WritesDecimal` |

Properties of the shared runs. `shared_safety` has the type, the exactness of counts, use
after free and leaks, what a thread may rely on once `is_unique` said yes, and the absence of
data races. Those of `shared_refinement` are about what the handles' users see:

* `IndependentValues` — a step of a thread leaves the texts of all handles it does not own
  alone and changes at most one of its own; a clone has the text of its source when it is
  made, also if the source was truncated in place and its buffer holds more;
* `EditsOnlyWhenDue` — between the steps of an operation its handle keeps its text until the
  write, whatever copies, reallocs and failed allocations come before, also if the
  other sharers leave between the two looks at the count; `clone_from` ends with the text of
  its source, `clear`, `truncate` and drop with none.

Properties of the sequential runs:

* `BlocksCounted` — after every call each block is counted once per handle, and
  blocks nobody holds are gone;
* `TextsReadable` — the bytes a handle shows are initialized, within the block, UTF-8;
* `LayoutsAgree` — each sharer computes the layout and the place of the length
  word with which the block was allocated;
* `ImplementsApi` — every call is a step of `StringApi`, so no call ends in `ub`,
  changes another handle's text, or does something else to its own;
* `FailureChangesNothing` — an error leaves handles, sharing and heap as they were;
* `IdleCallsKeepSharing` — a call with nothing to do does not copy a shared text;
* `ReservedRoomIsOwn` — after `reserve(n)` there is room for `n` bytes in an
  unshared buffer;
* `OthersKeepCapacity` — a call leaves representation and capacity of the handles
  it is not given alone.

Properties of the builders:

* `BuiltFromPieces` — whatever the caller does in between, the text under construction
  is exactly the pieces handed over, and after a failed write there is none;
* `FormatReports` — a conversion succeeds only if every write did, and then returns
  all of them; otherwise nothing is left behind.

Properties at the byte level:

* `Decodes` — a handle reads back as what it was made to be: kind, and text or pointer
  and length. A full inline text, whose last byte is text, is never mistaken for a
  length or a marker;
* `NicheUnused` — the last byte is always a value of the enum `LastByte`, so
  `Option<LeanString>` can be as small as `LeanString`;
* `WellFormed` — nothing is written outside the block, the address and the layout the
  handle computes are those of the allocation, and the text is written throughout;
* `ImplementsHeapBuffer` — each operation on the bytes, failed ones included, has an
  outcome `HeapBuffer` allows;
* `BackwardsFill` — at each step there is room in front of `curr` for exactly the digits
  and the sign that are left (the `SAFETY` comment of `into_repr`);
* `WritesDecimal` — the finished buffer is the decimal text, with no byte unwritten.

Each property of each run has a mutant in `PROJECT.json`: a plausible mistake in one
operation that makes the property fail.

Why the bounds are enough. Two threads with two handles reach every pair of
concurrent steps on a buffer, including a handle that is lent while its owner
clones it, and a copy that is made while the other sharer leaves; the theorems
below hold for all sizes. In the sequential runs a word is one byte, so an inline text
has at most 2 bytes, a length above 3 no longer fits into the handle, and 8 is the
largest layout: texts of up to 6 bytes cross each of these limits in
both directions, and arguments include 0 and `usize::MAX`. Three blocks are one more than two
handles hold, the room for a copy; with all blocks in use allocation fails, as it may
at any time. The predicates of `retain` in `lean_edit` (`EditPredicates`) are closures with a
state of their own: every sequence of answers on a text of up to 4 characters, and a
panic at the second call, at the third, or at none.

In `builders` a text of 4 bytes passes from inline (2) through the heap (3) to a length
word (4), and one handle is left to the caller, who can share the text under
construction before an extension starts. In `handle_bits` characters are from both ends of
each encoded length; inline texts are edited with a one-byte and a two-byte one
(`Edited`), which fill the handle in every way, and the run cuts them only when nothing is left
behind the text from an earlier cut (its action constraint `OneCut`; the module has no such
guard); without these two bounds the dead bytes multiply the
states and are read by nothing. In `block_moves` a word is 2 bytes, so that a length word, a count and
a capacity have a first and a last byte and moves of the text by one header overlap; 17 bytes
are more than four handles, the largest text copied by two fixed-size copies; `Cuts` and
`Capacities` are next to the handle limit (5), to the largest capacity (19) and to the
largest layout (22). `UsizeMax` only has to exceed them all. In `numbers` the wide types take every
sequence of up to five limbs from `Limbs` with at most two different ones, among them the two sides of each
power of ten, and the types' limits; `NarrowU` is "u32", as on a 32-bit target, and with
"u64" the run passes as well. `ChunkSize` is 2, so that chunks
end inside characters and leave remainders.

`CHECK_DEADLOCK FALSE`: a program may stop calling. `VIEW Store` leaves `io` out
of the fingerprint: no step depends on it, and the properties that mention it are
about steps, which TLC evaluates on every transition. Symmetry under permutation
of threads, handles and buffers is used in the safety runs only; it is sound because
no constant singles one of them out.

Fairness. `Spec` of `SharedBuffer` assumes weak fairness of `Step(t)`, the steps
inside an operation: none of them waits for another thread (there is no lock and
no loop on an atomic), so a thread that the scheduler runs takes them. Calls are
not fair: a program need not call anything. `Reclaimed` needs no more, because
the thread that gave up the last reference is already inside an operation.

## What is proved

TLAPS checks the following for every value of the constants that satisfies the named
assumptions; the runs check the same properties on small instances. Each inductive
invariant was also model-checked, on the bounds of the runs.

### The sharing protocol

`SharedBufferProofs`, for any sets of threads, handles, buffers and texts, any set of
calls and any limit (assumed: threads and handles are finite and disjoint, the special
values are distinct, the limit is positive):

* `Invariance`: `Spec => []IInv`;
* `TypeCorrect`, `CountsAreExact`, `NothingDangles`, `NothingLeaks`,
  `UniquenessHolds`, `RaceFree`: the six invariants of `shared_safety`.

The argument. `RefCount` alone is not inductive: a thread that has loaded a
count of one goes on to write many steps later, and that load may have returned an
old value. `IInv` adds

* `Locals`, `Ownership` — where a thread can be, and that an operation has its
  handle to itself;
* `OldOneKnown` — for each reference to a buffer *some* thread that may use it
  knows every overwritten count of one. So a thread with exclusive use of a
  handle cannot load an old "one": that is why the Acquire load may be stale and
  still be right;
* `Alone` — once told it is alone, a thread stays alone: only users of a
  reference make new ones;
* `WritesKnown` — every user of a reference knows all writes; it survives a
  `Relaxed` clone because the clone is made by a thread that knows them;
* `AccessesKept` — each access is known to a user of a live reference or carried
  by the count. When a reference goes, `Release` puts what its last user knew into
  the count, and when the last goes, the fence collects it;
* `OwnKnown`, `DeadForgotten` — bookkeeping of knowledge.

The proof has one lemma per action, and in it one step per conjunct the action can
disturb; lemmas about knowledge and cardinalities are shared.

`SharedValuesProofs` builds on `IInv`:

* `CountStaysBounded`: `Spec => []CountBounded`. Between the `fetch_add` that passes the
  limit and the release of the panic path a thread holds a reference too many, and other
  threads may pass the limit meanwhile. The inductive form `CountSlack` counts those
  threads;
* `CopyOnWriteImplementsValues`: `Spec => IndependentValues`. A handle maps to its owner
  and the text behind it. Every step but a write, an assignment and a copy that is put
  in place leaves all mapped texts alone; a write in place changes one of them only, and
  one of a handle its own thread owns, because `IInv` says that the thread is alone with
  the buffer. A clone maps to `Clone` since it takes over its source's length with
  the buffer;
* `TextsChangeOnlyByEdits`: `Spec => EditsOnlyWhenDue`. The inductive form `Pending` says of
  a thread that is about to put a new representation in place what it has made: the
  handle's own text in an operation that copies or reallocates, the source's in `clone_from`,
  nothing in `clear` and `truncate`.

### A handle

`HandleBitsProofs`, for 32 and 64 bits of either byte order, all characters, and any
pointers and lengths that are words of the target (`HandleAssumption`; that a character
comes with its UTF-8 encoding is assumed there as well):

* `StoredInvariant`: `Spec => []Stored`;
* `HandlesDecode`, `NichesStayUnused`, `TypeInvariant`: the three invariants of `handle_bits`.

`Stored` says of each kind which bytes are where: the text at the front and the length
byte behind it if there is room; or pointer and length in memory order with the marker
over the last byte, which is the most significant byte of the length on either byte
order. `Decodes` is not inductive since it leaves dead bytes and the last byte of a full
text open: a text of full length has to end in a byte below 192, which `push` keeps because
every encoding ends in an ASCII or a trailing byte. The lemmas show that overlapping
loads and copies put every byte of a text in place (`FromEndsIs`, `EndsAre`), that the
bitwise encoding of `from_char` is UTF-8 (`CharBytesAre`), that tagging and untagging are
inverse, that a smaller length fits where a larger one did, and that with 32 bits no
length that fits looks like `ON_THE_HEAP` (`FitsIs`). The two bounds of the run are not
in the theorems: `OneCut` is a constraint of the run, and `Edited` any set of characters. What
`truncate` and `remove` write is shown for texts with anything behind them.

### A block

`BlockMovesProofs`, for every word size, every limit and every set of capacities and
cuts (`SizesAssumption`, `MovesAssumption`):

* `LaidInvariant`: `Spec => []Laid`;
* `BlocksStayWellFormed`: `Spec => []WellFormed`;
* `BytesImplementHeapBuffer`: `Spec => ImplementsHeapBuffer`.

`Laid` says that for some length and capacity the block *is* the header, the length word
and the prefix of the text that the handle stands for; `WellFormed` does not say that
the length field is the one `TextLen` gives. The lemmas follow each `ptr::copy` byte by
byte through the intermediate layouts, in which header and text overlap, and through
the restoration after a failed `realloc`.

### A number

`NumToReprProofs`, for any set of values of the integer types up to 64 bits
(`NumAssumption`: each is within the limits of its type):

* `DigitsFillBackwards`: `Spec => []BackwardsFill`;
* `IntegersWriteDecimal`: `Spec => []WritesDecimal`.

The inductive invariant `Filling` says that the bytes from `curr` on are the end of the
decimal text and that what is left in `n` are the limbs in front of them. The other half
is that `digit_count` gives the length of that text for every value
within the limits of its type: the arms end where a decade does (`EndsAre`, `LeqNines`), and
the last arm of each table reaches the type's limit. For a negative value
the complement of the complement has to be the magnitude (`MagnitudeIs`): numbers of
five limbs are the same if their values are (`ValUnique`), limb-wise subtraction and
increment compute values (`MinusVal`, `PlusOneVal`), and so the second complement undoes
the first (`ComplementTwice`).

### The strings

`LeanStringsProofs`, for any handles and blocks, every word size and limit, arguments of any
length over the characters of `Utf8`, indexes, sizes and range bounds up to `UsizeMax`,
any predicates of `retain` (which calls answer true, and which one panics, if any),
any chunk size and any set of calls. Assumed: `SizesAssumption` (the limits are positive; a length that fits into a
handle is a capacity, a capacity is below `usize::MAX`; and where lengths may be on the heap, the
largest capacity is less than a word above the largest layout), `LimitsAssumption` (inline
and static texts are shorter than `usize::MAX`), `BuffersAssumption` (blocks have numbers,
of which an allocation takes the least that is free), `ArgsAssumption` (a `&str` is UTF-8; an
index is a `usize`; the panicking call of a predicate has a number, 0 for none) and
`ChunkAssumption`. `MaxText`, the runs' bound of a text, may be any value.

Of `Spec`, the calls in any order:

* `AlwaysGood`: `Spec => []Good`, the inductive invariant;
* `TypesHold`, `BlocksStayCounted`, `TextsStayReadable`, `LayoutsStayRight`: the four
  invariants of the sequential runs;
* `FailuresChangeNothing`, `CapacitiesKept`, `RoomReserved`, `IdleCallsCopyNothing`: their
  action properties;
* `StringsImplementApi`: `Spec => ImplementsApi`.

Of `BuildSpec`, texts built piece by piece with any calls in between:

* `BuildsStayGood`: `BuildSpec => []BuildGood`, the inductive invariant;
* `TextsAreBuiltFromPieces`, `FormattersReport`: the two properties of the builders;
* `BuildersCountBlocks`, `BuildersKeepTextsReadable`, `BuildersImplementApi`,
  `IdleCallsCopyNothingMeanwhile`: the properties above, while texts are being built.

The invariant. `LayoutsAgree` and `BlocksCounted` are not inductive: whether the next
`realloc` or conversion finds its length word depends on where the length is, and whether
the next write stays in the block on what the block's capacity was rounded to.
`Good` says of each handle that it `Suits` its block: type, layout and length word follow
from the capacity, a length word is in use only for a length that does not fit into the
handle, a `LeanStr` is as long as its block, and what the length covers is written; and that
each block has as many references as handles hold it.

The argument goes in three layers.

* A method of `HeapBuffer` or `Repr` works on one handle and knows nothing of the others.
  Its lemma in `ReprProofs` says that every outcome is an error,
  or a panic before anything was written, that leaves handle and heap as they were; or, also when the
  predicate of `retain` panics half way, a `Trade`: the new handle suits its block, blocks with other
  references keep all but their count, and counts change by what the old
  handle gave up and the new one took; and it names the text the new handle has. To make
  a handle or drop one is to trade it for the empty inline text. No outcome is `ub`, so every
  safety contract between the methods is kept.
* `Exchanged` in `LeanStringsProofs` carries a trade to all handles: if the handles were `Sound`
  before, they are after one of them is exchanged, and the others show what they showed. It is the one
  place where counts are compared with numbers of handles. Methods of several steps
  (`try_split_off`, `clone_from`, `try_into_lean_str`) are several exchanges.
* The text a method is shown to give is then the one `StringApi` asks for. The two say it
  differently — moves of bytes at byte offsets, searches by chunks, loops that stop
  when a predicate panics, against lists of characters — and `TextProofs` has the lemmas that
  connect them: where the characters of a text start, that cutting, joining and replacing at
  boundaries keeps UTF-8, and that the byte-wise and chunk-wise searches of `CaseMap` find
  the first character a mapping changes.

For the builders `BuildGood` adds that the text under construction is there, growable and exactly
`job.asked`, or gone once a write has failed. A step of the builder itself is an
exchange as before. What the caller does in between is any call on handles other than the
builder's, and `OthersSee` says that a call leaves what the handles it is not given show: that is where
copy on write matters, since the caller may hold clones of the text under construction.
`FormatReports` follows: a writer that has failed has no handle left that it could return.

What recursive functions over texts compute needs induction, and the library's induction
theorems, which take a predicate, cannot be instantiated here. `Induction` of `TextProofs` is
stated for a *set* of numbers instead (from `LeastExists`: a set that is not empty has a least
element), and `Recursion` for functions; a claim is proved by applying them to the set of
numbers for which it holds.

## What is only model-checked

* `Reclaimed`: liveness under fairness is beyond TLAPS.

That the two halves fit, i.e. that a call of `LeanStrings` is what an operation of
`SharedBuffer` does when no other thread takes a step, is neither checked nor proved; they
are two readings of the same lines.

## What is not modelled

* Unicode tables, `char::decode_utf16`, `utf8_chunks`, and the allocator: external, by
  what the code expects of them. Decoding yields characters and errors in any order.
* Floats and 128-bit integers: `zmij` and `itoa` format them into a stack buffer, which
  `from_str` copies. `from_bool` is `from_str` of a constant.
* Traits that only read a text (comparison, hashing, `Display`, `AsRef`, `Borrow`,
  conversions to `String`, `Cow`, `Box<str>`): they have no state of their own.
* serde and arbitrary support: visitors that pass a text on to a modelled constructor.
  Error types: values; the models tell success, error and panic apart.
* A panicking initializer in `new_with` (the code says it may leak; its callers'
  initializers do not panic).
* The limit on the count in the sequential half; it is part of `SharedBuffer`.
* The alignment test of `Layout`; it is part of `LayoutMax`.

## Plan

1. (done) `SharedBuffer`, its invariant, refinement, liveness and proofs.
2. (done) `HeapBuffer`, `Repr`, `LeanStrings` against `StringApi`.
3. (done) The byte level: `HandleBits`, `BlockMoves` against `HeapBuffer`, `NumToRepr`.
4. (done) `CaseMap` and `Builders`.
5. (done) Theorems on the sharing protocol and its refinement, and on the byte level.
6. (done) Theorems on the sequential half: every property of `LeanStrings` and `Builders`
   for every size, and the refinement of `StringApi`.

What could follow: a module that composes the two halves, with the texts of `Repr` behind the
atomic steps of `SharedBuffer`.

## Running

    tlc -workers 2 -config MCSharedBuffer.cfg MCSharedBuffer
    tlc -workers 2 -config MCLeanStringsGrow.cfg MCLeanStrings
    tlapm SharedBufferProofs.tla

The other configurations are run in the same way; `PROJECT.json` lists them.
