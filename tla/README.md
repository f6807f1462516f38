# Spotlight: specifications, model checking and proofs

Spotlight mounts an ext4 image read-only through FUSE without unpacking it: the
image may be raw, xz or gzip.  This directory holds TLA+ specifications of the
parts of the program where it can go wrong in ways a test hardly reaches, TLC
configurations that check them on small instances, and TLAPS proofs that hold
for every instance.

All paths below are relative to the repository's `src/` directory.

## 1. Inventory

A file read goes through these parts, from FUSE down:

| Part | Code | State it keeps | Operations | What makes it correct |
|---|---|---|---|---|
| Path lookup and dcache | `fs/ext4/inode.c`, `fs/ext4/dcache.c` | a tree of entries; the children of a node form a ring; shared by all FUSE threads, no lock | `inode_get_idx_by_path`, `dcache_lookup`, `dcache_insert` | a lookup returns the inode of its path, and returns at all, whatever other threads insert |
| File read | `fs/ext4/op_read.c`, `extents.c`, `inode.c`, `disk.c` | none between calls | `op_read`, `extent_get_pblock`, `inode_get_data_pblock`, `disk_ctx_read` | the bytes of the file, holes as zeroes, exactly as many as there are |
| Directories | `inode.c` (`inode_dentry_get`), `op_readdir.c` | a buffer of one directory block per call | `op_readdir`, the search in a lookup | each entry once, also when resumed at an offset |
| Superblock | `super.c` | superblock and group descriptors, filled once by `op_init` | `super_fill`, `super_group_fill`, offsets | the inode table of every group |
| Disk and read layer | `disk.c`, `../read_layer.c` | the FILE, one mutex, the reader allocated by the first read | `disk_open`, `disk_read`, `disk_close`, `read_wrapper` | one reader at a time, made for the FILE that is open; no use after close |
| Dispatcher | `compression/compression_reader.c`, `raw_read/` | which reader serves the file | probe, read, free | the first format that fits, looked for from the beginning of the file |
| xz reader | `compression/xz/xz_reader.c` | block index, cache of decompressed blocks (doubly linked list in order of use) | `xz_is_supported`, `xz_reader_alloc`, `xz_read`, `xz_reader_free` | the index of the whole file; the bytes of the image; nothing leaked, nothing ended twice, nothing used after free |
| gzip reader | `compression/gzip/gzip_reader.c` | list of access points, built on demand | `gzip_read`, `gzip_reader_free` | the bytes of the image; the index does not depend on the order of reads |
| Operations | `op_getattr.c`, `op_open.c`, `op_readlink.c`, `op_readdir.c` | none between calls (FUSE keeps the inode number in `fi->fh`) | each looks a path up first | the inode the path means; a link's target from where it is stored; a listing without gaps or repetitions |
| Mounting | `fs/ext4/fuse-main.c`, `main.c`, `fs/fuse_implementation.c` | the process: probing, mounting, serving, ended | start, mount, unmount, SIGSEGV handler | the file system is served, or the process ends |
| Logging, options | `logging.c`, `fuse-main.c` | log file, options | – | – |

Interaction is by calls only.  `__disk_read` holds `read_lock` around every call
into the readers, so each reader is sequential; the operations and the dcache
run in as many threads as FUSE starts (`fuse_main` is multithreaded by default,
`fuse-main.c:149`).  The hard behaviours are therefore: the unlocked dcache
(interleavings); the reader that whichever thread comes first allocates, and
`disk_close`, which the SIGSEGV handler calls without the lock; long sequences
of reads or `readdir` calls that leave the cache, the index or the listing in
some state the next call depends on; failures in the middle of a read or of the
opening of a file; and boundaries (blocks, windows, bits, levels of pointers,
groups, the end of the file).  `PROJECT.json` lists each under "hazards", at its
line, with the properties that would catch it.

`xz`, `gzip` and the read layer are compiled with `NDEBUG` (their asserts do
nothing); the `ASSERT`s of `fs/ext4` are live.

## 2. Modules

| Module | Models | About |
|---|---|---|
| `LruCache` | – | what the xz block cache promises: a bounded set in order of last use |
| `XzReader` | `xz_reader.c:8-158, 320-531` | `xz_read` with cache, failures and recursion; implements `LruCache` |
| `XzReaderProofs`, `XzLruProofs` | | proofs about `XzReader`, and that it implements `LruCache` |
| `XzIndex` | `xz_reader.c:124-318, 410-475, 520-531` | opening an xz file: the streams, their indexes, and who ends them |
| `XzIndexProofs` | | proofs about `XzIndex` |
| `GzipReader` | `gzip_reader.c` | the index of access points and reads from it |
| `GzipReaderProofs` | | proofs about `GzipReader` |
| `Dcache` | `dcache.c`, `inode.c:159-245` | concurrent path lookup |
| `DcacheProofs` | | proofs about `Dcache` |
| `FileRead` | `op_read.c`, `extents.c`, `inode.c:26-99`, `disk.c:122-172` | one `op_read` after another |
| `FileSystem` | `inode.c:101-245`, `op_getattr.c`, `op_open.c`, `op_readlink.c`, `op_readdir.c` | all operations of the mounted file system, on top of `FileRead` |
| `FileSystemProofs` | | proofs about `FileSystem`, and with it `FileRead` |
| `Super` | `super.c`, `inode.c:144-152` | where descriptors and inodes lie, and where the format has them |
| `Mount` | `fuse-main.c`, `fuse_implementation.c`, `op_init.c`, `disk.c`, `read_layer.c`, `compression_reader.c` | the life of the process and of the disk, on top of `Super` |
| `MountProofs` | | proofs about `Mount` and `Super` |
| `LeastNumber` | – | facts about numbers, and induction, that the proofs share |
| `MC*` | | the instances TLC checks, one `.cfg` per run |

How they fit together:

- `FileSystem` extends `FileRead` and uses its block mapping for directories and
  links as well as for `op_read`.
- `FileSystem` takes from `Dcache` that any part of a path that exists may be
  found in the cache, with the right inode (`CacheSound`, `LookupRight`);
  `Dcache` takes from `FileSystem` that the search of a directory on disk finds
  the inode of a name (`LookupExact`).
- `FileSystem` takes from `Mount` that the inode of a number is read from where
  it is, and `FileRead` that `disk_read` delivers the bytes asked
  for, whatever other threads do (`ReadRight`).
- `Mount` takes from `XzReader`, `GzipReader` and `XzIndex` that a reader that is
  used by one thread at a time delivers what lies at a place; its readers keep a
  position of their own, as the real ones do, so that this fails without the lock.

### XzReader

`list`, `entry`, `cells` are the linked list as it lies in memory: addresses,
`next`/`prev`/`first`/`last`, the fields of each entry, which entries are
allocated.  `mem` says of each buffer which block it holds or that it is free,
so use after free, double free and leaks are visible.  Byte `a` of the image has
the value `a`: a byte delivered from the wrong place has the wrong value.  The
recursion of `xz_read` is a loop in which `call.got` counts what the outer calls
have copied.  Each turn of `get_cache_block`, each exit of `read_block`
(`LocateFails`, `HeaderFails`, `MismatchFails`, `DecodeFails`, `ReadBlockOk`,
`MallocFails`, `DataReadFails`), each branch of `add_new_block`, the `memcpy` and
each turn of `free_cache_entries` is an action.  `pos` is an auxiliary variable
(place of an entry in the list) that no guard reads; it lets list
well-formedness be stated without recursion.  liblzma is external: the block
index is a constant, and `Faults` says which of its answers may be failures.
`free(*data)` on the uninitialised pointer is a choice among the outcomes it can
have: nothing, freeing the buffer of a block, abort.  That it might be the address
of a list entry is left out.

### XzIndex

A file is described by what `pread` and liblzma's decoders find in it: which
bytes are zero, at which positions a footer, an index or a header decodes and
with what contents; `streams` is what the format says the file holds.
`position`, `padding`, `left`, `cur` (`current_index`) and `index`
(`reader->index`) are the code's variables; `heap` records of every `lzma_index`
whether it is live, part of another one (`lzma_index_cat`), ended, or ended
twice.  A turn of the outer loop is `NextStream`, any number of `SkipPadding`,
`DecodeFooter`, any number of `ReadIndex`, `EndIndex`, `CheckHeader`, `Join`;
each way to `error` is an action of its own, and all end the indexes there are
(`Fail`).  `PaddingWords` looks at bytes 2, 1 and 0 of the buffer, as the code
does.  `phase` says which caller parses: the probe, whose reader is on the
stack, or `xz_reader_alloc`, which frees its reader when the parse fails.

`FormatAssumption` says what makes a file one of given `streams` (`SoundFile`):
header, blocks, index, footer and padding of each stream lie one behind the
other and fill the file; padding is zero and a multiple of four bytes; the
third byte of a footer's last word is not zero and nothing decodes as a footer
between it and the next stream, since a footer ends in `YZ`.  A scan that misses
a footer goes on into the index and the blocks.  `missed` holds the positions it
comes to; the assumption is that none of them decodes as a footer, which
has a checksum of its own.  No action reads `missed` or `streams`.  Files with
no `streams` are not restricted: they may decode in any way.

### GzipReader

The stream is given by constants: where blocks end in the image and, in bits,
in the file.  An instance (`inst`, chosen in `Init` and then constant) adds the
size of the input buffer, how far back each byte refers, the size of the file
(smaller than the stream if it is truncated) and what may fail.  `context` is
`build_index`'s window, cell by cell; `Decoded` gives the bytes inflate yields
from a given window: a reference is right only if what it refers to is.  An
action is one `fread`, one call of `inflate`, one search, one skip or the
delivery.  `PointDue`, `Room`, `create_access_point_entry`, `RestartBit` are the
code's conditions and arithmetic.  What `build_index` returns is ignored by
`gzip_read` (with `NDEBUG`), and by `BuildEnds`.  `fp`, the position in the file,
is kept from one build to the next as long as there is no point to seek to: a
build that comes after one that failed finds no gzip header where the file is.
`PointCrash` is the `malloc` of a point that fails, with the assert off.

### Dcache

Each read or write of a shared pointer is a step; where the code reads
`parent->childs` a second time, both the value read before and a fresh one are
allowed, since the compiler may do either.  Stores take effect in program order
(x86, and no reordering by the compiler): the proofs depend on it.  Entries are
never freed, as in the code.  The search of a directory on disk is the constant
`Child`; `Target` is what each prefix of a path leads to.  `EntriesLeft` bounds
the entries: a lookup begins only if every entry it may need is there.  `parent`
is auxiliary.

### FileRead

A byte is represented by its place on the disk, a byte of a hole by `Zero`, and
`BlockOf` says what the file system means, independently of the trees the code
walks.  Each node of a tree fetched from the disk is a step.  A failing `ASSERT`
leads to `abort`.  The 32-bit arithmetic of block numbers is modulo `Word`
(65536 in the instances, as TLC has no larger integers than 2^31 - 1: it only has
to exceed every block number of the disk).  `op_read`'s early return for an
inode 0 is left out: FUSE only reads files that were opened.  Three `ASSERT`s are
left out, too: that the upper halves of block numbers in extents and index
entries are 0 (`extents.c:28`, `84`), which follows from `Word >= DiskBlocks`, and
the magic number of a node (`extents.c:73`), which every node of `Root` and `Tree`
is taken to have.

### FileSystem

Every call has locals of its own and the disk does not change, so one call at a
time is enough here; what threads share is in `Dcache` and `Mount`.  A call of
the kernel (`op_getattr`, `op_open`, `op_readlink`, `op_readdir`) begins with
`Begin`, which leaves any suffix of the path to be searched.  `NextName` is a
turn of the outer loop of `inode_get_idx_by_path`; `dctx` is the buffered
directory block (`struct inode_dir_ctx`), and `HasEntry`, `NextBlock`, `AtEnd`,
`PastEnd` are the outcomes of `inode_dentry_get`.  The entries of a block are a
function from offsets, so that an offset that is not the beginning of an entry
has none.  `client` is what the kernel holds: an open file, or a listing with
what it has received so far and the offset it would resume at.  It asks for
the target of a link only where there is something, as it has looked the path up before:
`op_readlink` ignores that its lookup failed (`op_readlink.c:49`) and would use an
inode that was never filled.  `readdir` calls
are cut off after any number of entries (`room`); `seekdir` returns to any
offset once given, `lseek` goes beyond the directory.  `Entries`, `Named` and
`Resolve` say what the directories mean, independently of the walk.

What the disk holds is assumed, not chosen by an action, and the assumptions say
what `mke2fs` and the kernel write:

- `TreeAssumption`: a directory is whole blocks, and the entries of a block fill it.
- `BlockAssumption`: the extents and pointers of the files that are read, listed
  or followed (`Mapped`) lead where `BlockOf` has the blocks.  `Below` says for
  which file and which range of logical blocks each block of an extent tree is:
  an inner node's entries are each for the blocks up to the next (`SoundInner`),
  a leaf's extents do not overlap, and what none of them has is a hole behind all
  of them (`SoundLeaf`).  No action reads `Below`.  A hole before an extent of the same
  node and a missing block of pointers are left out: the code is wrong there (see
  the known deviations).
- `RequestAssumption`: no read begins inside a hole, unless at a block boundary
  (`op_read.c:55`, a known deviation).
- `NameAssumption`: the names of a directory are unique and not empty, and the
  kernel asks for names in directories only, as its own path walk ensures.

### Super and Mount

`Super` has the arithmetic of `super.c` side by side with the layout of the
format (`FirstBlock`, `Groups`, `DescPlace`, `InodePlace`).  `TableAt` uses the
lower half of the table's block number only, as the code does (modulo `Word`,
2^32); a `ValidGeometry` has fewer than `Word` blocks.

`Mount` follows the process: `start_fuse` calls `ext4fuse_is_supported`
(`disk_open`, a read of the magic, `disk_close` if it is right) and then
`ext4fuse_main` (`disk_open`, the magic again, `fuse_main`), `op_init` fills the
superblock and the descriptors, and then threads serve requests for inodes.
Every access is a `__disk_read`: `Lock`, `CallWrapper` (`disk_file` is loaded and
passed on), `read_wrapper` (is there a reader?), `Probe` (one format at a time,
rewinding between them), `Alloc` for the FILE that was passed on, `CallReader` (the
pointer tested, or loaded again), `Seek`, `Fetch`, `Unlock`, and the `ASSERT` on the
length (`ReadAborts`).  `files` and `readers` keep every FILE and reader ever made,
so that a use after close is seen (`bad`).  The value read is the place it was read
from.

`signal_handle_sigsegv` may happen in any thread, at any moment once
`ext4fuse_main` has installed it (`fuse-main.c:107`): in the main thread while it
mounts, in the others while they serve.  The main thread only waits for them then.
The handler runs `disk_close` without the lock, step by step, while the other
threads go on: `FreeReader`, `ClearReader`, `CloseFile`, `ClearFile`, and `abort`
(`HandlerAborts`).  Testing a pointer and releasing what it points to is one step,
clearing it the next; `disk_fd` changes with `disk_file`.  So another thread may
find no reader, probe the FILE that is still open and store a new reader before
`fclose`; a freed reader or closed FILE yields any answer; and two handlers may
release the same thing.  The `disk_close` of the probe is one step: no other thread
exists then.

## 3. Runs

Passing runs, with deadlock checking off only where the program may stop (killed
or exited process, abort, or no entries left within the bound):

- **xz_cache** – four blocks, a cache of three (head, middle and tail entries all
  occur, and evictions), reads of up to 4 bytes across up to three blocks, the
  failures the code handles.  List (`ListWellFormed`), content
  (`CacheCoherent`), memory (`NoLeak`), bytes (`ReadCorrect`) and the
  refinement of `LruCache` (`LruRefinement`): a hit moves its block to the front,
  a full cache gives up exactly the least recently used one, a failed read
  changes nothing.  Addresses are symmetric.
- **xz_faults** – three blocks, a cache of two, all failures.  A read is
  complete and says so, or its result is neither the length asked for nor the
  number of bytes copied, and is `READER_ERROR` if nothing had been copied
  (`ReadComplete`; what the value is otherwise is left open, see the known
  deviations); every operation ends (`OperationsEnd`).  That the list stays
  proper is proved.
- **xz_index** – 159 files: one stream with padding of up to 24 bytes, empty or not,
  an index that fits the buffer and one that does not, a size field of one and
  of two bytes; two and three streams with mixes of paddings; and eleven that
  are wrong in one way each.  `pread` and `malloc` may fail anywhere.
  At every turn `reader->index` describes the streams behind the position
  (`IndexIsFile`); a file is accepted exactly if the scan can find its footers
  (`AcceptsExactly`, which says which ones those are); an index is ended twice
  only by an `xz_reader_alloc` whose parse fails after its first stream
  (`EndedOnce`); only the probe's own index is leaked (`OnlyProbeLeaks`); opening
  ends (`OpeningEnds`); `pread` is never asked outside the file (`TypeOK`).
- **gzip_reads** – 20 bytes in seven blocks (the first empty, lengths 3, 4, 2,
  5, 3, 3) that end inside bytes; reads of up to 3 bytes at every offset
  including past the end, in any order.  Two instances: chunks of 5 bytes, and
  the file in one chunk, truncated, with errors of reading, of the data and of
  `malloc`, and references as long as the
  window.  The index is independent of the order of reads (`IndexAsInOnePass`),
  its points can be restarted from (`PointsRestart`), reads of a file that
  is whole skip a bounded distance (`SkipBounded`) and return, unless a failure
  has killed the process (`ReadsEnd`); in one chunk, a read that reports success is
  right (`ReadCorrectInOneChunk`).
- **dcache_threads** – two threads, five entries, paths of one and two
  components, one name too long to be cached: `LookupRight`, `CacheSound`,
  `NoNullSibling`.  Threads and addresses are symmetric.
- **dcache_single** – one thread, all paths: the rings are rings, without duplicates
  (`RingsClosed`), and lookups return (`LookupsEnd`).
- **fs_calls** – all operations in any order on a root directory of four blocks
  (with extents in two runs; hashed, so that a block holds nothing but a dummy),
  a directory of three blocks (with direct and indirect pointers), deleted
  entries that keep the name of a live one, links shorter than, as long as and
  longer than the space in an inode (2 here), and files with extents in the
  inode, in a tree of three levels, with a hole at the end, with direct to
  triple indirect pointers and holes in them, and one whose size is beyond its
  pointers.  Listings are cut after one to three entries and resumed anywhere.
  Directories: `BufferIsBlock`, `LookupExact`, `ListingExact`,
  `ListingComplete`; links: `LinkRight`; reads, through what `op_open` has found:
  `ReadSoFar`, `ReadAll`; no `ASSERT` fails but for a corrupt file and an offset
  beyond a directory: `FsAssertsHold`; everything returns: `CallsEnd`.
- **mount_serve** – raw, gzip, xz and unsupported xz images, ext4 or not, five
  geometries (blocks of 1024, 2048 and 4096 bytes, descriptors of 32 and 64
  bytes, one to three groups, a last group that is smaller), two threads,
  `fopen`, reads and allocations that fail, and a SIGSEGV at any moment after the
  probe, in one thread or in several.  Until a thread crashes, the reader was made
  for the open FILE and fits (`ReaderFits`), and concurrent reads deliver
  what they asked for, which is the inode meant (`ReadRight`); nothing closed is
  used except during a crash (`UseAfterCloseOnlyInCrash`), no more descriptors
  are kept than there is room for (`TypeOK`), the `ASSERT` on groups fails only
  for a partial last group (`OnlyPartialGroupAborts`), and no thread waits while
  nothing is read (`WaitsEnd`).

Runs that show a disagreement between the code and what it says of itself:

- **xz_padding** (`WellFormedParses`) – the scan of stream padding takes single
  bytes for words.  With four bytes of padding, the bytes it looks at are bytes 6,
  5 and 4 of the footer, in its size field; the first two are zero, so it steps
  back by eight bytes instead of four, over the footer, and the file is refused.
- **gzip_window** (`ReadCorrect`) – `avail_out = 0` for every chunk restarts the
  window at its head although it is not full; a point made later holds a window
  with bytes missing, and reads that start there deliver wrong bytes.
- **dcache_ring** (`RingsReturn`) – two insertions at once can leave
  `parent->childs` on an entry no sibling leads back to; `dcache_lookup` then
  never ends for a name that is not there.
- **file_sparse** (`ReadSoFar`) – a hole before an extent: the first extent that
  ends after the block is used although it begins after it.

### Known deviations

What else the code does otherwise than one would expect.  In the models, and
left out of a property or a run as said there:

- A short `pread` of block data jumps to `error2` with `return_value` still
  `LZMA_OK` (`xz_reader.c:377`): the freed buffer is cached and copied.  It is the
  failure `"io"` of `XzReader`; `ReadCorrect` does not hold with it, but the list
  stays proper all the same (`ListAlwaysWellFormed`).
- `xz_read` past the end, or failing after its first block, returns the count so
  far minus one (`xz_reader.c:519`), where `xz_reader.h:102` promises the "Number of
  bytes read or READER_ERROR if error".  `__disk_read`, its only caller, tests
  for the length asked for, and `ReadComplete` says no more of this case than that
  the result shows a failure.  A header that disagrees with the index
  frees an uninitialised pointer (`xz_reader.c:349`), possibly a cached block.
- The index the probe accepted the file with is never ended (`xz_reader.c:433`);
  a parse that fails in `xz_reader_alloc` ends the joined index twice
  (`xz_reader.c:285`, `528`).
- `gzip_read` past the end returns the length asked for (`gzip_reader.c:418`);
  an empty index crashes the search and the free (`gzip_reader.c:82`, `285`).
- `dcache_insert` returns NULL for a directory name that does not fit into an
  entry (`dcache.c:69`); the caller passes it on as the parent of the next
  component, where NULL means the root.  `LookupRight` does not hold if such a
  name is inside a path; the runs and the proof have them last.
- With two threads `LookupsEnd` does not hold even while the rings are intact: a
  scan can chase a first child that other lookups keep moving.
- `first_read` reads block 0 for a hole (`op_read.c:55`), a missing block of
  pointers is read as block 0 (`inode.c:40`, `50`, `62`), and a hole before the
  first index entry of a deep extent tree fails `ASSERT(recurse_ei)`
  (`extents.c:93`).
- The number of groups is rounded down (`super.c:30`): an inode of a last group
  that is smaller than the others fails the `ASSERT` at `super.c:72`.
- Of the block number of an inode table only the lower 32 bits are used
  (`super.c:74`, with a FIXME at line 68): in a file system of 2^32 blocks or more
  inodes may be read from a wrong place.  `ValidGeometry` leaves those out.
- `op_readlink` takes a target of exactly 60 bytes from the inode
  (`op_readlink.c:28`), where the kernel has put it into a block.
- `readdir` at an offset beyond the directory, which `lseek` allows, fails
  `ASSERT(inode_size >= un_offset)` (`inode.c:131`).
- A failing probe or mount exits with the disk open; the SIGSEGV handler closes
  it while other threads may read: they may use the freed reader or the closed
  FILE, and make a reader for the FILE that is being closed, until `abort`.

Below the level of the models: the terminator of a name of 255 bytes is written
behind `name_buf` (`op_readdir.c:22`, `32`); `get_path_token_len` counts in a
`uint8_t` (`inode.c:159`), which FUSE's limit of 255 bytes for a name just fits;
`ferror` is sticky, so that one read error of a gzip image makes all later reads
fail (`gzip_reader.c:116`); `rec_len` has another encoding for
blocks of 64 KiB; the `malloc` of a directory buffer is not checked; extents that
are preallocated but not written are taken as very long ones (`extents.c:30`).

### Fairness

The fair specifications add weak fairness of the steps of an operation that has
begun, never of the start of one, of a failure or of what the kernel asks for: a
thread that FUSE runs is scheduled again, and the code waits for nothing but the
disk and `read_lock`.  `Dcache` and `Mount` have it for each thread.  Nothing
is assumed of the mutex: a thread may find it taken for ever, so `WaitsEnd` says
that some read returns, not that one's own does.  In `Mount` the main thread's
way to serving is fair, too.  `XzReader` and `XzIndex` have it for the steps of
a call, `FileSystem` for those of an operation.

### Bounds

Files, caches, trees and reads are as small as still have each case: blocks
that are first, middle and last; cache entries likewise; a read within a block,
ending at, and across boundaries; a window that wraps around; three levels of
extents and of pointers; a directory whose entries are in the first, a middle
and the last block; descriptors in the first and in later positions.  In
`fs_calls`, reads begin and end at block boundaries or next to them; the
bytes in between are treated alike by the code.  Two threads are enough for
every pair of steps that may race, as a third would only repeat one of the two
parts.  `Word` is 65536 in all instances, above every block number that occurs.
The proofs remove the bounds where they reach.

## 4. Proofs

Every theorem is about all values of the constants that satisfy the named
`ASSUME`s.  Each is proved from an inductive invariant, which TLC has checked on
the component's run first; one lemma per action, or per group of actions, shows
that it is kept, and the theorem itself puts them together.

| Theorem | Says | For every | Beyond the assumptions on constants |
|---|---|---|---|
| `XzReaderProofs!ListAlwaysWellFormed` | `TypeOK`, `ListWellFormed`, `FreeCountsAll` | file, cache size (0 included), set of failures | – |
| `XzReaderProofs!ReadsComplete` | `ReadComplete` | the same | – |
| `XzReaderProofs!XzReaderCorrect` | `CacheCoherent`, `NoLeak`, `ReadCorrect` | file, cache size | `Faults \subseteq HandledFaults` |
| `XzLruProofs!CacheIsLru` | `LruRefinement` | file, cache size | `Faults \subseteq HandledFaults` |
| `XzIndexProofs!XzIndexSafe` | `TypeOK`, `EndedOnce`, `OnlyProbeLeaks` | file, corrupt ones included, and failure | – |
| `XzIndexProofs!XzIndexExact` | `AcceptsExactly`; `IndexIsFile` if the file is an xz file | file, number of streams, paddings, buffer size, set of failures | – |
| `GzipReaderProofs!GzipReaderCorrect` | `TypeOK`, `IndexAsInOnePass`, `PointsRestart`, `SkipBounded`, `ReadCorrectInOneChunk` | deflate stream, truncation, chunk size, set of failures | – |
| `DcacheProofs!DcacheSafe` | `TypeOK`, `CacheSound`, `NoNullSibling`, `LookupRight` | number of threads, tree, heap | `LongNamesLast` |
| `DcacheProofs!RingsStayClosed` | `RingsClosed` | tree, heap | `LongNamesLast`, one thread |
| `MountProofs!MountSafe` | `TypeOK`, `ReaderFits`, `ReadRight`, `UseAfterCloseOnlyInCrash`, `OnlyPartialGroupAborts` | number of threads, image, geometry of fewer than `Word` blocks, set of failures; `ReaderFits` and `ReadRight` until a thread crashes | – |
| `FileSystemProofs!FileSystemSafe` | `FsTypeOK`, `ReadSoFar`, `ReadAll`, `BufferIsBlock`, `LookupExact`, `FsAssertsHold`, `ListingExact`, `ListingComplete`, `LinkRight` | disk and sequence of calls | – |

### XzReaderProofs and XzLruProofs

`StructInv` is `TypeOK`, `ListWellFormed` and `LoopInv`: where `iter` is on the
list, that `count` is the place of `iter`, and that the block at hand covers the
offset.  The lemmas `MoveToHeadLinked` and `PushFrontLinked` show that the
pointer assignments of `move_to_cache_head` and `add_new_block` permute the places
in the list.  This much holds whatever fails.  `ReadInProgress` adds how
far the recursion has come, which gives `ReadsComplete`.

`DataInv` says who owns each live buffer at each point of a read, that entries
and buffers agree, and that the bytes copied so far are right.  It needs
`Faults \subseteq HandledFaults`: with the failure `"io"` (the first of the known
deviations) a freed buffer is cached.

`CacheIsLru` is the refinement of `LruCache` under the mapping of `XzReader`.  The
rank of a block is that of the entry that holds it; it is defined with `CHOOSE`,
so `BarKnown` first shows from `DataInv` that there is at most one such entry.
Then the initial state is shown to map to one of `LruCache`, a promotion to
`Touch`, an insertion to `Admit`, a block that is used without being cached to
`Bypass`, the end of a copy to `Done`, `xz_reader_free` to `Clear`, and every other
step to a stutter.

### XzIndexProofs

`Walk` says where the index being read lies: it ends inside the file, so every
`pread` starts there, and once decoded lies just before the position.
`Ownership` says that exactly the indexes of `Owned` are live (the
probe's, and during a parse `reader->index` and `current_index`), that these are
distinct, and that only the `reader->index` of a failed `xz_reader_alloc` is ended
twice.  For this much (`XzIndexSafe`) only the type of what the decoders find in
the file is assumed.

`XzIndexExact` needs `FormatInv`, which is about the files that have `streams`.
Each turn of the outer loop is for one stream `k` (`TurnInv`): the streams behind
it are in `reader->index` (`Joined`), and the position is at its end, its footer
or its header, as `pc` says.  While the footer is looked for, the scan is a
multiple of twelve bytes before the end of the padding, or has come to the footer
(`OnTrack`), or it has missed the footer, which is then not `Locatable`.
`TrackFacts` is the arithmetic behind it: within the padding the three
bytes looked at are zero and count as twelve; with 0, 4 or 8 bytes of padding left
the bytes of the footer decide.  `FooterTurn`, `IndexTurn`, `HeaderTurn` and
`JoinTurn` go through the steps of a turn: what they show beside `TurnInv` is that
`IndexWrong` and `HeaderWrong` cannot happen in an xz file, and that the scan fails
only where the footer is not `Locatable`.  `StreamsOrdered` (by induction over the
streams) and `FromBehind` turn the number of a stream into a position.

### GzipReaderProofs

- `Points`: each access point was made at the end of a block, with the bits and
  addresses of that block (`PointAt`).
- `Building`: inflate is within the block after its last one (`Position`), and no
  block ended further than `SPAN` from the last point without one being made
  (`NotPassedOver`).  With `Points` this gives `IndexAsInOnePass`: resuming at the
  last point finds the same points as going on would have.
- `Windows`: if the file fits one chunk, each cell written since decompression
  started is right (`CellsRight`), and so is every window kept with a point.
  Without that condition it is false (the run `gzip_window`).
- `Near`, `Reading`, `Returned`: the last point is near when the index is
  searched, the skip leads to the offset, and what was returned is right.

`Decoded` is a recursive function.  That it is one, and what it computes from a
window that is right, is proved by induction over the bytes, with `LeastNumber`.

### DcacheProofs

The invariant has a shared part (`HeapInv`: what can be reached is linked, made
for that node, and true of the tree) and one per thread (`ThreadInv`); a
thread's part survives the steps of others because the heap only grows
(`HeapGrows`).  `LongNamesLast` (only last components of paths are too long to be
cached) is needed, see the known deviations.

`RingsStayClosed` is about one thread; with two it is false (`dcache_ring`).
Its invariant does not say where each entry is in its ring but that there is
nothing smaller (`OneRing`): every entry made for a node is linked into its ring
by one other, and the only non-empty set of them that is closed under `siblings` is
all of them.  An insertion splices one entry into a ring of that kind
(`RingSpliced`).  That names are unique is kept because the search that comes
before an insertion has passed all of the ring: the entries it has passed have other
names (`KnowsRing`), and when it is back at the first they are closed under
`siblings` (`PassedStep`), so they are all.  `RingReached` shows that as many
steps along `siblings` as there are entries lead through the whole ring, by
induction over cardinality.

### MountProofs

- `LockHeld`: only the owner of `read_lock` is between `Lock` and `Unlock`.
- `Turns`: threads run only when mounting is over, and the main thread only before;
  during the probe nobody is in the handler.
- `DiskState`: at which stages the disk is open and a reader there.
- `Fields`, per thread: what it holds at each point, in a crash too: a FILE to make
  a reader for, a reader to use.
- `ReadInv`, per thread: what it knows of the reader at each point of
  `__disk_read`: the FILE it was passed is the one open, no earlier format takes
  the image, the reader it uses is the one in use, the reader is where the thread
  has put it.  `LockHeld` keeps other threads from disturbing this.
- `Places`: descriptors and inodes are looked for where the format has them.

`DiskState` and `ReadInv` are what a crash breaks: the invariant has them under
`~Crashed`, the rest without.  The handler never returns, so a step that ends in a
state without a crash began in one; and before the threads serve, a main thread
that is not in the handler means that nobody crashed (`Uncrashed`).

`DescRight` and the lemmas after it do the arithmetic of `super.c` for every
`ValidGeometry`: blocks of 1024, 2048 or more bytes, and descriptors of 32 bytes
(`s_desc_size` 0) or of 64.  Other sizes of descriptors are left out:
`super_group_desc_size` takes 64 for every size but 0, and `mke2fs` writes no other.

### FileSystemProofs

`RInv` is about the variables of `FileRead`:

- `MapInv`: while a block is mapped, the node at hand is for a range of logical
  blocks that holds the one wanted (`NodeInv`), the pointers still to follow lead
  to its block (`LeadsTo`), and the block found is that of the file, as are
  those that follow in the extent (`Found`).
- `ReadInv`: how `offset`, `size`, `ret` and `lblock` belong together in
  `op_read`: after the first block, `offset + ret` is at the beginning of
  `lblock`.  The bytes in the buffer are right by `ReadSoFar` itself.

The rest is about the calls: `StepInv` (which mapping is for which call),
`PathInv` (the part of the path already looked up leads to `inode_idx`), `WalkInv`
(the buffer is the block it says, the position is the beginning of an entry or
the end of the directory, and no entry before it has the name, or is missing
from the listing), `CallInv` and `ClientInv` (what the kernel asked for and
holds).  `PlaceNext` is the lemma both the search and the listing rest on: the
entry at a place ends at the next place, and no entry begins in between.
`ListingGrows` adds one entry to a listing.  `Resolve` is unfolded one component
at a time by an induction over the path.

The disks are those that satisfy the assumptions of `FileRead` and `FileSystem`
(section 2): what `mke2fs` and the kernel write, without the holes and the missing
blocks of pointers that the known deviations list.

### LeastNumber

The provers cannot instantiate an induction theorem that takes an operator.
`LeastNumber` therefore derives the least-number principle from the library's
theorem that `<` is well-founded on the naturals, and from it induction as a
statement about sets: a set that holds 0, and with each number the next, holds
all up to `n`.  It also has the facts about division the proofs share.

### What is not proved

- Liveness (`ReadsEnd`, `OperationsEnd`, `OpeningEnds`, `LookupsEnd`, `CallsEnd`,
  `WaitsEnd`): the prover does not reason about fairness.
- The four runs that expect a violation show what does not hold.

TLC evaluates the `ASSUME`s of each module in the runs of that module, so the
assumptions the proofs rest on are true of every instance that is checked.
`FileSystemSafe` is about the specification of the run `fs_calls`; `file_sparse`
has a disk that is outside its assumptions.

## 5. Not modelled

- The parsing of options and the log file (`fuse-main.c`, `logging.c`): copying
  and output.
- The attributes `op_getattr` copies other than kind and size.
- The branch of `pread_wrapper` for FreeBSD.
- The example program, the tests and the build.
- zlib-ng and liblzma: external, modelled by what the readers ask of them.
- Memory orders weaker than program order in `Dcache`.

## 6. Plan

Every safety property of the passing runs is stated by a theorem.  What would
widen the theorems:

1. `FileSystem`: holes before an extent and missing blocks of pointers are outside
   the assumptions because the code is wrong there; a repaired `extent_get_pblock`
   and `inode_get_data_pblock` would allow a `BlockAssumption` without exceptions.
2. `GzipReader`: `ReadCorrect` for files larger than the input buffer, once the
   window goes on where it was (`gzip_window`).
3. `Dcache`: `RingsClosed` for any number of threads, once insertions exclude each
   other (`dcache_ring`).
