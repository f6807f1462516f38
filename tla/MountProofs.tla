---------------------------- MODULE MountProofs -----------------------------
(***************************************************************************)
(* Proofs about Mount, for any number of threads, any images and any       *)
(* failures: reads that run at once deliver what they asked for, from the  *)
(* reader that fits the open file, and nothing closed is used but in a     *)
(* crash.                                                                  *)
(***************************************************************************)
EXTENDS Mount, SequenceTheorems, LeastNumber

-----------------------------------------------------------------------------
(* The inductive invariant.                                                *)

\* Between Lock and Unlock.
Critical == {"wrap", "check", "probe", "alloc", "call", "seek", "fetch", "unlock"}

\* In __disk_read.
Reading == {"lock", "return"} \cup Critical

\* Only the owner of read_lock is between them.
LockHeld == \A a \in Actor : thr[a].pc \in Critical => lock = a

Mounting == {"probe", "magic", "super", "groups"}

\* Threads of FUSE run only when mounting is over, and the main thread only
\* before; the handler is installed after the probe.
Turns ==
    /\ stage # "serving" /\ ~Ended => \A t \in Thread : thr[t].pc = "idle"
    /\ stage \in {"start", "serving"} => thr[Main].pc = "idle"
    /\ stage = "reopen" => thr[Main].pc \notin Reading
    /\ stage = "probe" => thr[Main].pc \notin Handler

\* When the disk is open and when there is a reader.
DiskState ==
    /\ disk # 0 => files[disk].open /\ files[disk].atStart
    /\ stage \in {"start", "reopen"} => disk = 0 /\ reader = 0
    /\ stage \in Mounting \cup {"serving"} => disk # 0
    /\ stage \in {"super", "groups", "serving"} => reader # 0

\* The implementations before i do not take the image.
NoneBefore(i) == \A k \in 1 .. i - 1 : ~is_supported(Impls[k], TRUE)

\* What a read delivers.
Delivered(where) == IF image.fmt = "xz_unsupported" THEN Garbage ELSE where

\* What a thread in __disk_read holds, also in a crash.
Fields(a) ==
    /\ thr[a].pc \in {"probe", "alloc"} => thr[a].i \in 1 .. 3
    /\ thr[a].pc = "alloc" => thr[a].file # 0
    /\ thr[a].pc \in {"call", "seek", "fetch"} => thr[a].rd # 0

\* What it knows until a thread crashes.
ReadInv(a) ==
    /\ thr[a].pc \in {"check", "probe", "alloc"} => thr[a].file = disk
    /\ thr[a].pc \in {"probe", "alloc"} => reader = 0 /\ NoneBefore(thr[a].i)
    /\ thr[a].pc = "alloc" => is_supported(Impls[thr[a].i], TRUE)
    /\ thr[a].pc \in {"call", "seek", "fetch"} => thr[a].rd = reader
    /\ thr[a].pc = "fetch" => readers[thr[a].rd].at = thr[a].where
    /\ thr[a].pc \in {"unlock", "return"} /\ thr[a].got # Short =>
          reader # 0 /\ thr[a].got = Delivered(thr[a].where)

\* Descriptors come from where the main thread looked for them, and inodes
\* are read from where they are.
Places ==
    /\ stage \in {"reopen", "magic", "super", "groups", "serving"} =>
          image.fmt # "xz_unsupported"
    /\ \A i \in 1 .. Len(gdesc) : gdesc[i] = DescOffset(image.geo, i - 1)
    /\ stage = "groups" => Len(gdesc) < super_n_block_groups(image.geo)
    /\ stage \in {"start", "probe", "reopen", "magic", "super"} => Len(gdesc) = 0
    /\ stage = "serving" => Len(gdesc) = super_n_block_groups(image.geo)
    /\ stage = "groups" /\ thr[Main].pc \in Reading =>
          thr[Main].where = DescOffset(image.geo, Len(gdesc))
    /\ \A t \in Thread : thr[t].pc \in Reading =>
          thr[t].where = InodePlace(image.geo, thr[t].n)

IInv ==
    /\ TypeOK /\ LockHeld /\ Turns /\ Places
    /\ ReaderFits /\ UseAfterCloseOnlyInCrash /\ OnlyPartialGroupAborts
    /\ \A a \in Actor : Fields(a)
    /\ ~Crashed => DiskState /\ \A a \in Actor : ReadInv(a)

-----------------------------------------------------------------------------
(* Where descriptors and inodes lie.                                       *)

\* super_group_fill reads each descriptor from where it lies, whatever the
\* size of a block.
LEMMA DescRight ==
    ASSUME NEW g, ValidGeometry(g), NEW i \in Nat
    PROVE  DescOffset(g, i) = DescPlace(g, i) /\ DescOffset(g, i) \in Nat
<1>1. CASE g.bsize = 1024
  BY <1>1 DEF ValidGeometry, DescOffset, DescPlace, ALIGN_TO, FirstBlock,
              super_group_desc_size, BOOT_SECTOR_SIZE, SUPER_SIZE,
              GROUP_DESC_MIN_SIZE, GROUP_DESC_SIZE
<1>2. CASE g.bsize = 2048
  BY <1>2 DEF ValidGeometry, DescOffset, DescPlace, ALIGN_TO, FirstBlock,
              super_group_desc_size, BOOT_SECTOR_SIZE, SUPER_SIZE,
              GROUP_DESC_MIN_SIZE, GROUP_DESC_SIZE
<1>3. CASE g.bsize \in Nat /\ g.bsize > 2048
  <2>1. 2048 % g.bsize = 2048
    BY <1>3
  <2>2. ALIGN_TO(BOOT_SECTOR_SIZE + SUPER_SIZE, g.bsize) = g.bsize
    BY <1>3, <2>1 DEF ALIGN_TO, BOOT_SECTOR_SIZE, SUPER_SIZE
  <2> QED
    BY <1>3, <2>2 DEF ValidGeometry, DescOffset, DescPlace, FirstBlock,
       super_group_desc_size, GROUP_DESC_MIN_SIZE, GROUP_DESC_SIZE
<1> QED BY <1>1, <1>2, <1>3 DEF ValidGeometry

\* The groups the code counts are groups of the file system.
LEMMA GroupsCounted ==
    ASSUME NEW g, ValidGeometry(g)
    PROVE  /\ super_n_block_groups(g) \in Nat \ {0}
           /\ Groups(g) \in Nat
           /\ super_n_block_groups(g) <= Groups(g)
<1> DEFINE f == FirstBlock(g)
           n == g.blocks \div g.bpg
           m == g.blocks - f + g.bpg - 1
<1>1. /\ g.blocks \in Nat /\ g.bpg \in Nat \ {0} /\ g.bpg > 1
      /\ f \in {0, 1} /\ g.blocks > f
  BY DEF ValidGeometry, FirstBlock
<1>2. m \in Nat /\ m >= g.bpg /\ m >= g.blocks
  BY <1>1
<1>3. n \in Nat /\ g.bpg * n <= g.blocks
  BY <1>1, DivBelow, Zenon
<1>4. 1 <= m \div g.bpg /\ m \div g.bpg \in Nat
  <2>1. g.bpg * 1 <= m
    BY <1>1, <1>2
  <2> QED BY <2>1, <1>1, <1>2, DivBelow, DivBounds, Zenon
<1>5. n <= m \div g.bpg
  <2>1. g.bpg * n <= m
    BY <1>1, <1>2, <1>3
  <2> QED BY <2>1, <1>1, <1>2, <1>3, DivBounds, Zenon
<1> QED BY <1>1, <1>3, <1>4, <1>5 DEF super_n_block_groups, Groups

\* Where a group is known, inode_get_by_number finds the inode.
LEMMA InodeFound ==
    ASSUME NEW g, ValidGeometry(g), NEW n \in Nat \ {0}, GroupKnown(g, n)
    PROVE  /\ n_group(g, n) \in Nat
           /\ InodeOffset(g, TableAt(g, DescOffset(g, n_group(g, n))), n) = InodePlace(g, n)
           /\ InodePlace(g, n) \in Int
<1> DEFINE k == n_group(g, n)
<1>1. g.ipg \in Nat \ {0} /\ n - 1 \in Nat /\ g.bsize \in Nat /\ g.isize \in Nat
  BY DEF ValidGeometry
<1>2. k \in Nat /\ (n - 1) % g.ipg \in Nat
  <2>1. k \in Nat /\ (n - 1) % g.ipg \in 0 .. g.ipg - 1
    BY <1>1, DivFacts, Zenon DEF n_group
  <2> QED BY <2>1, <1>1
<1>3. k \in 0 .. Groups(g) - 1
  BY <1>2, GroupsCounted DEF GroupKnown
<1>4. \A i \in 0 .. Groups(g) - 1 : DescPlace(g, i) = DescPlace(g, k) => i = k
  <2>1. g.desc \in {0, 64} /\ FirstBlock(g) \in {0, 1}
    BY DEF ValidGeometry, FirstBlock
  <2>2. (FirstBlock(g) + 1) * g.bsize \in Nat
    BY <2>1, <1>1
  <2> DEFINE p == (FirstBlock(g) + 1) * g.bsize
  <2>3. \A i \in Nat : DescPlace(g, i) = p + i * (IF g.desc = 0 THEN 32 ELSE g.desc)
    BY DEF DescPlace
  <2>4. p \in Nat
    BY <2>2
  <2> HIDE DEF p
  <2>5. \A i \in Nat : DescPlace(g, i) = IF g.desc = 0 THEN p + i * 32 ELSE p + i * 64
    BY <2>1, <2>3, <2>4
  <2> QED BY <2>1, <2>4, <2>5, <1>3, GroupsCounted
<1>5. g.table[k] \in Nat /\ g.table[k] % Word = g.table[k]
  <2>1. g.table[k] \in Nat /\ g.blocks \in Nat /\ g.table[k] < g.blocks /\ g.blocks < Word
    BY <1>3 DEF ValidGeometry
  <2> QED BY <2>1, WordAssumption
<1>6. TableAt(g, DescOffset(g, k)) = g.table[k] * g.bsize
  <2>1. DescOffset(g, k) = DescPlace(g, k)
    BY <1>2, DescRight
  <2> QED BY <2>1, <1>3, <1>4, <1>5 DEF TableAt
<1>7. g.table[k] * g.bsize \in Nat /\ ((n - 1) % g.ipg) * g.isize \in Nat
  BY <1>1, <1>2, <1>5
<1> QED BY <1>2, <1>6, <1>7 DEF InodeOffset, InodePlace, n_group

\* An inode of the file system whose group the code does not know belongs to
\* a last group that is smaller than the others.
LEMMA UnknownIsPartial ==
    ASSUME NEW g, ValidGeometry(g), NEW n \in 1 .. Groups(g) * g.ipg,
           ~GroupKnown(g, n)
    PROVE  g.blocks > g.bpg /\ (g.blocks - FirstBlock(g)) % g.bpg # 0
<1> DEFINE f == FirstBlock(g)
           q == super_n_block_groups(g)
           c == Groups(g)
           m == g.blocks - f + g.bpg - 1
<1>1. /\ g.blocks \in Nat /\ g.bpg \in Nat \ {0} /\ g.bpg > 1
      /\ f \in {0, 1} /\ g.blocks > f /\ g.ipg \in Nat \ {0}
  BY DEF ValidGeometry, FirstBlock
<1>2. q \in Nat \ {0} /\ c \in Nat
  BY GroupsCounted
<1>3. q < c
  <2>1. n \in Nat /\ n - 1 \in Nat /\ n - 1 < g.ipg * c
    BY <1>1, <1>2
  <2>2. n_group(g, n) < c
    BY <2>1, <1>1, <1>2, DivBounds DEF n_group
  <2>3. n_group(g, n) \in Nat
    BY <2>1, <1>1, DivFacts DEF n_group
  <2> QED BY <2>2, <2>3, <1>2 DEF GroupKnown
<1>4. m \in Nat /\ c = m \div g.bpg
  BY <1>1 DEF Groups
<1>5. g.bpg * c <= m
  BY <1>1, <1>4, DivBelow, Zenon
<1>6. g.blocks > g.bpg
  <2>1. SUFFICES ASSUME g.blocks <= g.bpg PROVE FALSE
    BY <1>1
  <2>2. m < g.bpg * 2
    BY <2>1, <1>1
  <2>3. c < 2
    BY <2>2, <1>1, <1>4, DivBounds
  <2> QED BY <2>3, <1>2, <1>3
<1>7. (g.blocks - f) % g.bpg # 0
  <2>1. SUFFICES ASSUME (g.blocks - f) % g.bpg = 0 PROVE FALSE
    OBVIOUS
  <2> DEFINE r == (g.blocks - f) \div g.bpg
  <2>a. g.blocks - f \in Nat
    BY <1>1
  <2>b. r \in Nat /\ g.blocks - f = g.bpg * r + ((g.blocks - f) % g.bpg)
    BY <2>a, <1>1, DivFacts, Zenon
  <2>2. g.blocks - f \in Nat /\ r \in Nat /\ g.blocks - f = g.bpg * r
    BY <2>1, <2>a, <2>b, <1>1
  <2>3. m < g.bpg * (r + 1)
    BY <2>2, <1>1
  <2>4. c < r + 1
    BY <2>2, <2>3, <1>1, <1>4, DivBounds
  <2>5. r <= g.blocks \div g.bpg
    BY <2>2, <1>1, DivBounds
  <2>6. g.blocks \div g.bpg <= q /\ g.blocks \div g.bpg \in Nat
    <3>1. g.blocks \div g.bpg \in Nat
      BY <1>1, DivBelow, Zenon
    <3> QED BY <3>1 DEF super_n_block_groups
  <2> QED BY <2>2, <2>4, <2>5, <2>6, <1>2, <1>3
<1> QED BY <1>6, <1>7

-----------------------------------------------------------------------------
(* The invariant holds at the start.                                       *)

Pcs == {"idle", "lock", "wrap", "check", "probe", "alloc", "call",
        "seek", "fetch", "unlock", "return"} \cup Handler

\* The records of threads, of readers and of FILEs.
ReadRec == [pc : Pcs, where : Int, file : 0 .. Len(files), i : 0 .. 3,
            rd : 0 .. Len(readers), got : Int, n : Nat]
ReaderRec == [file : 1 .. Len(files), impl : {"gzip", "xz", "raw"},
              live : BOOLEAN, at : Int]
FileRec == [open : BOOLEAN, atStart : BOOLEAN]

\* The type invariant in terms of them.
LEMMA Types ==
    TypeOK <=>
        /\ image \in Images /\ stage \in Stages
        /\ gdesc \in Seq(Int) /\ Len(gdesc) <= super_n_block_groups(image.geo)
        /\ files \in Seq(FileRec) /\ disk \in 0 .. Len(files)
        /\ readers \in Seq(ReaderRec) /\ reader \in 0 .. Len(readers)
        /\ lock \in Actor \cup {NULL}
        /\ thr \in [Actor -> ReadRec]
        /\ bad \in BOOLEAN
BY DEF TypeOK, ReadRec, ReaderRec, FileRec, Pcs

\* A thread between two reads, and one that enters the handler.
LEMMA IdleTyped == TypeOK => Idle \in ReadRec /\ Sigsegv \in ReadRec
<1>1. TypeOK => 0 \in 0 .. Len(readers) /\ 0 \in 0 .. 3 /\ 0 \in 0 .. Len(files)
  BY DEF TypeOK
<1>2. TypeOK => Idle \in ReadRec
  BY <1>1 DEF Idle, ReadRec, Pcs
<1>3. "sigsegv" \in Pcs
  BY DEF Pcs, Handler
<1>4. Sigsegv = [pc |-> "sigsegv", where |-> 0, file |-> 0, i |-> 0, rd |-> 0,
                 got |-> 0, n |-> 0]
  BY DEF Sigsegv, Idle
<1> QED BY <1>1, <1>2, <1>3, <1>4 DEF ReadRec

\* What the code holds before anything is open is consistent.
LEMMA InitInv == Init => IInv
<1> SUFFICES ASSUME Init PROVE IInv
  OBVIOUS
<1> USE DEF Init
<1>1. TypeOK
  <2>1. super_n_block_groups(image.geo) \in Nat
    BY MountAssumption, GroupsCounted
  <2>2. <<>> \in Seq(Int) /\ Len(<<>>) = 0
    OBVIOUS
  <2>3. files \in Seq(FileRec) /\ readers \in Seq(ReaderRec)
    OBVIOUS
  <2>4. thr \in [Actor -> ReadRec]
    BY <2>2 DEF Idle, ReadRec, Pcs
  <2>5. image \in Images /\ stage \in Stages /\ lock \in Actor \cup {NULL} /\ bad \in BOOLEAN
    BY DEF Stages
  <2>6. gdesc \in Seq(Int) /\ Len(gdesc) <= super_n_block_groups(image.geo)
    BY <2>1, <2>2
  <2>7. disk \in 0 .. Len(files) /\ reader \in 0 .. Len(readers)
    BY <2>2
  <2> QED BY <2>3, <2>4, <2>5, <2>6, <2>7, Types
<1>2. \A a \in Actor : thr[a].pc = "idle"
  BY DEF Idle
<1>3. LockHeld /\ Turns /\ DiskState
  BY <1>2 DEF LockHeld, Turns, DiskState, Actor, Critical, Mounting
<1>4. Places
  BY <1>2 DEF Places, Actor, Reading, Critical
<1>5. ReaderFits /\ UseAfterCloseOnlyInCrash /\ OnlyPartialGroupAborts
  BY DEF ReaderFits, UseAfterCloseOnlyInCrash, OnlyPartialGroupAborts
<1>6. \A a \in Actor : Fields(a) /\ ReadInv(a)
  BY <1>2 DEF Fields, ReadInv
<1> QED BY <1>1, <1>3, <1>4, <1>5, <1>6 DEF IInv

-----------------------------------------------------------------------------
(* What all steps of one thread have in common.                            *)

\* The types after a step of one thread that makes no reader.
LEMMA StepTyped ==
    ASSUME TypeOK, NEW a \in Actor, NEW x \in ReadRec,
           thr' = [thr EXCEPT ![a] = x],
           UNCHANGED <<image, stage, gdesc>>,
           files' \in Seq(FileRec), Len(files') = Len(files), disk' \in 0 .. Len(files),
           readers' \in Seq(ReaderRec), Len(readers') = Len(readers),
           reader' \in 0 .. Len(readers),
           lock' \in Actor \cup {NULL}, bad' \in BOOLEAN
    PROVE  TypeOK' /\ thr'[a] = x /\ \A b \in Actor \ {a} : thr'[b] = thr[b]
<1>1. thr \in [Actor -> ReadRec]
  BY Types
<1>2. thr' \in [Actor -> ReadRec] /\ thr'[a] = x /\ \A b \in Actor \ {a} : thr'[b] = thr[b]
  BY <1>1
<1>3. ReadRec' = ReadRec /\ ReaderRec' = ReaderRec
  BY DEF ReadRec, ReaderRec
<1> QED BY <1>2, <1>3 DEF TypeOK, ReadRec, ReaderRec, FileRec, Pcs

\* While the process runs, only the handler of the main thread can have closed
\* the disk before it serves.
LEMMA Uncrashed ==
    ASSUME IInv, ~Ended, stage # "serving", thr[Main].pc \notin Handler
    PROVE  ~Crashed
BY DEF IInv, Turns, Crashed, Actor, Handler

\* A thread that reads is one of FUSE that is served, or the main thread that
\* mounts.
LEMMA WhoReads ==
    ASSUME IInv, ~Ended, NEW a \in Actor, thr[a].pc \in Reading
    PROVE  IF a = Main THEN stage \in Mounting ELSE stage = "serving"
<1>1. TypeOK /\ Turns /\ Main \notin Thread
  BY MountAssumption DEF IInv
<1> QED BY <1>1 DEF Turns, Actor, Reading, Critical, Mounting, TypeOK, Stages, Ended

\* A step within __disk_read.  Until a thread crashes it leaves the disk and
\* the readers alone, and what is to be shown is the lock and what the thread
\* knows; afterwards only what it holds.
LEMMA ThreadMoves ==
    ASSUME IInv, NEW a \in Actor, ~Ended, NEW x,
           thr'[a] = x, \A b \in Actor \ {a} : thr'[b] = thr[b],
           thr[a].pc \in Reading, x.pc \in Reading,
           x.where = thr[a].where, x.n = thr[a].n,
           UNCHANGED <<image, stage, gdesc>>,
           TypeOK', LockHeld', Fields(a)', bad' => bad \/ Crashed,
           ~Crashed => UNCHANGED <<disk, files, reader, readers>> /\ ReadInv(a)'
    PROVE  IInv'
<1> USE DEF IInv
<1>1. thr[a].pc \notin Handler /\ x.pc \notin Handler /\ x.pc # "idle" /\ thr[a].pc # "idle"
  BY DEF Reading, Critical, Handler
<1>2. Crashed' <=> Crashed
  BY <1>1 DEF Crashed
<1>3. Turns'
  BY <1>1 DEF Turns, Ended, Actor
<1>4. Places'
  BY <1>1 DEF Places, Actor
<1>5. ReaderFits' /\ UseAfterCloseOnlyInCrash' /\ OnlyPartialGroupAborts'
  BY <1>2 DEF ReaderFits, UseAfterCloseOnlyInCrash, OnlyPartialGroupAborts
<1>6. \A b \in Actor : Fields(b)'
  BY DEF Fields
<1>7. ASSUME ~Crashed PROVE DiskState' /\ \A b \in Actor : ReadInv(b)'
  <2>1. DiskState'
    BY <1>7 DEF DiskState
  <2>2. ASSUME NEW b \in Actor \ {a} PROVE ReadInv(b)'
    BY <1>7 DEF ReadInv, NoneBefore, is_supported, Delivered
  <2> QED BY <1>7, <2>1, <2>2
<1> QED BY <1>2, <1>3, <1>4, <1>5, <1>6, <1>7

\* A step in the handler, or into it.
LEMMA HandlerMoves ==
    ASSUME IInv, NEW a \in Actor, ~Ended, NEW x,
           thr'[a] = x, \A b \in Actor \ {a} : thr'[b] = thr[b],
           x.pc \in Handler,
           IF a = Main THEN stage \in {"reopen", "magic", "super", "groups"}
                       ELSE stage = "serving",
           UNCHANGED <<image, stage, gdesc, lock>>, TypeOK'
    PROVE  IInv'
<1> USE DEF IInv
<1>1. x.pc \notin Reading /\ x.pc # "idle" /\ x.pc \notin Critical
      /\ x.pc \notin {"probe", "alloc", "call", "seek", "fetch"}
  BY DEF Reading, Critical, Handler
<1>2. Crashed' /\ Main \notin Thread
  BY MountAssumption DEF Crashed
<1>3. LockHeld'
  BY <1>1 DEF LockHeld
<1>4. Turns'
  BY <1>1, <1>2 DEF Turns, Ended, Actor
<1>5. Places'
  BY <1>1, <1>2 DEF Places, Actor
<1>6. ReaderFits' /\ UseAfterCloseOnlyInCrash' /\ OnlyPartialGroupAborts'
  BY <1>2 DEF ReaderFits, UseAfterCloseOnlyInCrash, OnlyPartialGroupAborts
<1>7. \A b \in Actor : Fields(b)'
  BY <1>1 DEF Fields
<1> QED BY <1>2, <1>3, <1>4, <1>5, <1>6, <1>7

\* The process ends, or stops mounting, and nothing else changes.
LEMMA ProcessEnds ==
    ASSUME IInv, stage' \in {"failed", "exited", "aborted", "no_group"},
           stage' = "no_group" => OnlyPartialGroupAborts',
           UNCHANGED <<image, gdesc, disk, files, reader, readers, lock, thr, bad>>
    PROVE  IInv'
<1> USE DEF IInv
<1>1. Crashed' <=> Crashed
  BY DEF Crashed
<1>2. TypeOK'
  BY DEF TypeOK, Stages
<1>3. LockHeld' /\ Turns' /\ (DiskState => DiskState')
  BY <1>1 DEF LockHeld, Turns, DiskState, Ended, Mounting
<1>4. Places'
  BY DEF Places
<1>5. ReaderFits' /\ UseAfterCloseOnlyInCrash' /\ OnlyPartialGroupAborts'
  BY <1>1 DEF ReaderFits, UseAfterCloseOnlyInCrash, OnlyPartialGroupAborts
<1>6. ASSUME NEW b \in Actor PROVE Fields(b)' /\ (ReadInv(b) => ReadInv(b)')
  BY DEF Fields, ReadInv, NoneBefore, is_supported, Delivered
<1> QED BY <1>1, <1>2, <1>3, <1>4, <1>5, <1>6

-----------------------------------------------------------------------------
(* The steps of __disk_read.                                               *)

\* __disk_read gets the lock.
LEMMA LockStep ==
    ASSUME IInv, NEW a \in Actor, ~Ended, Lock(a)
    PROVE  IInv'
<1> DEFINE x == [thr[a] EXCEPT !.pc = "wrap"]
<1>1. TypeOK /\ LockHeld /\ thr[a] \in ReadRec /\ thr[a].pc = "lock"
      /\ thr' = [thr EXCEPT ![a] = x]
  BY Types DEF IInv, Lock
<1>2. x \in ReadRec /\ x.pc = "wrap" /\ x.where = thr[a].where /\ x.n = thr[a].n
  BY <1>1 DEF ReadRec, Pcs
<1> HIDE DEF x
<1>3. TypeOK' /\ thr'[a] = x /\ \A b \in Actor \ {a} : thr'[b] = thr[b]
  BY <1>1, <1>2, StepTyped, Types DEF Lock
<1>4. LockHeld'
  BY <1>1, <1>2, <1>3, MountAssumption DEF LockHeld, Lock, Actor, Critical
<1>5. Fields(a)' /\ ReadInv(a)'
  BY <1>2, <1>3 DEF Fields, ReadInv
<1>6. thr[a].pc \in Reading /\ x.pc \in Reading
  BY <1>1, <1>2 DEF Reading, Critical
<1> QED BY <1>2, <1>3, <1>4, <1>5, <1>6, ThreadMoves DEF Lock

\* _pread takes the FILE that is open.
LEMMA CallWrapperStep ==
    ASSUME IInv, NEW a \in Actor, ~Ended, CallWrapper(a)
    PROVE  IInv'
<1> DEFINE x == [thr[a] EXCEPT !.pc = "check", !.file = disk]
<1>1. TypeOK /\ LockHeld /\ thr[a] \in ReadRec /\ thr[a].pc = "wrap"
      /\ thr' = [thr EXCEPT ![a] = x]
  BY Types DEF IInv, CallWrapper
<1>2. x \in ReadRec /\ x.pc = "check" /\ x.file = disk
      /\ x.where = thr[a].where /\ x.n = thr[a].n
  <2>1. disk \in 0 .. Len(files) /\ "check" \in Pcs
    BY <1>1 DEF TypeOK, Pcs
  <2> QED BY <1>1, <2>1 DEF ReadRec
<1> HIDE DEF x
<1>3. TypeOK' /\ thr'[a] = x /\ \A b \in Actor \ {a} : thr'[b] = thr[b]
  BY <1>1, <1>2, StepTyped, Types DEF CallWrapper
<1>4. LockHeld'
  BY <1>1, <1>2, <1>3 DEF LockHeld, CallWrapper, Critical
<1>5. Fields(a)' /\ ReadInv(a)'
  BY <1>2, <1>3 DEF Fields, ReadInv, CallWrapper
<1>6. thr[a].pc \in Reading /\ x.pc \in Reading
  BY <1>1, <1>2 DEF Reading, Critical
<1> QED BY <1>2, <1>3, <1>4, <1>5, <1>6, ThreadMoves DEF CallWrapper

\* read_wrapper takes the reader there is, or looks for one.
LEMMA WrapperStep ==
    ASSUME IInv, NEW a \in Actor, ~Ended, read_wrapper(a)
    PROVE  IInv'
<1>1. TypeOK /\ LockHeld /\ thr[a] \in ReadRec /\ thr[a].pc = "check" /\ thr[a].pc \in Reading
  BY Types DEF IInv, read_wrapper, Reading, Critical
<1>2. CASE reader = 0
  <2> DEFINE x == [thr[a] EXCEPT !.pc = "probe", !.i = 1]
  <2>1. x \in ReadRec /\ thr' = [thr EXCEPT ![a] = x]
    <3>1. 1 \in 0 .. 3 /\ "probe" \in Pcs
      BY DEF Pcs
    <3> QED BY <1>1, <1>2, <3>1, Zenon DEF ReadRec, read_wrapper
  <2>2. x.pc = "probe" /\ x.i = 1 /\ x.file = thr[a].file
        /\ x.where = thr[a].where /\ x.n = thr[a].n
    BY <1>1 DEF ReadRec
  <2> HIDE DEF x
  <2>3. TypeOK' /\ thr'[a] = x /\ \A b \in Actor \ {a} : thr'[b] = thr[b]
    BY <1>1, <2>1, StepTyped, Types DEF read_wrapper
  <2>4. LockHeld'
    BY <1>1, <2>2, <2>3 DEF LockHeld, read_wrapper, Critical
  <2>5. Fields(a)'
    BY <2>2, <2>3 DEF Fields
  <2>6. ASSUME ~Crashed PROVE ReadInv(a)'
    <3>1. thr'[a].i = 1 /\ reader' = 0 /\ disk' = disk
      BY <1>2, <2>2, <2>3 DEF read_wrapper
    <3>2. NoneBefore(thr[a].i)'
      BY <3>1 DEF NoneBefore
    <3>3. thr[a].file = disk
      BY <1>1, <2>6 DEF IInv, ReadInv
    <3> QED BY <2>2, <2>3, <3>1, <3>2, <3>3 DEF ReadInv
  <2>7. x.pc \in Reading
    BY <2>2 DEF Reading, Critical
  <2> QED BY <1>1, <2>2, <2>3, <2>4, <2>5, <2>6, <2>7, ThreadMoves DEF read_wrapper
<1>3. CASE reader # 0
  <2> DEFINE x == [thr[a] EXCEPT !.pc = "call", !.rd = reader]
  <2>1. x \in ReadRec /\ thr' = [thr EXCEPT ![a] = x]
    <3>1. reader \in 0 .. Len(readers) /\ "call" \in Pcs
      BY <1>1 DEF Pcs, TypeOK
    <3> QED BY <1>1, <1>3, <3>1, Zenon DEF ReadRec, read_wrapper
  <2>2. x.pc = "call" /\ x.rd = reader /\ x.where = thr[a].where /\ x.n = thr[a].n
    BY <1>1 DEF ReadRec
  <2> HIDE DEF x
  <2>3. TypeOK' /\ thr'[a] = x /\ \A b \in Actor \ {a} : thr'[b] = thr[b]
    BY <1>1, <2>1, StepTyped, Types DEF read_wrapper
  <2>4. LockHeld'
    BY <1>1, <2>2, <2>3 DEF LockHeld, read_wrapper, Critical
  <2>5. Fields(a)' /\ ReadInv(a)'
    BY <1>3, <2>2, <2>3 DEF Fields, ReadInv, read_wrapper
  <2>6. x.pc \in Reading
    BY <2>2 DEF Reading, Critical
  <2> QED BY <1>1, <2>2, <2>3, <2>4, <2>5, <2>6, ThreadMoves DEF read_wrapper
<1> QED BY <1>2, <1>3

\* Until a thread crashes, a FILE that is probed is the open one, at its
\* beginning.
LEMMA ProbedFile ==
    ASSUME IInv, NEW a \in Actor, ~Ended, ~Crashed, thr[a].pc \in {"check", "probe", "alloc"}
    PROVE  thr[a].file = disk /\ disk # 0 /\ files[disk].open /\ files[disk].atStart
<1>1. thr[a].file = disk /\ DiskState /\ thr[a].pc \in Reading
  BY DEF IInv, ReadInv, Reading, Critical
<1>2. stage \in Mounting \cup {"serving"}
  BY <1>1, WhoReads
<1> QED BY <1>1, <1>2 DEF DiskState

\* One turn of get_supported_comp_reader: the probing thread has not passed an
\* implementation that takes the image, and does not pass the raw reader.
LEMMA ProbeStep ==
    ASSUME IInv, NEW a \in Actor, ~Ended, Probe(a)
    PROVE  IInv'
<1> DEFINE f == thr[a].file
           usable == f # 0 /\ files[f].open
<1>1. /\ TypeOK /\ LockHeld /\ thr[a] \in ReadRec /\ thr[a].pc = "probe"
      /\ thr[a].pc \in Reading
      /\ UNCHANGED <<image, stage, gdesc, disk, reader, readers, lock>>
      /\ bad' = (bad \/ ~usable)
      /\ IF usable THEN ProbeOne(a, f) ELSE ProbeClosed(a, f)
  BY Types DEF IInv, Probe, Reading, Critical
<1>2. thr[a].i \in 1 .. 3 /\ f \in 0 .. Len(files)
  BY <1>1 DEF IInv, Fields, ReadRec
<1>3. files' \in Seq(FileRec) /\ Len(files') = Len(files)
  <2>1. files \in Seq(FileRec)
    BY <1>1, Types
  <2>2. CASE usable
    <3> DEFINE v == [files[f] EXCEPT !.atStart = TRUE]
    <3>1. f \in 1 .. Len(files) /\ files' = [files EXCEPT ![f] = v]
      BY <1>1, <1>2, <2>2 DEF ProbeOne
    <3>2. files[f] \in FileRec
      BY <2>1, <3>1, ElementOfSeq, Zenon
    <3>3. v \in FileRec
      BY <3>2 DEF FileRec
    <3> HIDE DEF f, v
    <3> QED BY <2>1, <3>1, <3>3, ExceptSeq
  <2>3. CASE ~usable
    BY <1>1, <2>1, <2>3 DEF ProbeClosed
  <2> QED BY <2>2, <2>3
<1>4. ASSUME ~Crashed
      PROVE  /\ usable /\ files' = files /\ f = disk
             /\ reader = 0 /\ NoneBefore(thr[a].i)
             /\ ProbeOne(a, f) /\ files[f].atStart = TRUE
  <2>1. f = disk /\ disk # 0 /\ files[disk].open /\ files[disk].atStart
    BY <1>1, <1>4, ProbedFile
  <2>2. f \in 1 .. Len(files) /\ files \in Seq(FileRec)
    BY <1>1, <1>2, <2>1, Types
  <2>3. files[f] \in FileRec
    BY <2>2, ElementOfSeq, Zenon
  <2>4. files[f].atStart = TRUE
    BY <2>1, <2>3, Zenon DEF FileRec
  <2>5. files[f] = [files[f] EXCEPT !.atStart = TRUE]
    BY <2>3, <2>4 DEF FileRec
  <2>6. ProbeOne(a, f)
    BY <1>1, <2>1
  <2>7. files' = [files EXCEPT ![f] = [files[f] EXCEPT !.atStart = TRUE]]
    BY <2>6 DEF ProbeOne
  <2>8. files' = files
    BY <2>2, <2>5, <2>7
  <2>9. reader = 0 /\ NoneBefore(thr[a].i)
    BY <1>1, <1>4 DEF IInv, ReadInv
  <2> QED BY <2>1, <2>4, <2>6, <2>8, <2>9
<1>5. bad' \in BOOLEAN /\ (bad' => bad \/ Crashed)
  BY <1>1, <1>4, Zenon DEF TypeOK
<1>6. CASE thr' = [thr EXCEPT ![a].pc = "alloc"] /\ f # 0
           /\ (~Crashed => is_supported(Impls[thr[a].i], TRUE))
  <2> DEFINE x == [thr[a] EXCEPT !.pc = "alloc"]
  <2>1. /\ x \in ReadRec /\ x.pc = "alloc" /\ x.i = thr[a].i /\ x.file = f
        /\ x.where = thr[a].where /\ x.n = thr[a].n
    BY <1>1 DEF ReadRec, Pcs
  <2>2. thr' = [thr EXCEPT ![a] = x]
    BY <1>6
  <2> HIDE DEF x, f
  <2>3. TypeOK' /\ thr'[a] = x /\ \A b \in Actor \ {a} : thr'[b] = thr[b]
    BY <1>1, <1>3, <1>5, <2>1, <2>2, StepTyped, Types
  <2>4. LockHeld'
    BY <1>1, <2>1, <2>3 DEF LockHeld, Critical
  <2>5. Fields(a)'
    BY <1>2, <1>6, <2>1, <2>3 DEF Fields
  <2>6. ASSUME ~Crashed PROVE ReadInv(a)'
    BY <1>1, <1>4, <1>6, <2>1, <2>3, <2>6 DEF ReadInv, NoneBefore, is_supported
  <2>7. x.pc \in Reading
    BY <2>1 DEF Reading, Critical
  <2> QED BY <1>1, <1>4, <1>5, <2>1, <2>3, <2>4, <2>5, <2>6, <2>7, ThreadMoves
<1>7. CASE thr' = [thr EXCEPT ![a].i = thr[a].i + 1] /\ Impls[thr[a].i] # "raw"
           /\ (~Crashed => ~is_supported(Impls[thr[a].i], TRUE))
  <2> DEFINE x == [thr[a] EXCEPT !.i = thr[a].i + 1]
  <2>1. thr[a].i + 1 \in 1 .. 3
    BY <1>2, <1>7 DEF Impls
  <2>2. /\ x \in ReadRec /\ x.pc = "probe" /\ x.i = thr[a].i + 1 /\ x.file = f
        /\ x.where = thr[a].where /\ x.n = thr[a].n
    BY <1>1, <2>1 DEF ReadRec
  <2>3. thr' = [thr EXCEPT ![a] = x]
    BY <1>7
  <2> HIDE DEF x, f
  <2>4. TypeOK' /\ thr'[a] = x /\ \A b \in Actor \ {a} : thr'[b] = thr[b]
    BY <1>1, <1>3, <1>5, <2>2, <2>3, StepTyped, Types
  <2>5. LockHeld'
    BY <1>1, <2>2, <2>4 DEF LockHeld, Critical
  <2>6. Fields(a)'
    BY <2>1, <2>2, <2>4 DEF Fields
  <2>7. ASSUME ~Crashed PROVE ReadInv(a)'
    <3>1. NoneBefore(thr[a].i)'
      BY <1>1, <1>2, <1>4, <1>7, <2>2, <2>4, <2>7 DEF NoneBefore, is_supported
    <3> QED BY <1>1, <1>4, <2>2, <2>4, <2>7, <3>1 DEF ReadInv
  <2>8. x.pc \in Reading
    BY <2>2 DEF Reading, Critical
  <2> QED BY <1>1, <1>4, <1>5, <2>2, <2>4, <2>5, <2>6, <2>7, <2>8, ThreadMoves
<1>8. CASE thr' = [thr EXCEPT ![a] = Sigsegv] /\ ~usable
  <2>1. Crashed
    BY <1>4, <1>8
  <2>2. Sigsegv \in ReadRec /\ Sigsegv.pc \in Handler
    BY <1>1, IdleTyped DEF Sigsegv, Idle, Handler
  <2> HIDE DEF Sigsegv
  <2>3. TypeOK' /\ thr'[a] = Sigsegv /\ \A b \in Actor \ {a} : thr'[b] = thr[b]
    BY <1>1, <1>3, <1>5, <1>8, <2>2, StepTyped, Types
  <2>4. IF a = Main THEN stage \in Mounting ELSE stage = "serving"
    BY <1>1, WhoReads
  <2>5. thr[Main].pc \notin Handler /\ a = Main => FALSE
    <3>1. a = Main => stage # "serving"
      BY <2>4 DEF Mounting
    <3> QED BY <2>1, <3>1, Uncrashed
  <2>6. a # Main
    BY <2>5, <1>1 DEF Handler
  <2> QED BY <1>1, <2>2, <2>3, <2>4, <2>6, HandlerMoves
<1>9. CASE usable
  <2>1. ProbeOne(a, f) /\ f # 0
    BY <1>1, <1>9
  <2>2. CASE is_supported(Impls[thr[a].i], files[f].atStart)
    <3>1. thr' = [thr EXCEPT ![a].pc = "alloc"]
      BY <2>1, <2>2 DEF ProbeOne
    <3>2. ~Crashed => is_supported(Impls[thr[a].i], TRUE)
      BY <1>4, <2>2
    <3> QED BY <2>1, <3>1, <3>2, <1>6
  <2>3. CASE ~is_supported(Impls[thr[a].i], files[f].atStart)
    <3>1. thr' = [thr EXCEPT ![a].i = thr[a].i + 1]
      BY <2>1, <2>3, <1>1, Types DEF ProbeOne
    <3>2. ~Crashed => ~is_supported(Impls[thr[a].i], TRUE)
      BY <1>4, <2>3
    <3>3. Impls[thr[a].i] # "raw"
      BY <2>3 DEF is_supported
    <3> QED BY <3>1, <3>2, <3>3, <1>7
  <2> QED BY <2>2, <2>3
<1>10. CASE ~usable
  <2>1. ProbeClosed(a, f) /\ Crashed
    BY <1>1, <1>4, <1>10
  <2>2. ASSUME thr' = [thr EXCEPT ![a].i = @ + 1] PROVE thr' = [thr EXCEPT ![a].i = thr[a].i + 1]
    BY <2>2, <1>1, Types
  <2> QED BY <2>1, <2>2, <1>6, <1>7, <1>8, <1>10 DEF ProbeClosed
<1> QED BY <1>9, <1>10

\* compression_reader_alloc fails: the read reports nothing.
LEMMA AllocFailsStep ==
    ASSUME IInv, NEW a \in Actor, ~Ended, AllocFails(a)
    PROVE  IInv'
<1> DEFINE x == [thr[a] EXCEPT !.pc = "unlock", !.got = Short]
<1>1. /\ TypeOK /\ LockHeld /\ thr[a] \in ReadRec /\ thr[a].pc = "alloc"
      /\ thr' = [thr EXCEPT ![a] = x] /\ reader' = 0
      /\ UNCHANGED <<image, stage, gdesc, disk, files, readers, lock>>
      /\ bad' = (bad \/ ~files[thr[a].file].open)
  BY Types DEF IInv, AllocFails
<1>2. /\ x \in ReadRec /\ x.pc = "unlock" /\ x.got = Short
      /\ x.where = thr[a].where /\ x.n = thr[a].n
  <2>1. Short \in Int /\ "unlock" \in Pcs
    BY DEF Short, Pcs
  <2> QED BY <1>1, <2>1 DEF ReadRec
<1> HIDE DEF x
<1>3. ASSUME ~Crashed PROVE reader = 0 /\ files[thr[a].file].open
  BY <1>1, <1>3, ProbedFile DEF IInv, ReadInv
<1>4. bad' \in BOOLEAN /\ (bad' => bad \/ Crashed) /\ reader' \in 0 .. Len(readers)
  BY <1>1, <1>3 DEF TypeOK
<1>5. TypeOK' /\ thr'[a] = x /\ \A b \in Actor \ {a} : thr'[b] = thr[b]
  BY <1>1, <1>2, <1>4, StepTyped, Types
<1>6. LockHeld'
  BY <1>1, <1>2, <1>5 DEF LockHeld, Critical
<1>7. Fields(a)' /\ ReadInv(a)'
  BY <1>2, <1>5 DEF Fields, ReadInv
<1>8. thr[a].pc \in Reading /\ x.pc \in Reading
  BY <1>1, <1>2 DEF Reading, Critical
<1> QED BY <1>1, <1>2, <1>3, <1>4, <1>5, <1>6, <1>7, <1>8, ThreadMoves

\* The mutex is released.
LEMMA UnlockStep ==
    ASSUME IInv, NEW a \in Actor, ~Ended, Unlock(a)
    PROVE  IInv'
<1> DEFINE x == [thr[a] EXCEPT !.pc = "return"]
<1>1. TypeOK /\ LockHeld /\ thr[a] \in ReadRec /\ thr[a].pc = "unlock"
      /\ thr' = [thr EXCEPT ![a] = x]
  BY Types DEF IInv, Unlock
<1>2. /\ x \in ReadRec /\ x.pc = "return" /\ x.got = thr[a].got
      /\ x.where = thr[a].where /\ x.n = thr[a].n
  BY <1>1 DEF ReadRec, Pcs
<1> HIDE DEF x
<1>3. TypeOK' /\ thr'[a] = x /\ \A b \in Actor \ {a} : thr'[b] = thr[b]
  BY <1>1, <1>2, StepTyped, Types DEF Unlock
<1>4. LockHeld'
  BY <1>1, <1>2, <1>3 DEF LockHeld, Unlock, Critical
<1>5. Fields(a)' /\ (~Crashed => ReadInv(a)')
  <2>1. Fields(a)'
    BY <1>2, <1>3 DEF Fields
  <2>2. ASSUME ~Crashed PROVE ReadInv(a)'
    <3>1. ReadInv(a)
      BY <2>2 DEF IInv
    <3> QED BY <1>1, <1>2, <1>3, <3>1 DEF ReadInv, Unlock, Delivered
  <2> QED BY <2>1, <2>2
<1>6. thr[a].pc \in Reading /\ x.pc \in Reading
  BY <1>1, <1>2 DEF Reading, Critical
<1> QED BY <1>2, <1>3, <1>4, <1>5, <1>6, ThreadMoves DEF Unlock

\* compression_read is called: until a thread crashes, the variable still holds
\* the reader that was tested or stored.
LEMMA CallReaderStep ==
    ASSUME IInv, NEW a \in Actor, ~Ended, CallReader(a)
    PROVE  IInv'
<1>1. /\ TypeOK /\ LockHeld /\ thr[a] \in ReadRec /\ thr[a].pc = "call" /\ thr[a].pc \in Reading
      /\ UNCHANGED <<image, stage, gdesc, disk, files, reader, readers, lock, bad>>
      /\ thr[a].rd # 0 /\ (~Crashed => thr[a].rd = reader)
  BY Types DEF IInv, CallReader, Reading, Critical, Fields, ReadInv
<1>2. PICK r \in PassedOn(a) :
         IF r # 0 THEN thr' = [thr EXCEPT ![a].pc = "seek", ![a].rd = r]
         ELSE \E x \in NoReader(a) : thr' = [thr EXCEPT ![a] = x]
  BY DEF CallReader
<1>3. r \in 0 .. Len(readers) /\ (~Crashed => r = reader /\ r # 0)
  BY <1>1, <1>2 DEF PassedOn, TypeOK, ReadRec
<1>4. CASE r # 0
  <2> DEFINE x == [thr[a] EXCEPT !.pc = "seek", !.rd = r]
  <2>1. x \in ReadRec /\ x.pc = "seek" /\ x.rd = r /\ x.where = thr[a].where /\ x.n = thr[a].n
    <3>1. "seek" \in Pcs
      BY DEF Pcs
    <3> QED BY <1>1, <1>3, <3>1 DEF ReadRec
  <2>2. thr' = [thr EXCEPT ![a] = x]
    BY <1>2, <1>4
  <2> HIDE DEF x
  <2>3. TypeOK' /\ thr'[a] = x /\ \A b \in Actor \ {a} : thr'[b] = thr[b]
    BY <1>1, <2>1, <2>2, StepTyped, Types
  <2>4. LockHeld'
    BY <1>1, <2>1, <2>3 DEF LockHeld, Critical
  <2>5. Fields(a)' /\ (~Crashed => ReadInv(a)')
    BY <1>1, <1>3, <1>4, <2>1, <2>3 DEF Fields, ReadInv
  <2>6. x.pc \in Reading
    BY <2>1 DEF Reading, Critical
  <2> QED BY <1>1, <2>1, <2>3, <2>4, <2>5, <2>6, ThreadMoves
<1>5. CASE r = 0
  <2>1. PICK x \in NoReader(a) : thr' = [thr EXCEPT ![a] = x]
    BY <1>2, <1>5
  <2>2. Crashed
    BY <1>3, <1>5
  <2>3. CASE x = Sigsegv
    <3>1. Sigsegv \in ReadRec /\ Sigsegv.pc \in Handler
      BY <1>1, IdleTyped DEF Sigsegv, Idle, Handler
    <3> HIDE DEF Sigsegv
    <3>2. TypeOK' /\ thr'[a] = x /\ \A b \in Actor \ {a} : thr'[b] = thr[b]
      BY <1>1, <2>1, <2>3, <3>1, StepTyped, Types
    <3>3. IF a = Main THEN stage \in Mounting ELSE stage = "serving"
      BY <1>1, WhoReads
    <3>4. a = Main => stage # "serving" /\ thr[Main].pc \notin Handler
      BY <1>1, <3>3 DEF Mounting, Handler
    <3>5. a # Main
      BY <2>2, <3>4, Uncrashed
    <3> QED BY <1>1, <2>3, <3>1, <3>2, <3>3, <3>5, HandlerMoves
  <2>4. CASE x = [thr[a] EXCEPT !.pc = "unlock", !.got = Short]
    <3>1. x \in ReadRec /\ x.pc = "unlock" /\ x.where = thr[a].where /\ x.n = thr[a].n
      <4>1. Short \in Int /\ "unlock" \in Pcs
        BY DEF Short, Pcs
      <4> QED BY <1>1, <2>4, <4>1 DEF ReadRec
    <3>2. TypeOK' /\ thr'[a] = x /\ \A b \in Actor \ {a} : thr'[b] = thr[b]
      BY <1>1, <2>1, <3>1, StepTyped, Types
    <3>3. LockHeld'
      BY <1>1, <3>1, <3>2 DEF LockHeld, Critical
    <3>4. Fields(a)'
      BY <3>1, <3>2 DEF Fields
    <3>5. x.pc \in Reading
      BY <3>1 DEF Reading, Critical
    <3> QED BY <1>1, <2>2, <3>1, <3>2, <3>3, <3>4, <3>5, ThreadMoves
  <2> QED BY <2>1, <2>3, <2>4 DEF NoReader
<1> QED BY <1>4, <1>5

\* The readers a thread uses are live and their FILE is open, unless a thread
\* has crashed.
LEMMA UsableReader ==
    ASSUME IInv, NEW a \in Actor, thr[a].pc \in {"seek", "fetch"}, ~Crashed
    PROVE  Usable(thr[a].rd) /\ thr[a].rd = reader /\ reader # 0
<1>1. thr[a].rd = reader /\ reader # 0
  BY DEF IInv, ReadInv, Fields
<1>2. readers[reader].live /\ readers[reader].file = disk
  BY <1>1 DEF IInv, ReaderFits
<1>3. readers[reader].file \in 1 .. Len(files)
  <2>1. readers \in Seq(ReaderRec) /\ reader \in 1 .. Len(readers)
    BY <1>1, Types DEF IInv
  <2>2. readers[reader] \in ReaderRec
    BY <2>1, ElementOfSeq, Zenon
  <2> QED BY <2>2 DEF ReaderRec
<1>4. disk # 0
  BY <1>2, <1>3
<1>5. files[disk].open
  BY <1>4 DEF IInv, DiskState
<1> QED BY <1>1, <1>2, <1>5 DEF Usable

\* compression_read's second half: no other thread has moved the reader since
\* the seek.
LEMMA FetchStep ==
    ASSUME IInv, NEW a \in Actor, ~Ended, Fetch(a)
    PROVE  IInv'
<1> DEFINE k == thr[a].rd
           r == readers[k]
<1>1. /\ TypeOK /\ LockHeld /\ thr[a] \in ReadRec /\ thr[a].pc = "fetch" /\ k # 0
      /\ UNCHANGED <<image, stage, gdesc, disk, files, reader, readers, lock>>
      /\ bad' = (bad \/ ~Usable(k))
  BY Types DEF IInv, Fetch, Fields
<1>2. PICK got \in Fetched(k) : thr' = [thr EXCEPT ![a].pc = "unlock", ![a].got = got]
  BY DEF Fetch
<1>3. r \in ReaderRec
  <2>1. readers \in Seq(ReaderRec) /\ k \in 1 .. Len(readers)
    BY <1>1, Types DEF ReadRec
  <2> QED BY <2>1, ElementOfSeq, Zenon
<1>4. got \in Int
  BY <1>2, <1>3 DEF Fetched, Garbage, Short, ReaderRec
<1>5. ASSUME got # Short, ~Crashed PROVE reader # 0 /\ got = Delivered(thr[a].where)
  <2>1. Usable(k) /\ k = reader /\ reader # 0
    BY <1>1, <1>5, UsableReader
  <2>2. r.impl = IF image.fmt \in {"gzip", "xz"} THEN image.fmt ELSE "raw"
    BY <2>1, <1>5 DEF IInv, ReaderFits
  <2>3. image.fmt \in Formats
    BY <1>1, MountAssumption DEF TypeOK
  <2>4. r.at = thr[a].where
    BY <1>1, <1>5 DEF IInv, ReadInv
  <2>5. got = IF r.impl = image.fmt THEN thr[a].where ELSE Garbage
    BY <1>2, <1>5, <2>1, <2>4 DEF Fetched
  <2> QED BY <2>1, <2>2, <2>3, <2>5 DEF Formats, Delivered
<1> DEFINE x == [thr[a] EXCEPT !.pc = "unlock", !.got = got]
<1>6. /\ x \in ReadRec /\ x.pc = "unlock" /\ x.got = got
      /\ x.where = thr[a].where /\ x.n = thr[a].n
  <2>1. "unlock" \in Pcs
    BY DEF Pcs
  <2> QED BY <1>1, <1>4, <2>1 DEF ReadRec
<1>7. thr' = [thr EXCEPT ![a] = x]
  BY <1>2
<1>8. bad' \in BOOLEAN /\ (bad' => bad \/ Crashed)
  BY <1>1, UsableReader, Zenon DEF TypeOK
<1> HIDE DEF x, r
<1>9. TypeOK' /\ thr'[a] = x /\ \A b \in Actor \ {a} : thr'[b] = thr[b]
  BY <1>1, <1>6, <1>7, <1>8, StepTyped, Types
<1>10. LockHeld'
  BY <1>1, <1>6, <1>9 DEF LockHeld, Critical
<1>11. Fields(a)' /\ (~Crashed => ReadInv(a)')
  BY <1>1, <1>5, <1>6, <1>9 DEF Fields, ReadInv, Delivered
<1>12. thr[a].pc \in Reading /\ x.pc \in Reading
  BY <1>1, <1>6 DEF Reading, Critical
<1> QED BY <1>1, <1>6, <1>8, <1>9, <1>10, <1>11, <1>12, ThreadMoves

\* compression_read's first half moves the one reader there is, and only the
\* owner of the lock is about to fetch from it.
LEMMA SeekStep ==
    ASSUME IInv, NEW a \in Actor, ~Ended, Seek(a)
    PROVE  IInv'
<1> DEFINE x == [thr[a] EXCEPT !.pc = "fetch"]
           k == thr[a].rd
           v == [readers[k] EXCEPT !.at = thr[a].where]
<1>1. /\ TypeOK /\ LockHeld /\ thr[a] \in ReadRec /\ thr[a].pc = "seek"
      /\ UNCHANGED <<image, stage, gdesc, disk, files, reader, lock>>
      /\ bad' = (bad \/ ~Usable(k)) /\ thr' = [thr EXCEPT ![a] = x]
  BY Types DEF IInv, Seek
<1>2. k \in 1 .. Len(readers) /\ thr[a].where \in Int /\ (~Crashed => k = reader)
  <2>1. k # 0 /\ k \in 0 .. Len(readers) /\ thr[a].where \in Int
    BY <1>1 DEF IInv, Fields, ReadRec
  <2>2. ~Crashed => k = reader
    BY <1>1 DEF IInv, ReadInv
  <2> QED BY <2>1, <2>2
<1>3. readers \in Seq(ReaderRec) /\ readers' = [readers EXCEPT ![k] = v]
  BY <1>1, Types DEF Seek
<1>4. readers[k] \in ReaderRec
  BY <1>2, <1>3, ElementOfSeq, Zenon
<1>5. /\ v \in ReaderRec
      /\ v.at = thr[a].where /\ v.file = readers[k].file /\ v.impl = readers[k].impl
      /\ v.live = readers[k].live
  BY <1>2, <1>4 DEF ReaderRec
<1>6. x \in ReadRec /\ x.pc = "fetch" /\ x.rd = k /\ x.where = thr[a].where /\ x.n = thr[a].n
  BY <1>1 DEF ReadRec, Pcs
<1>7. bad' \in BOOLEAN /\ (bad' => bad \/ Crashed)
  BY <1>1, UsableReader, Zenon DEF TypeOK
<1> HIDE DEF x, v
<1>8. /\ readers' \in Seq(ReaderRec) /\ Len(readers') = Len(readers) /\ readers'[k] = v
      /\ \A m \in 1 .. Len(readers) : m # k => readers'[m] = readers[m]
  <2> HIDE DEF k
  <2> QED BY <1>2, <1>3, <1>5, ExceptSeq
<1> HIDE DEF k
<1>9. TypeOK' /\ thr'[a] = x /\ \A b \in Actor \ {a} : thr'[b] = thr[b]
  BY <1>1, <1>6, <1>7, <1>8, StepTyped, Types
<1>10. LockHeld'
  BY <1>1, <1>6, <1>9 DEF LockHeld, Critical
<1>11. Fields(a)'
  <2>1. thr'[a].pc = "fetch" /\ thr'[a].rd = k /\ k # 0
    BY <1>2, <1>6, <1>9
  <2> QED BY <2>1 DEF Fields
<1>12. thr[a].pc \in Reading /\ x.pc \in Reading /\ thr[a].pc # "idle" /\ x.pc # "idle"
       /\ thr[a].pc \notin Handler /\ x.pc \notin Handler
  BY <1>1, <1>6 DEF Reading, Critical, Handler
<1>13. CASE Crashed
  BY <1>1, <1>6, <1>7, <1>9, <1>10, <1>11, <1>12, <1>13, ThreadMoves
<1>14. CASE ~Crashed
  <2>1. ~Crashed'
    BY <1>9, <1>12, <1>14 DEF Crashed
  <2>2. Turns' /\ DiskState'
    BY <1>1, <1>9, <1>12, <1>14 DEF IInv, Turns, DiskState, Ended, Actor
  <2>3. Places'
    BY <1>1, <1>6, <1>9, <1>12 DEF IInv, Places, Actor
  <2>4. ReaderFits'
    <3>1. \A m \in 1 .. Len(readers) : /\ readers'[m].live = readers[m].live
                                       /\ readers'[m].file = readers[m].file
                                       /\ readers'[m].impl = readers[m].impl
      BY <1>5, <1>8
    <3>2. reader \in 0 .. Len(readers) /\ ReaderFits
      BY <1>1 DEF TypeOK, IInv
    <3> QED BY <1>1, <1>8, <1>14, <3>1, <3>2 DEF ReaderFits
  <2>5. UseAfterCloseOnlyInCrash' /\ OnlyPartialGroupAborts'
    BY <1>1, <1>7, <1>14 DEF IInv, UseAfterCloseOnlyInCrash, OnlyPartialGroupAborts
  <2>6. ASSUME NEW b \in Actor PROVE Fields(b)' /\ ReadInv(b)'
    <3>1. CASE b = a
      <4>1. thr'[b].pc = "fetch" /\ thr'[b].rd = k /\ thr'[b].where = thr[a].where
        BY <3>1, <1>6, <1>9
      <4> QED BY <3>1, <4>1, <1>1, <1>2, <1>5, <1>8, <1>11, <1>14 DEF ReadInv
    <3>2. CASE b # a
      <4>1. thr'[b] = thr[b] /\ thr[b].pc \notin Critical /\ ReadInv(b) /\ Fields(b)
        BY <3>2, <1>1, <1>9, <1>14 DEF LockHeld, IInv, Critical
      <4> QED BY <4>1, <1>1 DEF ReadInv, Fields, Delivered, Critical
    <3> QED BY <3>1, <3>2
  <2> QED BY <1>9, <1>10, <2>2, <2>3, <2>4, <2>5, <2>6 DEF IInv
<1> QED BY <1>13, <1>14

\* compression_reader_alloc: while there is no reader and nobody has crashed,
\* only the main thread reads, and the implementation it has come to is the
\* first that takes the image.
LEMMA AllocStep ==
    ASSUME IInv, NEW a \in Actor, ~Ended, Alloc(a)
    PROVE  IInv'
<1> DEFINE k == Len(readers) + 1
           x == [thr[a] EXCEPT !.pc = "call", !.rd = k]
           v == [file |-> thr[a].file, impl |-> Impls[thr[a].i], live |-> TRUE, at |-> 0]
<1>1. /\ TypeOK /\ LockHeld /\ thr[a] \in ReadRec /\ thr[a].pc = "alloc"
      /\ UNCHANGED <<image, stage, gdesc, disk, files, lock>> /\ reader' = k
      /\ bad' = (bad \/ ~files[thr[a].file].open)
      /\ thr' = [thr EXCEPT ![a] = x] /\ readers' = Append(readers, v)
  BY Types DEF IInv, Alloc
<1>2. thr[a].i \in 1 .. 3 /\ thr[a].file \in 1 .. Len(files)
  BY <1>1 DEF IInv, Fields, ReadRec
<1>3. readers \in Seq(ReaderRec) /\ v \in ReaderRec
  <2>1. Impls[thr[a].i] \in {"gzip", "xz", "raw"}
    BY <1>2 DEF Impls
  <2> QED BY <1>1, <1>2, <2>1, Types DEF ReaderRec
<1>4. v.live = TRUE /\ v.file = thr[a].file /\ v.impl = Impls[thr[a].i]
  OBVIOUS
<1>5. k \in Nat /\ k \in 1 .. k /\ Len(readers) \in Nat
  BY <1>3, LenProperties
<1>6. /\ x.pc = "call" /\ x.rd = k /\ x.where = thr[a].where /\ x.n = thr[a].n
  BY <1>1 DEF ReadRec
<1> HIDE DEF v
<1>7. /\ readers' \in Seq(ReaderRec) /\ Len(readers') = k /\ readers'[k] = v
      /\ \A m \in 1 .. Len(readers) : readers'[m] = readers[m]
  BY <1>1, <1>3, AppendProperties
<1>8. bad' \in BOOLEAN /\ (bad' => bad \/ Crashed)
  <2>1. ~Crashed => files[thr[a].file].open
    BY <1>1, ProbedFile
  <2> QED BY <1>1, <2>1 DEF TypeOK
<1>9. TypeOK' /\ thr'[a] = x /\ \A b \in Actor \ {a} : thr'[b] = thr[b]
  <2>1. ReadRec \subseteq ReadRec' /\ thr \in [Actor -> ReadRec]
    <3>1. 0 .. Len(readers) \subseteq 0 .. Len(readers') /\ files' = files
      BY <1>1, <1>5, <1>7
    <3> QED BY <1>1, <3>1, Types DEF ReadRec
  <2>2. x \in ReadRec'
    <3>1. k \in 0 .. Len(readers') /\ "call" \in Pcs
      BY <1>5, <1>7 DEF Pcs
    <3>2. thr[a] \in ReadRec'
      BY <1>1, <2>1
    <3> HIDE DEF k
    <3> QED BY <3>1, <3>2, Zenon DEF ReadRec
  <2> HIDE DEF x
  <2>3. thr' \in [Actor -> ReadRec'] /\ thr'[a] = x /\ \A b \in Actor \ {a} : thr'[b] = thr[b]
    BY <1>1, <2>1, <2>2
  <2>4. reader' \in 0 .. Len(readers') /\ ReaderRec' = ReaderRec
    BY <1>1, <1>5, <1>7 DEF ReaderRec
  <2> QED BY <1>1, <1>7, <1>8, <2>3, <2>4 DEF TypeOK, ReadRec, ReaderRec, Pcs
<1> HIDE DEF x, k
<1>10. LockHeld'
  BY <1>1, <1>6, <1>9 DEF LockHeld, Critical
<1>11. Fields(a)'
  <2>1. thr'[a].pc = "call" /\ thr'[a].rd = k /\ k # 0
    BY <1>5, <1>6, <1>9
  <2> QED BY <2>1 DEF Fields
<1>12. thr[a].pc \in Reading /\ x.pc \in Reading /\ thr[a].pc # "idle" /\ x.pc # "idle"
       /\ thr[a].pc \notin Handler /\ x.pc \notin Handler
  BY <1>1, <1>6 DEF Reading, Critical, Handler
<1>13. CASE Crashed
  BY <1>1, <1>6, <1>8, <1>9, <1>10, <1>11, <1>12, <1>13, ThreadMoves
<1>14. CASE ~Crashed
  <2>1. /\ reader = 0 /\ NoneBefore(thr[a].i) /\ is_supported(Impls[thr[a].i], TRUE)
        /\ thr[a].file = disk /\ disk # 0 /\ DiskState
    BY <1>1, <1>14, ProbedFile DEF IInv, ReadInv
  <2>2. a = Main /\ stage \in {"probe", "magic"} /\ \A t \in Thread : thr[t].pc = "idle"
    <3>1. IF a = Main THEN stage \in Mounting ELSE stage = "serving"
      BY <1>12, WhoReads
    <3> QED BY <2>1, <3>1 DEF IInv, DiskState, Turns, Mounting
  <2>3. v.impl = IF image.fmt \in {"gzip", "xz"} THEN image.fmt ELSE "raw"
    BY <1>2, <1>4, <2>1 DEF NoneBefore, is_supported, Impls
  <2>4. ~Crashed'
    BY <1>9, <1>12, <1>14 DEF Crashed
  <2>5. Turns' /\ DiskState'
    BY <1>1, <1>5, <1>9, <1>12, <2>1, <2>2 DEF IInv, Turns, DiskState, Ended, Actor, Mounting
  <2>6. Places'
    BY <1>1, <1>6, <1>9, <1>12 DEF IInv, Places, Actor
  <2>7. ReaderFits'
    <3>1. \A m \in 1 .. Len(readers) : ~readers[m].live
      BY <1>14, <2>1 DEF IInv, ReaderFits
    <3>2. \A m \in 1 .. Len(readers') : m # k => ~readers'[m].live
      <4>1. \A m \in 1 .. k : m # k => m \in 1 .. Len(readers)
        BY <1>5 DEF k
      <4> QED BY <3>1, <4>1, <1>7
    <3> QED BY <3>2, <1>1, <1>4, <1>7, <2>1, <2>3 DEF ReaderFits
  <2>8. UseAfterCloseOnlyInCrash' /\ OnlyPartialGroupAborts'
    BY <1>1, <1>8, <1>14 DEF IInv, UseAfterCloseOnlyInCrash, OnlyPartialGroupAborts
  <2>9. ASSUME NEW b \in Actor PROVE Fields(b)' /\ ReadInv(b)'
    <3>1. CASE b = a
      <4>1. thr'[b].pc = "call" /\ thr'[b].rd = k
        BY <3>1, <1>6, <1>9
      <4> QED BY <3>1, <4>1, <1>1, <1>11 DEF ReadInv
    <3>2. CASE b # a
      <4>1. thr'[b].pc = "idle"
        BY <3>2, <1>9, <2>2 DEF Actor
      <4> QED BY <4>1 DEF ReadInv, Fields
    <3> QED BY <3>1, <3>2
  <2> QED BY <1>9, <1>10, <2>5, <2>6, <2>7, <2>8, <2>9 DEF IInv
<1> QED BY <1>13, <1>14

-----------------------------------------------------------------------------
(* The steps of the SIGSEGV handler.                                       *)

\* Where a thread is that is in the handler.
LEMMA WhoHandles ==
    ASSUME IInv, ~Ended, NEW a \in Actor, thr[a].pc \in Handler
    PROVE  IF a = Main THEN stage \in {"reopen", "magic", "super", "groups"}
                       ELSE stage = "serving"
<1>1. TypeOK /\ Turns /\ Main \notin Thread /\ thr[a].pc # "idle"
  BY MountAssumption DEF IInv, Handler
<1> QED BY <1>1 DEF Turns, Actor, TypeOK, Stages, Ended

\* SIGSEGV takes a thread to the handler.
LEMMA SignalStep ==
    ASSUME IInv, NEW a \in Actor, signal_handle_sigsegv(a)
    PROVE  IInv'
<1>1. /\ TypeOK /\ thr' = [thr EXCEPT ![a] = Sigsegv]
      /\ UNCHANGED <<image, stage, gdesc, disk, files, reader, readers, lock, bad>>
      /\ ~Ended /\ Main \notin Thread
      /\ IF a = Main THEN stage \in {"reopen", "magic", "super", "groups"}
                     ELSE stage = "serving"
  BY MountAssumption DEF IInv, signal_handle_sigsegv, Ended, Actor
<1>2. Sigsegv \in ReadRec /\ Sigsegv.pc \in Handler
  BY <1>1, IdleTyped DEF Sigsegv, Idle, Handler
<1> HIDE DEF Sigsegv
<1>3. TypeOK' /\ thr'[a] = Sigsegv /\ \A b \in Actor \ {a} : thr'[b] = thr[b]
  BY <1>1, <1>2, StepTyped, Types
<1> QED BY <1>1, <1>2, <1>3, HandlerMoves

\* A step from one place of the handler to another.
LEMMA HandlerGoesOn ==
    ASSUME IInv, ~Ended, NEW a \in Actor, thr[a].pc \in Handler, NEW p \in Handler,
           thr' = [thr EXCEPT ![a].pc = p], UNCHANGED <<image, stage, gdesc, lock>>,
           files' \in Seq(FileRec), Len(files') = Len(files), disk' \in 0 .. Len(files),
           readers' \in Seq(ReaderRec), Len(readers') = Len(readers),
           reader' \in 0 .. Len(readers), bad' \in BOOLEAN
    PROVE  IInv'
<1> DEFINE x == [thr[a] EXCEPT !.pc = p]
<1>1. TypeOK /\ thr[a] \in ReadRec /\ lock' \in Actor \cup {NULL}
  BY Types DEF IInv
<1>2. x \in ReadRec /\ x.pc = p
  BY <1>1 DEF ReadRec, Pcs
<1>3. thr' = [thr EXCEPT ![a] = x]
  OBVIOUS
<1> HIDE DEF x
<1>4. TypeOK' /\ thr'[a] = x /\ \A b \in Actor \ {a} : thr'[b] = thr[b]
  BY <1>1, <1>2, <1>3, StepTyped
<1> QED BY <1>2, <1>4, WhoHandles, HandlerMoves

\* disk_close, step by step, beside whatever the other threads do.
LEMMA HandlerStep ==
    ASSUME IInv, ~Ended, NEW a \in Actor,
           FreeReader(a) \/ ClearReader(a) \/ CloseFile(a) \/ ClearFile(a)
    PROVE  IInv'
<1>1. /\ files \in Seq(FileRec) /\ disk \in 0 .. Len(files) /\ bad \in BOOLEAN
      /\ readers \in Seq(ReaderRec) /\ reader \in 0 .. Len(readers)
      /\ Len(files) \in Nat /\ Len(readers) \in Nat
  BY Types, LenProperties DEF IInv
<1>2. CASE FreeReader(a)
  <2>1. thr[a].pc \in Handler /\ "fclose" \in Handler /\ "freed" \in Handler
    BY <1>2 DEF FreeReader, Handler
  <2>2. CASE reader = 0
    BY <1>1, <1>2, <2>1, <2>2, HandlerGoesOn DEF FreeReader
  <2>3. CASE reader # 0
    <3> DEFINE v == [readers[reader] EXCEPT !.live = FALSE]
    <3>1. reader \in 1 .. Len(readers) /\ readers' = [readers EXCEPT ![reader] = v]
      BY <1>1, <1>2, <2>3 DEF FreeReader
    <3>2. readers[reader] \in ReaderRec
      BY <1>1, <3>1, ElementOfSeq, Zenon
    <3>3. v \in ReaderRec
      BY <3>2 DEF ReaderRec
    <3> HIDE DEF v
    <3>4. readers' \in Seq(ReaderRec) /\ Len(readers') = Len(readers)
      BY <1>1, <3>1, <3>3, ExceptSeq
    <3>5. bad' \in BOOLEAN
      BY <1>2, <2>3 DEF FreeReader
    <3> QED BY <1>1, <1>2, <2>1, <2>3, <3>4, <3>5, HandlerGoesOn DEF FreeReader
  <2> QED BY <2>2, <2>3
<1>3. CASE ClearReader(a)
  <2>1. thr[a].pc \in Handler /\ "fclose" \in Handler
    BY <1>3 DEF ClearReader, Handler
  <2>2. reader' \in 0 .. Len(readers)
    BY <1>1, <1>3 DEF ClearReader
  <2> QED BY <1>1, <1>3, <2>1, <2>2, HandlerGoesOn DEF ClearReader
<1>4. CASE CloseFile(a)
  <2>1. thr[a].pc \in Handler /\ "handler" \in Handler /\ "closed" \in Handler
    BY <1>4 DEF CloseFile, Handler
  <2>2. CASE disk = 0
    BY <1>1, <1>4, <2>1, <2>2, HandlerGoesOn DEF CloseFile
  <2>3. CASE disk # 0
    <3> DEFINE f == [files[disk] EXCEPT !.open = FALSE]
    <3>1. disk \in 1 .. Len(files) /\ files' = [files EXCEPT ![disk] = f]
      BY <1>1, <1>4, <2>3 DEF CloseFile
    <3>2. files[disk] \in FileRec
      BY <1>1, <3>1, ElementOfSeq, Zenon
    <3>3. f \in FileRec
      BY <3>2 DEF FileRec
    <3> HIDE DEF f
    <3>4. files' \in Seq(FileRec) /\ Len(files') = Len(files)
      BY <1>1, <3>1, <3>3, ExceptSeq
    <3>5. bad' \in BOOLEAN
      BY <1>4, <2>3 DEF CloseFile
    <3> QED BY <1>1, <1>4, <2>1, <2>3, <3>4, <3>5, HandlerGoesOn DEF CloseFile
  <2> QED BY <2>2, <2>3
<1>5. CASE ClearFile(a)
  <2>1. thr[a].pc \in Handler /\ "handler" \in Handler
    BY <1>5 DEF ClearFile, Handler
  <2>2. disk' \in 0 .. Len(files)
    BY <1>1, <1>5 DEF ClearFile
  <2> QED BY <1>1, <1>5, <2>1, <2>2, HandlerGoesOn DEF ClearFile
<1> QED BY <1>2, <1>3, <1>4, <1>5

\* The steps of a read or of the handler.
LEMMA ReadStepInv ==
    ASSUME IInv, NEW a \in Actor, ReadStep(a)
    PROVE  IInv'
<1>1. ~Ended
  BY DEF ReadStep
<1>2. CASE Lock(a)
  BY <1>1, <1>2, LockStep
<1>3. CASE CallWrapper(a)
  BY <1>1, <1>3, CallWrapperStep
<1>4. CASE read_wrapper(a)
  BY <1>1, <1>4, WrapperStep
<1>5. CASE Probe(a)
  BY <1>1, <1>5, ProbeStep
<1>6. CASE Alloc(a)
  BY <1>1, <1>6, AllocStep
<1>7. CASE CallReader(a)
  BY <1>1, <1>7, CallReaderStep
<1>8. CASE Seek(a)
  BY <1>1, <1>8, SeekStep
<1>9. CASE Fetch(a)
  BY <1>1, <1>9, FetchStep
<1>10. CASE Unlock(a)
  BY <1>1, <1>10, UnlockStep
<1>11. CASE ReadAborts(a)
  BY <1>11, ProcessEnds DEF ReadAborts, Abort
<1>12. CASE FreeReader(a) \/ ClearReader(a) \/ CloseFile(a) \/ ClearFile(a)
  BY <1>1, <1>12, HandlerStep
<1>13. CASE HandlerAborts(a)
  BY <1>13, ProcessEnds DEF HandlerAborts, Abort
<1> QED BY <1>2, <1>3, <1>4, <1>5, <1>6, <1>7, <1>8, <1>9, <1>10, <1>11, <1>12, <1>13
        DEF ReadStep

-----------------------------------------------------------------------------
(* The main thread, and the operations of FUSE.                            *)

\* A step of one thread to or from idle, with the disk as it was.
LEMMA ThreadTurns ==
    ASSUME IInv, NEW a \in Actor, ~Ended, NEW x \in ReadRec,
           thr' = [thr EXCEPT ![a] = x],
           x.pc \in {"idle", "lock"}, thr[a].pc \in {"idle", "return"},
           IF a = Main THEN stage \in Mounting ELSE stage = "serving",
           x.pc = "lock" => /\ a \in Thread => x.where = InodePlace(image.geo, x.n)
                            /\ a = Main /\ stage = "groups" =>
                                  x.where = DescOffset(image.geo, Len(gdesc)),
           UNCHANGED <<image, stage, gdesc, disk, files, reader, readers, lock, bad>>
    PROVE  IInv'
<1>1. TypeOK' /\ thr'[a] = x /\ \A b \in Actor \ {a} : thr'[b] = thr[b]
  BY StepTyped, Types DEF IInv
<1>2. thr[a].pc \notin Handler /\ x.pc \notin Handler /\ x.pc \notin Critical
      /\ Main \notin Thread /\ stage # "reopen" /\ stage # "start"
  BY MountAssumption DEF Handler, Critical, Mounting
<1>3. Crashed' <=> Crashed
  BY <1>1, <1>2 DEF Crashed
<1>4. LockHeld' /\ Turns'
  BY <1>1, <1>2 DEF IInv, LockHeld, Turns, Actor, Ended, Mounting
<1>5. Places'
  BY <1>1, <1>2 DEF IInv, Places, Actor, Reading
<1>6. ReaderFits' /\ UseAfterCloseOnlyInCrash' /\ OnlyPartialGroupAborts'
  BY <1>3 DEF IInv, ReaderFits, UseAfterCloseOnlyInCrash, OnlyPartialGroupAborts
<1>7. DiskState => DiskState'
  BY DEF DiskState
<1>8. ASSUME NEW b \in Actor PROVE Fields(b)' /\ (ReadInv(b) => ReadInv(b)')
  <2>1. CASE b = a
    BY <1>1, <2>1 DEF Fields, ReadInv
  <2>2. CASE b # a
    BY <1>1, <2>2 DEF IInv, Fields, ReadInv, NoneBefore, is_supported, Delivered
  <2> QED BY <2>1, <2>2
<1> QED BY <1>1, <1>3, <1>4, <1>5, <1>6, <1>7, <1>8 DEF IInv

\* __disk_read begins in an idle thread, while the disk is open.
LEMMA BeginRead ==
    ASSUME IInv, NEW a \in Actor, NEW where \in Int, NEW n \in Nat, ~Ended,
           thr[a].pc = "idle", disk # 0,
           IF a = Main THEN stage \in Mounting ELSE stage = "serving",
           a \in Thread => where = InodePlace(image.geo, n),
           a = Main /\ stage = "groups" => where = DescOffset(image.geo, Len(gdesc)),
           disk_read(a, where, n),
           UNCHANGED <<image, gdesc, disk, files, reader, readers, lock, bad>>
    PROVE  IInv'
<1> DEFINE x == [Idle EXCEPT !.pc = "lock", !.where = where, !.n = n]
<1>1. thr' = [thr EXCEPT ![a] = x] /\ stage' = stage
  BY DEF disk_read
<1>2. x \in ReadRec
  <2>1. Idle \in ReadRec /\ "lock" \in Pcs
    BY IdleTyped DEF IInv, Pcs
  <2> QED BY <2>1, Zenon DEF ReadRec
<1>3. x.pc = "lock" /\ x.where = where /\ x.n = n
  BY DEF Idle
<1> HIDE DEF x
<1> QED BY <1>1, <1>2, <1>3, ThreadTurns

\* What the main thread reads while it mounts.
LEMMA MainReadsInv == ASSUME IInv, MainReads PROVE IInv'
<1>1. stage \in Mounting /\ thr[Main].pc = "idle" /\ Main \in Actor /\ ~Ended
      /\ Main \notin Thread
  BY MountAssumption DEF MainReads, Mounting, Actor, Ended
<1>2. ~Crashed
  BY <1>1, Uncrashed DEF Mounting, Handler
<1>3. disk # 0 /\ disk_read(Main, Place, 0)
  BY <1>1, <1>2 DEF IInv, DiskState, MainReads
<1>4. stage = "groups" => Place = DescOffset(image.geo, Len(gdesc))
  BY DEF Place
<1>5. Place \in Int
  <2>1. CASE stage = "groups"
    <3>1. ValidGeometry(image.geo) /\ Len(gdesc) \in Nat
      BY MountAssumption DEF IInv, TypeOK
    <3> QED BY <2>1, <1>4, <3>1, DescRight
  <2>2. CASE stage # "groups"
    BY <2>2, <1>1 DEF Place, Mounting, MAGIC_OFFSET, BOOT_SECTOR_SIZE
  <2> QED BY <2>1, <2>2
<1> HIDE DEF Place
<1> QED BY <1>1, <1>3, <1>4, <1>5, BeginRead DEF MainReads

\* What the main thread knows when a read of its has returned.
LEMMA MainReturned ==
    ASSUME IInv, stage \in Mounting, Returned(Main)
    PROVE  /\ ~Crashed /\ ~Ended /\ disk # 0 /\ reader # 0
           /\ thr[Main].got = Delivered(thr[Main].where)
           /\ \A t \in Thread : thr[t].pc = "idle"
<1>1. ~Ended /\ thr[Main].pc = "return" /\ stage # "serving"
  BY DEF Mounting, Ended, Returned
<1>2. ~Crashed
  BY <1>1, Uncrashed DEF Handler
<1>3. disk # 0 /\ reader # 0 /\ thr[Main].got = Delivered(thr[Main].where)
  BY <1>1, <1>2 DEF IInv, DiskState, ReadInv, Actor, Returned
<1>4. \A t \in Thread : thr[t].pc = "idle"
  BY <1>1 DEF IInv, Turns
<1> QED BY <1>1, <1>2, <1>3, <1>4

\* The main thread goes to the next stage, with the disk and its reader.
LEMMA MainMoves ==
    ASSUME IInv, stage \in Mounting, MainGoesOn,
           stage' \in {"failed", "super", "groups", "serving"},
           gdesc' \in Seq(Int), Len(gdesc') <= super_n_block_groups(image.geo),
           UNCHANGED <<image, disk, files, reader, readers, lock, bad>>, Places'
    PROVE  IInv'
<1>1. TypeOK /\ thr' = [thr EXCEPT ![Main] = Idle] /\ Main \in Actor /\ Main \notin Thread
  BY MountAssumption DEF IInv, MainGoesOn, Actor
<1>2. thr'[Main] = Idle /\ \A t \in Thread : thr'[t] = thr[t]
  BY <1>1 DEF TypeOK, Actor
<1>3. /\ ~Crashed /\ disk # 0 /\ reader # 0
      /\ \A t \in Thread : thr[t].pc = "idle"
  BY MainReturned DEF MainGoesOn
<1>4. TypeOK'
  <2>1. Idle \in ReadRec /\ thr \in [Actor -> ReadRec]
    BY <1>1, IdleTyped, Types
  <2> HIDE DEF Idle
  <2>2. thr' \in [Actor -> ReadRec]
    BY <1>1, <2>1
  <2> QED BY <1>1, <2>2 DEF TypeOK, ReadRec, Stages, Pcs
<1>5. ~Crashed' /\ \A a \in Actor : thr'[a].pc = "idle"
  BY <1>2, <1>3 DEF Crashed, Actor, Idle, Handler
<1>6. LockHeld' /\ Turns'
  BY <1>1, <1>5 DEF LockHeld, Turns, Critical, Actor, Handler, Reading
<1>7. DiskState'
  BY <1>3 DEF IInv, DiskState, Mounting
<1>8. ReaderFits'
  BY <1>3, <1>5 DEF IInv, ReaderFits
<1>9. UseAfterCloseOnlyInCrash' /\ OnlyPartialGroupAborts'
  BY <1>3 DEF IInv, UseAfterCloseOnlyInCrash, OnlyPartialGroupAborts
<1>10. \A a \in Actor : Fields(a)' /\ ReadInv(a)'
  BY <1>5 DEF Fields, ReadInv
<1> QED BY <1>4, <1>6, <1>7, <1>8, <1>9, <1>10 DEF IInv

\* disk_open, before the probe and before mounting: no reader of an earlier
\* FILE is left.
LEMMA OpenInv == ASSUME IInv, Open PROVE IInv'
<1> DEFINE f == [open |-> TRUE, atStart |-> TRUE]
           k == Len(files) + 1
<1>1. /\ TypeOK /\ stage \in {"start", "reopen"} /\ stage' \in {"probe", "magic"}
      /\ stage = "start" => stage' = "probe"
      /\ stage = "reopen" => stage' = "magic"
      /\ UNCHANGED <<image, gdesc, reader, readers, lock, thr, bad>>
      /\ files' = Append(files, f) /\ disk' = k /\ thr[Main].pc = "idle" /\ ~Ended
  BY DEF IInv, Open, disk_open, Ended
<1>2. /\ reader = 0 /\ ~Crashed
      /\ \A a \in Actor : thr[a].pc = "idle"
  <2>1. ~Crashed
    BY <1>1, Uncrashed DEF Handler
  <2> QED BY <1>1, <2>1 DEF IInv, DiskState, Turns, Actor
<1>3. files \in Seq(FileRec) /\ f \in FileRec
  BY <1>1, Types DEF FileRec
<1> HIDE DEF f
<1>4. /\ files' \in Seq(FileRec) /\ Len(files') = k /\ files'[k] = f
      /\ Len(files) \in Nat
  BY <1>1, <1>3, AppendProperties
<1>5. TypeOK'
  <2>1. /\ ReaderRec \subseteq ReaderRec' /\ ReadRec \subseteq ReadRec'
    <3>1. 1 .. Len(files) \subseteq 1 .. Len(files') /\ 0 .. Len(files) \subseteq 0 .. Len(files')
      BY <1>4
    <3>2. readers' = readers
      BY <1>1
    <3> QED BY <3>1, <3>2 DEF ReaderRec, ReadRec
  <2>2. readers' \in Seq(ReaderRec')
    <3>1. readers \in Seq(ReaderRec)
      BY <1>1, Types
    <3> QED BY <1>1, <2>1, <3>1, SeqMonotonic, Zenon
  <2>3. thr' \in [Actor -> ReadRec']
    <3>1. thr \in [Actor -> ReadRec]
      BY <1>1, Types
    <3> QED BY <1>1, <2>1, <3>1
  <2>4. disk' \in 0 .. Len(files')
    BY <1>1, <1>4
  <2> QED BY <1>1, <1>4, <2>2, <2>3, <2>4 DEF TypeOK, ReaderRec, ReadRec, Stages, FileRec, Pcs
<1>6. ~Crashed' /\ \A a \in Actor : thr'[a].pc = "idle"
  BY <1>1, <1>2 DEF Crashed
<1>7. LockHeld' /\ Turns'
  BY <1>6 DEF LockHeld, Turns, Actor, Critical, Handler, Reading
<1>8. DiskState'
  <2>1. files'[disk'].open /\ files'[disk'].atStart /\ disk' # 0
    BY <1>1, <1>4 DEF f
  <2> QED BY <2>1, <1>1 DEF DiskState, Mounting
<1>9. Places'
  BY <1>1, <1>2 DEF IInv, Places, Actor, Reading, Critical
<1>10. ReaderFits' /\ UseAfterCloseOnlyInCrash' /\ OnlyPartialGroupAborts'
  BY <1>1, <1>2, <1>6 DEF IInv, ReaderFits, UseAfterCloseOnlyInCrash, OnlyPartialGroupAborts
<1>11. \A a \in Actor : Fields(a)' /\ ReadInv(a)'
  BY <1>6 DEF ReadInv, Fields
<1> QED BY <1>5, <1>7, <1>8, <1>9, <1>10, <1>11 DEF IInv

\* disk_close leaves no live reader and no FILE in use.
LEMMA CloseFacts ==
    ASSUME IInv, ~Crashed, disk_close
    PROVE  /\ disk' = 0 /\ reader' = 0
           /\ files' \in Seq(FileRec) /\ Len(files') = Len(files)
           /\ readers' \in Seq(ReaderRec) /\ Len(readers') = Len(readers)
           /\ \A r \in 1 .. Len(readers) : ~readers'[r].live
<1>1. /\ TypeOK /\ readers \in Seq(ReaderRec) /\ files \in Seq(FileRec)
      /\ \A r \in 1 .. Len(readers) : readers[r].live => r = reader
  BY Types DEF IInv, ReaderFits
<1>2. disk' = 0 /\ reader' = 0
  BY DEF disk_close
<1>3. files' \in Seq(FileRec) /\ Len(files') = Len(files)
  <2>1. CASE disk = 0
    BY <2>1, <1>1 DEF disk_close
  <2>2. CASE disk # 0
    <3> DEFINE f == [files[disk] EXCEPT !.open = FALSE]
    <3>1. disk \in 1 .. Len(files) /\ files' = [files EXCEPT ![disk] = f]
      BY <2>2, <1>1 DEF disk_close, TypeOK
    <3>2. files[disk] \in FileRec
      BY <1>1, <3>1, ElementOfSeq, Zenon
    <3>3. f \in FileRec
      BY <3>2 DEF FileRec
    <3> HIDE DEF f
    <3> QED BY <1>1, <3>1, <3>3, ExceptSeq
  <2> QED BY <2>1, <2>2
<1>4. CASE reader = 0
  <2>1. readers' = readers
    BY <1>4 DEF disk_close
  <2> QED BY <2>1, <1>1, <1>2, <1>3, <1>4
<1>5. CASE reader # 0
  <2> DEFINE v == [readers[reader] EXCEPT !.live = FALSE]
  <2>1. reader \in 1 .. Len(readers) /\ readers' = [readers EXCEPT ![reader] = v]
    BY <1>5, <1>1 DEF disk_close, TypeOK
  <2>2. readers[reader] \in ReaderRec
    BY <1>1, <2>1, ElementOfSeq, Zenon
  <2>3. v \in ReaderRec /\ v.live = FALSE
    BY <2>2 DEF ReaderRec
  <2> HIDE DEF v
  <2>4. /\ readers' \in Seq(ReaderRec) /\ Len(readers') = Len(readers) /\ readers'[reader] = v
        /\ \A m \in 1 .. Len(readers) : m # reader => readers'[m] = readers[m]
    BY <1>1, <2>1, <2>3, ExceptSeq
  <2> QED BY <1>1, <1>2, <1>3, <2>3, <2>4
<1> QED BY <1>4, <1>5

\* ext4fuse_is_supported closes the disk with its reader.
LEMMA SupportedInv == ASSUME IInv, Supported PROVE IInv'
<1>1. /\ TypeOK /\ stage = "probe" /\ stage' = "reopen" /\ Returned(Main) /\ MagicRead
      /\ thr' = [thr EXCEPT ![Main] = Idle] /\ Main \in Actor
      /\ UNCHANGED <<image, gdesc, lock, bad>> /\ disk_close
  BY DEF IInv, Supported, MainGoesOn, Actor
<1>2. /\ ~Crashed /\ thr[Main].got = Delivered(thr[Main].where)
      /\ \A t \in Thread : thr[t].pc = "idle"
  BY <1>1, MainReturned DEF Mounting
<1>3. \A a \in Actor : thr'[a].pc = "idle"
  BY <1>1, <1>2 DEF TypeOK, Actor, Idle
<1>4. ~Crashed'
  BY <1>3 DEF Crashed, Handler
<1>5. TypeOK'
  <2>1. Idle \in ReadRec /\ thr \in [Actor -> ReadRec]
    BY <1>1, IdleTyped, Types
  <2> HIDE DEF Idle
  <2>2. thr' \in [Actor -> ReadRec]
    BY <1>1, <2>1
  <2>3. Len(readers) \in Nat /\ Len(files) \in Nat
    BY <1>1 DEF TypeOK
  <2>4. disk' \in 0 .. Len(files') /\ reader' \in 0 .. Len(readers')
    BY <1>1, <1>2, <2>3, CloseFacts
  <2>5. ReadRec' = ReadRec /\ ReaderRec' = ReaderRec
    BY <1>1, <1>2, CloseFacts DEF ReadRec, ReaderRec
  <2> QED BY <1>1, <1>2, <2>2, <2>4, <2>5, CloseFacts
          DEF TypeOK, ReadRec, ReaderRec, FileRec, Stages, Pcs
<1>6. LockHeld' /\ Turns'
  BY <1>1, <1>3 DEF LockHeld, Turns, Actor, Critical, Reading
<1>7. DiskState'
  BY <1>1, <1>2, CloseFacts DEF DiskState, Mounting
<1>8. Places'
  <2>1. image.fmt # "xz_unsupported"
    BY <1>1, <1>2 DEF MagicRead, Delivered, Garbage, MAGIC_OFFSET, BOOT_SECTOR_SIZE
  <2> QED BY <2>1, <1>1, <1>3 DEF IInv, Places, Actor, Reading, Critical
<1>9. ReaderFits' /\ UseAfterCloseOnlyInCrash' /\ OnlyPartialGroupAborts'
  BY <1>1, <1>2, CloseFacts DEF IInv, ReaderFits, UseAfterCloseOnlyInCrash, OnlyPartialGroupAborts
<1>10. \A a \in Actor : Fields(a)' /\ ReadInv(a)'
  BY <1>3 DEF ReadInv, Fields
<1> QED BY <1>5, <1>6, <1>7, <1>8, <1>9, <1>10 DEF IInv

\* The steps of the main thread.
LEMMA MainStepInv == ASSUME IInv, MainStep PROVE IInv'
<1>1. TypeOK /\ Places /\ ValidGeometry(image.geo) /\ Main \in Actor /\ Main \notin Thread
  BY MountAssumption DEF IInv, TypeOK, Actor
<1>2. ASSUME stage \in Mounting, MainGoesOn
      PROVE  /\ thr[Main].got = Delivered(thr[Main].where)
             /\ \A t \in Thread : thr'[t].pc = "idle"
             /\ thr'[Main].pc = "idle" /\ thr[Main].pc # "idle"
  <2>1. thr' = [thr EXCEPT ![Main] = Idle] /\ thr[Main].pc = "return"
    BY <1>2 DEF MainGoesOn, Returned
  <2>2. thr'[Main] = Idle /\ \A t \in Thread : thr'[t] = thr[t]
    BY <1>1, <2>1 DEF TypeOK, Actor
  <2>3. thr[Main].got = Delivered(thr[Main].where) /\ \A t \in Thread : thr[t].pc = "idle"
    BY <1>2, MainReturned DEF MainGoesOn
  <2> QED BY <2>1, <2>2, <2>3 DEF Idle
<1>3. CASE NotExt4
  <2>1. stage \in Mounting /\ MainGoesOn /\ stage' = "failed" /\ UNCHANGED <<image, gdesc>>
    BY <1>3 DEF NotExt4, Mounting
  <2>2. Places'
    BY <1>1, <1>2, <2>1 DEF Places, Reading, Critical
  <2> QED BY <1>1, <1>3, <2>1, <2>2, MainMoves DEF NotExt4, TypeOK
<1>4. CASE CheckMagic
  <2>1. stage = "magic" /\ MainGoesOn /\ stage' = "super" /\ UNCHANGED <<image, gdesc>>
    BY <1>4 DEF CheckMagic
  <2>2. Places'
    BY <1>1, <1>2, <2>1 DEF Places, Mounting, Reading, Critical
  <2> QED BY <1>1, <1>4, <2>1, <2>2, MainMoves DEF CheckMagic, TypeOK, Mounting
<1>5. CASE super_fill
  <2>1. stage = "super" /\ MainGoesOn /\ stage' = "groups" /\ UNCHANGED <<image, gdesc>>
    BY <1>5 DEF super_fill
  <2>2. super_n_block_groups(image.geo) \in Nat \ {0}
    BY <1>1, GroupsCounted
  <2>3. Places'
    BY <1>1, <1>2, <2>1, <2>2 DEF Places, Mounting, Reading, Critical
  <2> QED BY <1>1, <1>5, <2>1, <2>3, MainMoves DEF super_fill, TypeOK, Mounting
<1>6. CASE super_group_fill
  <2> DEFINE k == Len(gdesc) + 1
             q == super_n_block_groups(image.geo)
  <2>1. /\ stage = "groups" /\ MainGoesOn /\ UNCHANGED <<image>>
        /\ gdesc' = Append(gdesc, thr[Main].got)
        /\ stage' = IF Len(gdesc') = q THEN "serving" ELSE "groups"
    BY <1>6 DEF super_group_fill, Filled
  <2>2. thr[Main].got = DescOffset(image.geo, Len(gdesc))
    BY <1>1, <1>2, <2>1 DEF Places, Delivered, Mounting, MainGoesOn, Returned, Reading
  <2>3. gdesc \in Seq(Int) /\ thr[Main].got \in Int /\ q \in Nat /\ Len(gdesc) < q
        /\ Len(gdesc) \in Nat
    BY <1>1, <2>1, GroupsCounted DEF TypeOK, Places
  <2>4. /\ gdesc' \in Seq(Int) /\ Len(gdesc') = k /\ gdesc'[k] = thr[Main].got
        /\ \A i \in 1 .. Len(gdesc) : gdesc'[i] = gdesc[i]
    BY <2>1, <2>3, AppendProperties
  <2>5. \A i \in 1 .. Len(gdesc') : gdesc'[i] = DescOffset(image.geo, i - 1)
    <3>1. SUFFICES ASSUME NEW i \in 1 .. Len(gdesc') PROVE gdesc'[i] = DescOffset(image.geo, i - 1)
      OBVIOUS
    <3>2. CASE i = k
      <4>1. i - 1 = Len(gdesc)
        BY <3>2, <2>3
      <4> QED BY <3>2, <4>1, <2>2, <2>4
    <3>3. CASE i # k
      <4>1. i \in 1 .. Len(gdesc)
        BY <3>3, <2>3, <2>4
      <4> QED BY <4>1, <2>4, <1>1, Zenon DEF Places
    <3> QED BY <3>2, <3>3
  <2>6. Places'
    <3> HIDE DEF q
    <3>1. image.fmt # "xz_unsupported"
      BY <1>1, <2>1 DEF Places
    <3>2. stage' = "groups" => Len(gdesc') < q
      BY <2>1, <2>3, <2>4
    <3>3. /\ \A t \in Thread : thr'[t].pc = "idle"
          /\ thr'[Main].pc = "idle"
      BY <1>2, <2>1 DEF Mounting
    <3> QED BY <2>1, <2>5, <3>1, <3>2, <3>3 DEF Places, q, Reading, Critical
  <2>7. stage' \in {"groups", "serving"} /\ Len(gdesc') <= q
    BY <2>1, <2>3, <2>4
  <2> QED BY <1>6, <2>1, <2>4, <2>6, <2>7, MainMoves DEF super_group_fill, Mounting
<1> QED BY <1>3, <1>4, <1>5, <1>6, OpenInv, MainReadsInv, SupportedInv DEF MainStep

\* inode_get_by_number: the descriptors a thread of FUSE uses are all there.
LEMMA InodeInv ==
    ASSUME IInv, NEW t \in Thread, NEW n \in 1 .. Groups(image.geo) * image.geo.ipg,
           inode_get_by_number(t, n)
    PROVE  IInv'
<1> DEFINE g == image.geo
           k == n_group(g, n)
<1>1. /\ TypeOK /\ ValidGeometry(g) /\ t \in Actor /\ n \in Nat \ {0}
      /\ stage = "serving" /\ thr[t].pc = "idle"
      /\ UNCHANGED <<image, gdesc, disk, files, reader, readers, lock, bad>>
  <2>1. TypeOK /\ ValidGeometry(g) /\ t \in Actor
    BY MountAssumption DEF IInv, TypeOK, Actor
  <2>2. Groups(g) * g.ipg \in Int
    BY <2>1, GroupsCounted DEF ValidGeometry
  <2>3. n \in Nat \ {0}
    <3> HIDE DEF g
    <3> QED BY <2>2 DEF g
  <2> QED BY <2>1, <2>3 DEF inode_get_by_number
<1>2. CASE GroupKnown(g, n)
  <2>1. disk_read(t, InodeOffset(g, TableAt(g, gdesc[k + 1]), n), n)
    BY <1>2 DEF inode_get_by_number
  <2>2. k \in Nat /\ k < super_n_block_groups(g) /\ super_n_block_groups(g) \in Nat
    BY <1>1, <1>2, InodeFound, GroupsCounted DEF GroupKnown
  <2>3. gdesc[k + 1] = DescOffset(g, k)
    <3>1. Len(gdesc) = super_n_block_groups(g) /\ \A i \in 1 .. Len(gdesc) : gdesc[i] = DescOffset(g, i - 1)
      BY <1>1 DEF IInv, Places
    <3> HIDE DEF g, k
    <3>2. k + 1 \in 1 .. Len(gdesc) /\ (k + 1) - 1 = k
      BY <2>2, <3>1
    <3> QED BY <3>1, <3>2
  <2>4. disk_read(t, InodePlace(g, n), n) /\ InodePlace(g, n) \in Int
    BY <1>1, <1>2, <2>1, <2>3, InodeFound
  <2>5. CASE disk = 0
    <3>1. stage' = "aborted" /\ UNCHANGED thr
      BY <2>4, <2>5 DEF disk_read, Abort
    <3> QED BY <3>1, <1>1, ProcessEnds
  <2>6. CASE disk # 0
    <3>1. t # Main /\ ~Ended
      BY <1>1, MountAssumption DEF Ended
    <3> QED BY <1>1, <2>4, <2>6, <3>1, BeginRead
  <2> QED BY <2>5, <2>6
<1>3. CASE ~GroupKnown(g, n)
  <2>1. stage' = "no_group" /\ UNCHANGED thr
    BY <1>3 DEF inode_get_by_number
  <2>2. g.blocks > g.bpg /\ (g.blocks - FirstBlock(g)) % g.bpg # 0
    BY <1>1, <1>3, UnknownIsPartial
  <2>3. OnlyPartialGroupAborts'
    BY <1>1, <2>2 DEF OnlyPartialGroupAborts
  <2> QED BY <1>1, <2>1, <2>3, ProcessEnds
<1> QED BY <1>2, <1>3

\* An operation replies and its thread is free again.
LEMMA ReplyInv == ASSUME IInv, NEW t \in Thread, Reply(t) PROVE IInv'
<1>1. /\ TypeOK /\ t \in Actor /\ stage = "serving" /\ thr[t].pc = "return"
      /\ thr' = [thr EXCEPT ![t] = Idle] /\ ~Ended /\ t # Main
      /\ UNCHANGED <<image, stage, gdesc, disk, files, reader, readers, lock, bad>>
  BY MountAssumption DEF IInv, Reply, Actor, Returned, Ended
<1>2. Idle \in ReadRec /\ Idle.pc = "idle"
  BY <1>1, IdleTyped DEF Idle
<1> HIDE DEF Idle
<1> QED BY <1>1, <1>2, ThreadTurns

\* Every step preserves the invariant.
LEMMA NextInv == IInv /\ [Next]_vars => IInv'
<1> SUFFICES ASSUME IInv, [Next]_vars PROVE IInv'
  OBVIOUS
<1>1. CASE MainStep
  BY <1>1, MainStepInv
<1>2. CASE OpenFails
  BY <1>2, ProcessEnds DEF OpenFails
<1>3. CASE Unmount
  BY <1>3, ProcessEnds DEF Unmount
<1>4. ASSUME NEW a \in Actor,
             ReadStep(a) \/ (~Ended /\ AllocFails(a)) \/ signal_handle_sigsegv(a)
      PROVE  IInv'
  BY <1>4, ReadStepInv, AllocFailsStep, SignalStep
<1>5. ASSUME NEW t \in Thread, NEW n \in 1 .. Groups(image.geo) * image.geo.ipg,
             inode_get_by_number(t, n)
      PROVE  IInv'
  BY <1>5, InodeInv
<1>6. ASSUME NEW t \in Thread, Reply(t) PROVE IInv'
  BY <1>6, ReplyInv
<1>7. CASE UNCHANGED vars
  <2>1. Crashed' <=> Crashed
    BY <1>7 DEF vars, Crashed
  <2>2. TypeOK' /\ LockHeld' /\ Turns' /\ Places'
    BY <1>7 DEF vars, IInv, TypeOK, LockHeld, Turns, Places, Ended
  <2>3. ReaderFits' /\ UseAfterCloseOnlyInCrash' /\ OnlyPartialGroupAborts'
    BY <1>7, <2>1 DEF vars, IInv, ReaderFits, UseAfterCloseOnlyInCrash, OnlyPartialGroupAborts
  <2>4. DiskState => DiskState'
    BY <1>7 DEF vars, DiskState
  <2>5. ASSUME NEW a \in Actor PROVE Fields(a)' /\ (ReadInv(a) => ReadInv(a)')
    BY <1>7 DEF vars, IInv, Fields, ReadInv, NoneBefore, is_supported, Delivered
  <2> QED BY <2>1, <2>2, <2>3, <2>4, <2>5 DEF IInv
<1> QED BY <1>1, <1>2, <1>3, <1>4, <1>5, <1>6, <1>7 DEF Next

\* Until a thread crashes, a successful read, of the main thread or of a thread
\* of FUSE, delivers what lies at the place asked for, and that is the place of
\* the inode.
LEMMA InvReadRight == IInv => ReadRight
<1> SUFFICES ASSUME IInv, NEW a \in Actor, Returned(a), ~Crashed
             PROVE  /\ thr[a].got = IF image.fmt = "xz_unsupported"
                                    THEN Garbage ELSE thr[a].where
                    /\ a \in Thread => thr[a].where = InodePlace(image.geo, thr[a].n)
  BY DEF ReadRight
<1>1. thr[a].got = Delivered(thr[a].where)
  BY DEF IInv, ReadInv, Returned
<1>2. a \in Thread => thr[a].where = InodePlace(image.geo, thr[a].n)
  BY DEF IInv, Places, Returned, Reading
<1> QED BY <1>1, <1>2 DEF Delivered

\* Mounting and serving, for any number of threads, any images of fewer than
\* 2^32 blocks and any failures: until a thread crashes, every read that reports
\* success delivers what it asked for from the inode's own place, through a
\* reader made for the FILE that is open; the ASSERT on group numbers fails only
\* for a partial last group; and a closed FILE or freed reader is used only
\* while a SIGSEGV handler runs, whose disk_close is taken step by step.
THEOREM MountSafe ==
    Spec => [](/\ TypeOK /\ ReaderFits /\ ReadRight
               /\ UseAfterCloseOnlyInCrash /\ OnlyPartialGroupAborts)
<1>1. IInv => /\ TypeOK /\ ReaderFits /\ ReadRight
              /\ UseAfterCloseOnlyInCrash /\ OnlyPartialGroupAborts
  BY InvReadRight DEF IInv
<1> QED BY <1>1, InitInv, NextInv, PTL DEF Spec
=============================================================================
