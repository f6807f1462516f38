------------------------------- MODULE Mount --------------------------------
(***************************************************************************)
(* From the command line to a served file system: start_fuse with          *)
(* ext4fuse_is_supported and ext4fuse_main (fuse-main.c), op_init and      *)
(* super.c, and below them the disk with its lock and its lazily allocated *)
(* reader (disk.c, read_layer.c, compression_reader.c), used by the main   *)
(* thread first and then by all threads FUSE starts.  The SIGSEGV handler  *)
(* closes the disk without the lock: its steps mix with those of reads.    *)
(*                                                                         *)
(* Readers are external to this module: a reader keeps a position of its   *)
(* own (`at', as the gzip reader does with its FILE), so reads that are    *)
(* not exclusive mix up their places.  A value read is the place it was    *)
(* read from, or Garbage if the reader does not fit the format.            *)
(***************************************************************************)
EXTENDS Super, Sequences, FiniteSets

CONSTANTS
    Thread, Main, NULL,
    Images,     \* the images that may be given: format, whether ext4, geometry
    Faults      \* subset of {"open", "read", "alloc", "segv"}

Formats == {"gzip", "xz", "xz_unsupported", "raw"}

ASSUME MountAssumption ==
    /\ Main \notin Thread /\ NULL \notin Thread \cup {Main}
    /\ Faults \subseteq {"open", "read", "alloc", "segv"}
    /\ \A i \in Images : i.fmt \in Formats /\ i.ext4 \in BOOLEAN /\ ValidGeometry(i.geo)

VARIABLES
    image,
    stage,    \* how far the main thread is, or how the process ended
    gdesc,    \* the descriptors super_group_fill has read
    disk,     \* disk_file: a FILE of `files', 0 for NULL; disk_fd with it
    files,    \* every FILE opened: is it open, is it at its beginning
    reader,   \* compression_reader: one of `readers', 0 for NULL
    readers,  \* every CompressionReader made
    lock,     \* owner of read_lock, or NULL
    thr,      \* each thread's __disk_read, or its SIGSEGV handler
    bad       \* a freed reader or a FILE that is not open has been used

vars == <<image, stage, gdesc, disk, files, reader, readers, lock, thr, bad>>

Actor == Thread \cup {Main}
Garbage == -1
Short == -2
Idle == [pc |-> "idle", where |-> 0, file |-> 0, i |-> 0, rd |-> 0, got |-> 0, n |-> 0]

\* A thread that enters the SIGSEGV handler, and leaves what it was doing.
Sigsegv == [Idle EXCEPT !.pc = "sigsegv"]

Init ==
    /\ image \in Images
    /\ stage = "start"
    /\ gdesc = <<>>
    /\ disk = 0 /\ files = <<>>
    /\ reader = 0 /\ readers = <<>>
    /\ lock = NULL
    /\ thr = [a \in Actor |-> Idle]
    /\ bad = FALSE

Ended == stage \in {"failed", "exited", "aborted", "no_group"}

\* A failing ASSERT ends the process.
Abort == stage' = "aborted"

-----------------------------------------------------------------------------
(* read_wrapper and the choice of a reader.                                *)

\* The order of available_readers.
Impls == <<"gzip", "xz", "raw">>

\* An implementation recognises its format by the bytes at the beginning of
\* the file; the raw reader takes every file.
is_supported(impl, atStart) == impl = "raw" \/ (impl = image.fmt /\ atStart)

\* read_wrapper's arguments: the FILE that disk_file points to now.
CallWrapper(a) ==
    /\ thr[a].pc = "wrap"
    /\ thr' = [thr EXCEPT ![a].pc = "check", ![a].file = disk]
    /\ UNCHANGED <<image, stage, gdesc, disk, files, reader, readers, lock, bad>>

\* compression_reader, if there is one.
read_wrapper(a) ==
    /\ thr[a].pc = "check"
    /\ thr' = IF reader = 0
              THEN [thr EXCEPT ![a].pc = "probe", ![a].i = 1]
              ELSE [thr EXCEPT ![a].pc = "call", ![a].rd = reader]
    /\ UNCHANGED <<image, stage, gdesc, disk, files, reader, readers, lock, bad>>

\* One turn of get_supported_comp_reader; the file is rewound either way.
ProbeOne(a, f) ==
    /\ IF is_supported(Impls[thr[a].i], files[f].atStart)
       THEN thr' = [thr EXCEPT ![a].pc = "alloc"]
       ELSE thr' = [thr EXCEPT ![a].i = @ + 1]
    /\ files' = [files EXCEPT ![f].atStart = TRUE]

\* The answers of a FILE that is not open: any, but the raw reader does not
\* ask.  A NULL FILE raises SIGSEGV.
ProbeClosed(a, f) ==
    /\ \/ f = 0 /\ thr' = [thr EXCEPT ![a] = Sigsegv]
       \/ f # 0 /\ thr' = [thr EXCEPT ![a].pc = "alloc"]
       \/ f # 0 /\ Impls[thr[a].i] # "raw" /\ thr' = [thr EXCEPT ![a].i = @ + 1]
    /\ UNCHANGED files

Probe(a) ==
    /\ thr[a].pc = "probe"
    /\ LET f == thr[a].file
           usable == f # 0 /\ files[f].open
       IN  /\ IF usable THEN ProbeOne(a, f) ELSE ProbeClosed(a, f)
           /\ bad' = (bad \/ ~usable)
    /\ UNCHANGED <<image, stage, gdesc, disk, reader, readers, lock>>

\* compression_reader_alloc makes a reader for the FILE that was passed on,
\* which a crash may be closing or have closed.
Alloc(a) ==
    /\ thr[a].pc = "alloc"
    /\ readers' = Append(readers, [file |-> thr[a].file, impl |-> Impls[thr[a].i],
                                   live |-> TRUE, at |-> 0])
    /\ reader' = Len(readers) + 1
    /\ thr' = [thr EXCEPT ![a].pc = "call", ![a].rd = Len(readers) + 1]
    /\ bad' = (bad \/ ~files[thr[a].file].open)
    /\ UNCHANGED <<image, stage, gdesc, disk, files, lock>>

\* No memory, or an xz file that cannot be parsed a second time:
\* FAILED_TO_ALLOC.
AllocFails(a) ==
    /\ thr[a].pc = "alloc"
    /\ "alloc" \in Faults
    /\ reader' = 0
    /\ thr' = [thr EXCEPT ![a].pc = "unlock", ![a].got = Short]
    /\ bad' = (bad \/ ~files[thr[a].file].open)
    /\ UNCHANGED <<image, stage, gdesc, disk, files, readers, lock>>

\* read_wrapper passes compression_reader on: the pointer it has tested or
\* stored, or what a second load of the variable yields.
PassedOn(a) == {thr[a].rd, reader}

\* A NULL there is noticed after an allocation, or dereferenced.
NoReader(a) ==
    {Sigsegv} \cup (IF thr[a].i = 0 THEN {}
                   ELSE {[thr[a] EXCEPT !.pc = "unlock", !.got = Short]})

CallReader(a) ==
    /\ thr[a].pc = "call"
    /\ \E r \in PassedOn(a) :
          IF r # 0
          THEN thr' = [thr EXCEPT ![a].pc = "seek", ![a].rd = r]
          ELSE \E x \in NoReader(a) : thr' = [thr EXCEPT ![a] = x]
    /\ UNCHANGED <<image, stage, gdesc, disk, files, reader, readers, lock, bad>>

\* compression_read: the reader goes to the place and reads from there.
Usable(r) == readers[r].live /\ files[readers[r].file].open

Seek(a) ==
    /\ thr[a].pc = "seek"
    /\ readers' = [readers EXCEPT ![thr[a].rd].at = thr[a].where]
    /\ thr' = [thr EXCEPT ![a].pc = "fetch"]
    /\ bad' = (bad \/ ~Usable(thr[a].rd))
    /\ UNCHANGED <<image, stage, gdesc, disk, files, reader, lock>>

\* What is read through a freed reader or a closed FILE may be anything.
Fetched(r) ==
    {IF readers[r].impl = image.fmt THEN readers[r].at ELSE Garbage}
      \cup (IF Usable(r) THEN {} ELSE {Garbage, Short})
      \cup (IF "read" \in Faults THEN {Short} ELSE {})

Fetch(a) ==
    /\ thr[a].pc = "fetch"
    /\ \E got \in Fetched(thr[a].rd) :
          thr' = [thr EXCEPT ![a].pc = "unlock", ![a].got = got]
    /\ bad' = (bad \/ ~Usable(thr[a].rd))
    /\ UNCHANGED <<image, stage, gdesc, disk, files, reader, readers, lock>>

-----------------------------------------------------------------------------
(* disk.c.                                                                 *)

\* __disk_read begins: the disk must be open.
disk_read(a, where, n) ==
    IF disk = 0 THEN Abort /\ UNCHANGED thr
    ELSE /\ thr' = [thr EXCEPT ![a] = [Idle EXCEPT !.pc = "lock", !.where = where, !.n = n]]
         /\ UNCHANGED stage

Lock(a) ==
    /\ thr[a].pc = "lock"
    /\ lock = NULL
    /\ lock' = a
    /\ thr' = [thr EXCEPT ![a].pc = "wrap"]
    /\ UNCHANGED <<image, stage, gdesc, disk, files, reader, readers, bad>>

\* Mutant: the lock is kept.
UnlockNot(a) ==
    /\ thr[a].pc = "unlock"
    /\ thr' = [thr EXCEPT ![a].pc = "return"]
    /\ UNCHANGED <<image, stage, gdesc, disk, files, reader, readers, lock, bad>>

Unlock(a) ==
    /\ thr[a].pc = "unlock"
    /\ lock' = NULL
    /\ thr' = [thr EXCEPT ![a].pc = "return"]
    /\ UNCHANGED <<image, stage, gdesc, disk, files, reader, readers, bad>>

\* Anything but the whole length fails the ASSERT after the unlock.
ReadAborts(a) ==
    /\ thr[a].pc = "return"
    /\ thr[a].got = Short
    /\ Abort
    /\ UNCHANGED <<image, gdesc, disk, files, reader, readers, lock, thr, bad>>

Returned(a) == thr[a].pc = "return" /\ thr[a].got # Short

disk_open ==
    /\ files' = Append(files, [open |-> TRUE, atStart |-> TRUE])
    /\ disk' = Len(files) + 1

\* Mutants: the reader is not freed; it is freed and its pointer stays.
CloseKeepsReader ==
    /\ UNCHANGED <<reader, readers>>
    /\ files' = IF disk = 0 THEN files ELSE [files EXCEPT ![disk].open = FALSE]
    /\ disk' = 0
CloseKeepsPointer ==
    /\ readers' = IF reader = 0 THEN readers ELSE [readers EXCEPT ![reader].live = FALSE]
    /\ reader' = reader
    /\ files' = IF disk = 0 THEN files ELSE [files EXCEPT ![disk].open = FALSE]
    /\ disk' = 0

\* free_read_wrapper, then fclose: one step where no other thread runs.
disk_close ==
    /\ readers' = IF reader = 0 THEN readers ELSE [readers EXCEPT ![reader].live = FALSE]
    /\ reader' = 0
    /\ files' = IF disk = 0 THEN files ELSE [files EXCEPT ![disk].open = FALSE]
    /\ disk' = 0

-----------------------------------------------------------------------------
(* disk_close in the SIGSEGV handler, beside the reads of other threads: a *)
(* pointer is tested and what it points to released in one step, and the   *)
(* pointer is cleared in the next.                                         *)

Handler == {"sigsegv", "freed", "fclose", "closed", "handler"}

\* free_read_wrapper frees the reader ...
FreeReader(a) ==
    /\ thr[a].pc = "sigsegv"
    /\ IF reader = 0
       THEN /\ thr' = [thr EXCEPT ![a].pc = "fclose"]
            /\ UNCHANGED <<readers, bad>>
       ELSE /\ thr' = [thr EXCEPT ![a].pc = "freed"]
            /\ readers' = [readers EXCEPT ![reader].live = FALSE]
            /\ bad' = (bad \/ ~readers[reader].live)
    /\ UNCHANGED <<image, stage, gdesc, disk, files, reader, lock>>

\* ... and clears its pointer;
ClearReader(a) ==
    /\ thr[a].pc = "freed"
    /\ reader' = 0
    /\ thr' = [thr EXCEPT ![a].pc = "fclose"]
    /\ UNCHANGED <<image, stage, gdesc, disk, files, readers, lock, bad>>

\* then the FILE is closed ...
CloseFile(a) ==
    /\ thr[a].pc = "fclose"
    /\ IF disk = 0
       THEN /\ thr' = [thr EXCEPT ![a].pc = "handler"]
            /\ UNCHANGED <<files, bad>>
       ELSE /\ thr' = [thr EXCEPT ![a].pc = "closed"]
            /\ files' = [files EXCEPT ![disk].open = FALSE]
            /\ bad' = (bad \/ ~files[disk].open)
    /\ UNCHANGED <<image, stage, gdesc, disk, reader, readers, lock>>

\* ... and disk_file and disk_fd cleared.
ClearFile(a) ==
    /\ thr[a].pc = "closed"
    /\ disk' = 0
    /\ thr' = [thr EXCEPT ![a].pc = "handler"]
    /\ UNCHANGED <<image, stage, gdesc, files, reader, readers, lock, bad>>

\* abort().  A handler that frees or closes what another has released may be
\* killed on its way.
HandlerAborts(a) ==
    /\ thr[a].pc = "handler" \/ (bad /\ thr[a].pc \in Handler)
    /\ Abort
    /\ UNCHANGED <<image, gdesc, disk, files, reader, readers, lock, thr, bad>>

-----------------------------------------------------------------------------
(* ext4fuse_is_supported, ext4fuse_main and op_init.                       *)

\* disk_open before the probe, and again before mounting.
Open ==
    /\ \/ stage = "start" /\ stage' = "probe"
       \/ stage = "reopen" /\ stage' = "magic"
    /\ thr[Main].pc = "idle"
    /\ disk_open
    /\ UNCHANGED <<image, gdesc, reader, readers, lock, thr, bad>>

\* fopen fails: there is no supported implementation, or EXIT_FAILURE.
OpenFails ==
    /\ stage \in {"start", "reopen"} /\ thr[Main].pc = "idle"
    /\ "open" \in Faults
    /\ stage' = "failed"
    /\ UNCHANGED <<image, gdesc, disk, files, reader, readers, lock, thr, bad>>

\* What the main thread reads at each stage.
Place == CASE stage \in {"probe", "magic"} -> MAGIC_OFFSET
           [] stage = "super" -> BOOT_SECTOR_SIZE
           [] stage = "groups" -> DescOffset(image.geo, Len(gdesc))

MainReads ==
    /\ stage \in {"probe", "magic", "super", "groups"}
    /\ thr[Main].pc = "idle"
    /\ disk_read(Main, Place, 0)
    /\ UNCHANGED <<image, gdesc, disk, files, reader, readers, lock, bad>>

MagicRead == thr[Main].got = MAGIC_OFFSET /\ image.ext4
MainGoesOn == Returned(Main) /\ thr' = [thr EXCEPT ![Main] = Idle]

\* ext4fuse_is_supported returns TRUE and closes the disk ...
Supported ==
    /\ stage = "probe" /\ MainGoesOn
    /\ MagicRead /\ stage' = "reopen"
    /\ disk_close
    /\ UNCHANGED <<image, gdesc, lock, bad>>

\* ... or it, or ext4fuse_main, finds no ext4 and leaves it open.
NotExt4 ==
    /\ stage \in {"probe", "magic"} /\ MainGoesOn
    /\ ~MagicRead /\ stage' = "failed"
    /\ UNCHANGED <<image, gdesc, disk, files, reader, readers, lock, bad>>

\* fuse_main calls op_init: super_fill ...
CheckMagic ==
    /\ stage = "magic" /\ MainGoesOn
    /\ MagicRead /\ stage' = "super"
    /\ UNCHANGED <<image, gdesc, disk, files, reader, readers, lock, bad>>

super_fill ==
    /\ stage = "super" /\ MainGoesOn
    /\ stage' = "groups"
    /\ UNCHANGED <<image, gdesc, disk, files, reader, readers, lock, bad>>

\* Mutant: one descriptor too many.
FilledOneMore(g) == Len(gdesc') > super_n_block_groups(g)

\* ... super_group_fill, one descriptor after the other, and inode_init.
Filled(g) == Len(gdesc') = super_n_block_groups(g)

super_group_fill ==
    /\ stage = "groups" /\ MainGoesOn
    /\ gdesc' = Append(gdesc, thr[Main].got)
    /\ stage' = IF Filled(image.geo) THEN "serving" ELSE "groups"
    /\ UNCHANGED <<image, disk, files, reader, readers, lock, bad>>

-----------------------------------------------------------------------------
(* The threads of FUSE.                                                    *)

\* Mutant: the last group is left out.
GroupBelowLast(g, n) == n_group(g, n) + 1 < super_n_block_groups(g)

\* The ASSERT of super_group_inode_table_offset.
GroupKnown(g, n) == n_group(g, n) < super_n_block_groups(g)

\* An operation on an inode: inode_get_by_number.
inode_get_by_number(t, n) ==
    /\ stage = "serving" /\ thr[t].pc = "idle"
    /\ LET g == image.geo
       IN  IF GroupKnown(g, n)
           THEN disk_read(t, InodeOffset(g, TableAt(g, gdesc[n_group(g, n) + 1]), n), n)
           ELSE stage' = "no_group" /\ UNCHANGED thr
    /\ UNCHANGED <<image, gdesc, disk, files, reader, readers, lock, bad>>

Reply(t) ==
    /\ stage = "serving" /\ Returned(t)
    /\ thr' = [thr EXCEPT ![t] = Idle]
    /\ UNCHANGED <<image, stage, gdesc, disk, files, reader, readers, lock, bad>>

\* fusermount -u: fuse_main returns when its threads are done, and the
\* process ends with the disk open.
Unmount ==
    /\ stage = "serving"
    /\ \A a \in Actor : thr[a].pc = "idle"
    /\ stage' = "exited"
    /\ UNCHANGED <<image, gdesc, disk, files, reader, readers, lock, thr, bad>>

\* SIGSEGV anywhere in a thread, inside a read or outside, once ext4fuse_main
\* has installed the handler.  While the threads of FUSE serve, the main thread
\* only waits for them.
signal_handle_sigsegv(a) ==
    /\ "segv" \in Faults
    /\ \/ a = Main /\ stage \in {"reopen", "magic", "super", "groups"}
       \/ a \in Thread /\ stage = "serving"
    /\ thr[a].pc \notin Handler
    /\ thr' = [thr EXCEPT ![a] = Sigsegv]
    /\ UNCHANGED <<image, stage, gdesc, disk, files, reader, readers, lock, bad>>

-----------------------------------------------------------------------------
\* A step of a __disk_read that has begun, or of the handler.
ReadStep(a) ==
    /\ ~Ended
    /\ \/ Lock(a) \/ CallWrapper(a) \/ read_wrapper(a) \/ Probe(a) \/ Alloc(a)
       \/ CallReader(a) \/ Seek(a) \/ Fetch(a) \/ Unlock(a) \/ ReadAborts(a)
       \/ FreeReader(a) \/ ClearReader(a) \/ CloseFile(a) \/ ClearFile(a)
       \/ HandlerAborts(a)

MainStep ==
    \/ Open \/ MainReads \/ Supported \/ NotExt4 \/ CheckMagic
    \/ super_fill \/ super_group_fill

Next ==
    \/ MainStep \/ OpenFails \/ Unmount
    \/ \E a \in Actor :
          \/ ReadStep(a)
          \/ ~Ended /\ AllocFails(a)
          \/ signal_handle_sigsegv(a)
    \/ \E t \in Thread :
          \/ \E n \in 1 .. Groups(image.geo) * image.geo.ipg : inode_get_by_number(t, n)
          \/ Reply(t)

Spec == Init /\ [][Next]_vars

\* Threads that have begun something are scheduled again.  Nothing is assumed
\* of the mutex: a thread that waits for it may be overtaken for ever.
FairSpec ==
    /\ Spec
    /\ WF_vars(MainStep)
    /\ \A a \in Actor : WF_vars(ReadStep(a))

-----------------------------------------------------------------------------
(* Properties.                                                             *)

Stages == {"start", "probe", "reopen", "magic", "super", "groups", "serving",
           "failed", "exited", "aborted", "no_group"}

\* Every variable has its type; no more descriptors are kept than were
\* allocated for.
TypeOK ==
    /\ image \in Images /\ stage \in Stages
    /\ gdesc \in Seq(Int) /\ Len(gdesc) <= super_n_block_groups(image.geo)
    /\ files \in Seq([open : BOOLEAN, atStart : BOOLEAN]) /\ disk \in 0 .. Len(files)
    /\ readers \in Seq([file : 1 .. Len(files), impl : {"gzip", "xz", "raw"},
                        live : BOOLEAN, at : Int])
    /\ reader \in 0 .. Len(readers)
    /\ lock \in Actor \cup {NULL}
    /\ thr \in [Actor -> [pc : {"idle", "lock", "wrap", "check", "probe", "alloc", "call",
                                "seek", "fetch", "unlock", "return"} \cup Handler,
                          where : Int, file : 0 .. Len(files), i : 0 .. 3,
                          rd : 0 .. Len(readers), got : Int, n : Nat]]
    /\ bad \in BOOLEAN

\* A thread is in the SIGSEGV handler, which never returns.
Crashed == \E a \in Actor : thr[a].pc \in Handler

\* Until a thread crashes, the reader in use was made for the FILE that is open
\* now, not for the one of the probe, and is the first implementation that
\* takes the image; no other reader is left over.  In a crash it is otherwise:
\* read_wrapper may make a reader for the FILE the handler is closing.
ReaderFits ==
    ~Crashed =>
        /\ \A r \in 1 .. Len(readers) : readers[r].live => r = reader
        /\ reader # 0 => /\ readers[reader].live /\ readers[reader].file = disk
                         /\ readers[reader].impl = IF image.fmt \in {"gzip", "xz"}
                                                   THEN image.fmt ELSE "raw"

\* Until a thread crashes, every read that reports success delivers what lies
\* at the place asked for, whatever the other threads read at the same time;
\* and an operation on inode n asks for the place of inode n: the descriptors
\* were read before any thread was served, from where the format keeps them.
ReadRight ==
    \A a \in Actor : Returned(a) /\ ~Crashed =>
        /\ thr[a].got = IF image.fmt = "xz_unsupported" THEN Garbage ELSE thr[a].where
        /\ a \in Thread => thr[a].where = InodePlace(image.geo, thr[a].n)

\* A freed reader or closed FILE is used only by threads that go on while the
\* SIGSEGV handler of another has closed the disk.
UseAfterCloseOnlyInCrash == bad => Crashed

\* The ASSERT on group numbers fails only for images whose last group is
\* smaller than the others.
OnlyPartialGroupAborts ==
    stage = "no_group" =>
        LET g == image.geo
        IN  g.blocks > g.bpg /\ (g.blocks - FirstBlock(g)) % g.bpg # 0

\* While a thread waits for the lock, be it to mount or to serve, some read
\* returns.
WaitsEnd ==
    \A a \in Actor : thr[a].pc = "lock"
        ~> (\E u \in Actor : thr[u].pc = "return") \/ Ended
=============================================================================
