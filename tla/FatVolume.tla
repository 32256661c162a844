----------------------------- MODULE FatVolume -----------------------------
(***************************************************************************)
(* The read-only FAT32 driver (kernel/io/fat.c) over the ATA driver        *)
(* (kernel/io/ata.c), and the searches of kernel32 on top of it.  A volume *)
(* holds `files`; its root directory is the sequence of slots a VFAT       *)
(* system writes for them, SLOTS to a cluster.  Every AtaReadSectors is a  *)
(* step and may fail.  A cluster is <<owner, k>>, the k-th of its chain.   *)
(***************************************************************************)
EXTENDS Naturals, Sequences, SequencesExt

CONSTANTS Names,        \* [long: its fragments of 13 characters, in lower case,
                        \*  is83: name_is_83, short: what to_83 makes of it]
          Volumes,      \* sequences of [name, lfn, alias, kind, size]
          Patterns,     \* sets of files a search pattern matches
          SLOTS,        \* directory entries in a cluster
          MaxFragments, \* bound: fragments of a long name
          EOC           \* the end-of-chain mark

FatAssumption ==
  /\ SLOTS \in Nat \ {0} /\ MaxFragments \in Nat
  /\ \A n \in Names : Len(n.long) <= MaxFragments

VARIABLES files,    \* the contents of the volume
          mounted,  \* g_fat.Mounted
          op,       \* the call under way
          pool,     \* the pool blocks it holds
          faulty,   \* ghost: what has failed during the call: "fat", "data", "memory"
          search    \* a FIND_HANDLE: next index and pattern; ghosts: what it has found,
                    \* whether its end was reported, whether a call of it met a failure

vars == <<files, mounted, op, pool, faulty, search>>

Blank == [i \in 1..MaxFragments |-> ""]
EndSlot == [kind |-> "end"]

\* The slots of a file: its long name's fragments, last one first, then the 8.3
\* entry; all of them are marked when the file is deleted.
SlotsOf(f, id) ==
  LET n == Len(f.name.long)
      all == (IF f.lfn THEN [i \in 1..n |-> [kind |-> "lfn", last |-> i = 1,
                                             ord |-> n + 1 - i,
                                             frag |-> f.name.long[n + 1 - i]]]
              ELSE <<>>)
             \o <<[kind |-> f.kind, short |-> f.alias, id |-> id]>>
  IN IF f.kind = "deleted" THEN [i \in 1..Len(all) |-> [kind |-> "deleted"]] ELSE all

Slots == FlattenSeq([id \in 1..Len(files) |-> SlotsOf(files[id], id)])

\* The clusters of the root directory; the last one is filled up with end marks.
RootClusters == (Len(Slots) + SLOTS - 1) \div SLOTS
SlotAt(k, i) ==
  LET n == (k - 1) * SLOTS + i
  IN IF n <= Len(Slots) THEN Slots[n] ELSE EndSlot

ChainLength(owner) ==
  IF owner = 0 THEN IF RootClusters = 0 THEN 1 ELSE RootClusters ELSE files[owner].size

NextCluster(c) == IF c[2] < ChainLength(c[1]) THEN <<c[1], c[2] + 1>> ELSE EOC

NoScan == [have |-> FALSE, long |-> Blank, seen |-> 0, hit |-> 0, end |-> FALSE]
NoName == [long |-> <<>>, is83 |-> FALSE, short |-> ""]
Idle == [step |-> "idle", call |-> "", name |-> NoName, wanted |-> 0, cluster |-> EOC,
         scan |-> NoScan, left |-> 0, read |-> <<>>, status |-> "none"]
NoSearch == [active |-> FALSE, next |-> 0, pattern |-> {}, found |-> <<>>, done |-> FALSE,
             failed |-> FALSE]

Init ==
  /\ files \in Volumes
  /\ mounted = FALSE
  /\ op = Idle
  /\ pool = {} /\ faulty = {}
  /\ search = NoSearch

\* FatMount: one read of the boot sector; a volume that is not FAT32 with 512-byte
\* sectors is refused, and the system then runs without one.
FatMount ==
  /\ op.step = "idle" /\ ~mounted
  /\ mounted' = TRUE
  /\ UNCHANGED <<files, op, pool, faulty, search>>

\* A call begins with a buffer for a cluster of the directory, and ends at once without
\* one: a look-up has then found nothing.
Begin(new) ==
  /\ op.step \in {"idle", "done"} /\ mounted
  /\ op' = new /\ pool' = {"dir"} /\ faulty' = {}
  /\ UNCHANGED <<files, mounted>>

Refused(call, status, faults) ==
  /\ op.step \in {"idle", "done"}
  /\ op' = [Idle EXCEPT !.step = "done", !.call = call, !.status = status]
  /\ pool' = {} /\ faulty' = faults
  /\ UNCHANGED <<files, mounted>>

NotReady(call) == ~mounted /\ Refused(call, "not ready", {})
NoBuffer(call) ==
  mounted /\ Refused(call, IF call = "load" THEN "name not found" ELSE "no memory", {"memory"})

Finish(status, kept) ==
  /\ op' = [op EXCEPT !.step = "done", !.status = status, !.cluster = EOC, !.scan = NoScan]
  /\ pool' = kept

FatLoadFile(name) ==
  /\ \/ Begin([Idle EXCEPT !.step = "scan", !.call = "load", !.name = name,
                           !.cluster = <<0, 1>>])
     \/ NotReady("load") \/ NoBuffer("load")
  /\ UNCHANGED search

\* lfn_put_fragment, with the reset at the entry that comes first.
Fragment(st, e) ==
  LET have == e.last \/ st.have
      long == IF e.last THEN Blank ELSE st.long
  IN [st EXCEPT !.have = have, !.long = IF have THEN [long EXCEPT ![e.ord] = e.frag] ELSE long]

\* name_equal_ci of the name put together and the one asked for.
LongMatches(st, name) ==
  st.have /\ st.long = [i \in 1..MaxFragments |-> IF i <= Len(name.long)
                                                  THEN name.long[i] ELSE ""]

FindMatch(st, e, name) ==
  LongMatches(st, name) \/ (name.is83 /\ e.short = name.short)

\* Faulty ScanSlot: directories and labels are counted as files are.
ScanSlotCountsAll(st, e, call, name, wanted) ==
  IF st.end \/ st.hit # 0 THEN st
  ELSE CASE e.kind = "end" -> [st EXCEPT !.end = TRUE]
         [] e.kind = "deleted" -> [st EXCEPT !.have = FALSE]
         [] e.kind = "lfn" -> Fragment(st, e)
         [] OTHER -> IF (call = "load" /\ FindMatch(st, e, name))
                        \/ (call = "enum" /\ st.seen = wanted)
                     THEN [st EXCEPT !.hit = e.id]
                     ELSE [st EXCEPT !.have = FALSE, !.seen = @ + 1]

\* One entry of the loops of fat_find and FatEnumerateRoot.
ScanSlot(st, e, call, name, wanted) ==
  IF st.end \/ st.hit # 0 THEN st
  ELSE CASE e.kind = "end" -> [st EXCEPT !.end = TRUE]
         [] e.kind = "deleted" -> [st EXCEPT !.have = FALSE]
         [] e.kind = "lfn" -> Fragment(st, e)
         [] OTHER -> IF (call = "load" /\ FindMatch(st, e, name))
                        \/ (call = "enum" /\ e.kind = "file" /\ st.seen = wanted)
                     THEN [st EXCEPT !.hit = e.id]
                     ELSE [st EXCEPT !.have = FALSE,
                                     !.seen = IF e.kind = "file" THEN @ + 1 ELSE @]

ScanCluster(k, st) ==
  LET after[i \in 0..SLOTS] ==
        IF i = 0 THEN st
        ELSE ScanSlot(after[i - 1], SlotAt(k, i), op.call, op.name, op.wanted)
  IN after[SLOTS]

\* What the scan leads to: the buffer of the directory is freed in every case.
Found(st) ==
  CASE op.call = "enum" ->
         Finish(IF st.hit # 0 THEN "ok" ELSE "name not found", {})
    [] op.call = "load" /\ st.hit = 0 -> Finish("name not found", {})
    [] OTHER -> /\ op' = [op EXCEPT !.step = "alloc", !.scan = st]
                /\ pool' = {}

\* The loop of find_next_match ends on any failure of NtEnumerateRootFiles; if
\* FindFirstFileExW has found nothing, its handle is freed.
Ended(s, fails) ==
  [s EXCEPT !.done = TRUE, !.active = s.active /\ s.found # <<>>, !.failed = s.failed \/ fails]

Hit(s, id) == [s EXCEPT !.found = IF id \in s.pattern THEN Append(@, id) ELSE @]

EndSearch(fails) == search' = IF op.call = "enum" THEN Ended(search, fails) ELSE search

\* fat_find and FatEnumerateRoot: read a cluster of the directory and look at it.
ReadDirectory ==
  /\ op.step = "scan"
  /\ LET st == ScanCluster(op.cluster[2], op.scan)
     IN IF st.end \/ st.hit # 0
        THEN /\ Found(st)
             /\ IF op.call = "enum" /\ st.hit # 0 THEN search' = Hit(search, st.hit)
                ELSE EndSearch(FALSE)
        ELSE /\ op' = [op EXCEPT !.step = "chain", !.scan = st]
             /\ UNCHANGED <<pool, search>>
  /\ UNCHANGED <<files, mounted, faulty>>

\* A read error: fat_find has found nothing, FatEnumerateRoot reports it.
ReadDirectoryFails ==
  /\ op.step = "scan"
  /\ faulty' = faulty \cup {"data"}
  /\ Finish(IF op.call = "enum" THEN "not ready" ELSE "name not found", {})
  /\ EndSearch(TRUE)
  /\ UNCHANGED <<files, mounted>>

\* Faulty fat_next_cluster: a read error is tried again.
NextRetried ==
  /\ op.step \in {"chain", "follow"}
  /\ \/ /\ faulty' = {"fat"} \ faulty
        /\ UNCHANGED <<op, pool, search>>
     \/ /\ op.step = "follow"
        /\ op' = [op EXCEPT !.step = "load", !.cluster = NextCluster(op.cluster)]
        /\ UNCHANGED <<pool, search, faulty>>
     \/ /\ op.step = "chain" /\ NextCluster(op.cluster) = EOC
        /\ Finish("name not found", {}) /\ EndSearch(FALSE)
        /\ UNCHANGED faulty
     \/ /\ op.step = "chain" /\ NextCluster(op.cluster) # EOC
        /\ op' = [op EXCEPT !.step = "scan", !.cluster = NextCluster(op.cluster)]
        /\ UNCHANGED <<pool, search, faulty>>
  /\ UNCHANGED <<files, mounted>>

\* fat_next_cluster; a read error counts as the end of the chain.
fat_next_cluster ==
  /\ op.step \in {"chain", "follow"}
  /\ \E fails \in BOOLEAN :
       LET next == IF fails THEN EOC ELSE NextCluster(op.cluster)
       IN /\ faulty' = IF fails THEN faulty \cup {"fat"} ELSE faulty
          /\ IF op.step = "follow"
             THEN /\ op' = [op EXCEPT !.step = "load", !.cluster = next]
                  /\ UNCHANGED <<pool, search>>
             ELSE IF next = EOC THEN Finish("name not found", {}) /\ EndSearch(fails)
             ELSE /\ op' = [op EXCEPT !.step = "scan", !.cluster = next]
                  /\ UNCHANGED <<pool, search>>
  /\ UNCHANGED <<files, mounted>>

\* The file's buffer and the chunk; without the second the first is given back.
Allocate ==
  /\ op.step = "alloc"
  /\ \/ /\ pool' = {"file", "chunk"}
        /\ LET id == op.scan.hit
           IN op' = [op EXCEPT !.step = "load", !.left = files[id].size,
                               !.cluster = IF files[id].size = 0 THEN EOC ELSE <<id, 1>>]
     \/ Finish("no memory", {})
  /\ UNCHANGED <<files, mounted, faulty, search>>

\* The loop of FatLoadFile: while there is a cluster and something remains.
LoadCluster ==
  /\ op.step = "load"
  /\ IF op.cluster = EOC \/ op.left = 0
     THEN Finish("ok", {"file"})
     ELSE /\ op' = [op EXCEPT !.step = "follow", !.read = Append(@, op.cluster),
                              !.left = @ - 1]
          /\ UNCHANGED pool
  /\ UNCHANGED <<files, mounted, faulty, search>>

LoadFails ==
  /\ op.step = "load" /\ op.cluster # EOC /\ op.left > 0
  /\ faulty' = faulty \cup {"data"}
  /\ Finish("not ready", {})
  /\ UNCHANGED <<files, mounted, search>>

\* One NtEnumerateRootFiles of the search s.
Enumerate(s) ==
  \/ /\ Begin([Idle EXCEPT !.step = "scan", !.call = "enum", !.cluster = <<0, 1>>,
                           !.wanted = s.next])
     /\ search' = [s EXCEPT !.next = @ + 1]
  \/ /\ NotReady("enum") \/ NoBuffer("enum")
     /\ search' = Ended([s EXCEPT !.next = @ + 1], TRUE)

\* FindFirstFileExW; GetFileAttributesW is the same search up to its first match.
FindFirstFile(pattern) ==
  ~search.active /\ Enumerate([NoSearch EXCEPT !.active = TRUE, !.pattern = pattern])

\* find_next_match goes on with the next index, in the same call after an entry that
\* does not match and in the next FindNextFileW after one that does, or after a failure.
find_next_match ==
  /\ search.active /\ op.step = "done"
  /\ search.next <= Len(files) + 1  \* bound: two indices past the last file
  /\ Enumerate(search)

FindClose ==
  /\ search.active /\ op.step = "done"
  /\ search' = NoSearch /\ op' = Idle /\ faulty' = {}
  /\ UNCHANGED <<files, mounted, pool>>

Driver == ReadDirectory \/ ReadDirectoryFails \/ fat_next_cluster \/ Allocate
          \/ LoadCluster \/ LoadFails

Next ==
  \/ FatMount
  \/ \E name \in Names : op.step \in {"idle", "done"} /\ ~search.active /\ FatLoadFile(name)
  \/ \E pattern \in Patterns : FindFirstFile(pattern)
  \/ find_next_match
  \/ FindClose
  \/ Driver

Spec == Init /\ [][Next]_vars /\ WF_vars(Driver)

TypeOK ==
  /\ files \in Volumes
  /\ op.step \in {"idle", "scan", "chain", "alloc", "load", "follow", "done"}
  /\ op.left \in Nat
  /\ \A c \in {op.cluster} \cup Range(op.read) :
       c = EOC \/ c[2] \in 1..ChainLength(c[1])
  /\ pool \subseteq {"dir", "file", "chunk"}

\* What the directory of `files` answers: the first entry that is the name, in
\* the long form or, for a name that has an 8.3 form, in the short one.
Named(id, name) ==
  /\ files[id].kind # "deleted"
  /\ \/ files[id].lfn /\ files[id].name.long = name.long
     \/ name.is83 /\ files[id].alias = name.short

\* A lookup that got its buffer and met no read error ends with the entry the directory
\* has for the name (without a buffer fat_find has found nothing), wherever its long name
\* is split between clusters and whatever deleted entries lie around it;
\* "NOTEPAD.EXE.MUI" is never served by NOTEPAD.EXE.
FindsNamed ==
  op.call = "load" /\ faulty = {} =>
    /\ op.step = "alloc" =>
         /\ Named(op.scan.hit, op.name)
         /\ \A id \in 1..(op.scan.hit - 1) : ~Named(id, op.name)
    /\ op.step = "done" /\ op.status = "name not found" =>
         \A id \in 1..Len(files) : ~Named(id, op.name)

\* The driver keeps no pool block after a call but the file it has returned.
BuffersFreed ==
  op.step \in {"idle", "done"} =>
    pool = IF op.call = "load" /\ op.status = "ok" THEN {"file"} ELSE {}

\* A load that reports success has read the whole chain in order, if no sector of
\* the allocation table was unreadable.
LoadWholeUnlessFat ==
  op.call = "load" /\ op.step = "done" /\ op.status = "ok" /\ "fat" \notin faulty =>
    op.left = 0 /\ \A i \in 1..Len(op.read) : op.read[i][2] = i

\* "follows cluster chains to read files into pool buffers": a load that reports
\* success has filled the buffer.
LoadWhole ==
  op.call = "load" /\ op.step = "done" /\ op.status = "ok" => op.left = 0

\* A search reports files that match and no other, each once and in order, whatever its
\* calls met; and when its end is reported, and no call of it met a read error or a lack
\* of memory (which FindNextFileW reports as the end, too), none has been left out.
SearchComplete ==
  LET matches(id) == files[id].kind = "file" /\ id \in search.pattern
      all == SelectSeq([id \in 1..Len(files) |-> id], matches)
  IN /\ \A i \in 1..Len(search.found) :
          matches(search.found[i]) /\ (i > 1 => search.found[i - 1] < search.found[i])
     /\ search.done /\ ~search.failed => search.found = all

\* Every call of the driver ends.
CallsReturn == op.step = "scan" ~> op.step = "done"
=============================================================================
