---------------------------- MODULE FileServices ----------------------------
(***************************************************************************)
(* File objects (kernel/io/file.c) and the file calls of kernel32          *)
(* (user/kernel32.c) that are made of several system calls: seeking, file  *)
(* mappings, copying and the cached console handle.  A system call is one  *)
(* step; between two of them another thread may run.  Each thread works on *)
(* the handles it has opened itself.                                       *)
(***************************************************************************)
EXTENDS Integers, Sequences, SequencesExt, FiniteSets, FiniteSetsExt

CONSTANTS Threads,
          SizeOf,       \* disk file -> its size in bytes
          Console,      \* the file name of the console
          MaxHandles,   \* places of the handle table
          MAPPINGS,     \* entries of g_file_mappings
          CHUNK,        \* bytes moved by one ReadFile of a mapping or a copy
          Lengths,      \* lengths callers read
          MaxViews      \* bound: views that are remembered

FileAssumption ==
  /\ MaxHandles \in Nat /\ MAPPINGS \in Nat /\ CHUNK \in Nat \ {0}
  /\ "" \notin DOMAIN SizeOf /\ \A f \in DOMAIN SizeOf : SizeOf[f] \in Nat
  /\ Lengths \subseteq Nat /\ MaxViews \in Nat /\ Threads \cap {"call", "std", "none"} = {}

VARIABLES file,    \* the handle table: [name, pos, owner] or Closed
          call,    \* call[t]: the kernel32 call under way
          maps,    \* g_file_mappings
          views,   \* ghost: views MapViewOfFile has returned, [map, off, claim]
          std,     \* g_std_console: a handle, 0 or Invalid
          opened,  \* ghost: how often the console has been opened for std
          freed    \* ghost: what has been given to HeapFree

vars == <<file, call, maps, views, std, opened, freed>>

Disk == DOMAIN SizeOf
Files == Disk \cup {Console}
Closed == [name |-> "", pos |-> 0, owner |-> "none"]
Handles == 1..MaxHandles
FreeHandles == {h \in Handles : file[h] = Closed}
Mine(t) == {h \in Handles : file[h].owner = t}

NoCall == [step |-> "none"]
Invalid == -1  \* NT_INVALID_HANDLE

\* `claims` is a ghost: how many calls have been given the entry.
NoMap == [used |-> FALSE, name |-> "", size |-> 0, data |-> <<>>, claims |-> 0]

Init ==
  /\ file = [h \in Handles |-> Closed]
  /\ call = [t \in Threads |-> NoCall]
  /\ maps = [i \in 1..MAPPINGS |-> NoMap]
  /\ views = {} /\ std = 0 /\ opened = 0 /\ freed = {}

Contents(f) == [i \in 1..SizeOf[f] |-> <<f, i>>]
FileSize(h) == IF file[h].name \in Disk THEN SizeOf[file[h].name] ELSE 0
Goto(t, new) == call' = [call EXCEPT ![t] = new]
Idle(t) == call[t] = NoCall

\* NtCreateFile: a File object at position 0 behind the first free handle.
Opened(f, owner, h) == [file EXCEPT ![h] = [name |-> f, pos |-> 0, owner |-> owner]]

\* CreateFileA/W
CreateFile(t, f) ==
  /\ Idle(t)
  /\ file' = IF FreeHandles = {} THEN file ELSE Opened(f, t, Min(FreeHandles))
  /\ UNCHANGED <<call, maps, views, std, opened, freed>>

CloseHandle(t, h) ==
  /\ Idle(t) /\ h \in Mine(t)
  /\ file' = [file EXCEPT ![h] = Closed]
  /\ UNCHANGED <<call, maps, views, std, opened, freed>>

\* NtReadFile: how many bytes a read returns.
NtReadFile(h, len) ==
  IF file[h].name \in Disk /\ file[h].pos < FileSize(h)
  THEN Min({len, FileSize(h) - file[h].pos}) ELSE 0

Advance(h, n) == [file EXCEPT ![h].pos = @ + n]

ReadFile(t, h, len) ==
  /\ Idle(t) /\ h \in Mine(t)
  /\ file' = Advance(h, NtReadFile(h, len))
  /\ UNCHANGED <<call, maps, views, std, opened, freed>>

\* SetFilePointerEx (SetFilePointer): NtQueryFileInfo tells what the distance is
\* counted from, NtSetFilePosition refuses anything but a disk file.
SeekQuery(t, h, method, distance) ==
  /\ Idle(t) /\ h \in Mine(t)
  /\ LET base == CASE method = "begin" -> 0
                   [] method = "current" -> file[h].pos
                   [] OTHER -> FileSize(h)
     IN Goto(t, [step |-> "seek", h |-> h, target |-> base + distance])
  /\ UNCHANGED <<file, maps, views, std, opened, freed>>

SetFilePointerEx(t) ==
  /\ call[t].step = "seek"
  /\ LET h == call[t].h
     IN file' = IF file[h].name \in Disk /\ call[t].target >= 0
                THEN [file EXCEPT ![h].pos = call[t].target] ELSE file
  /\ Goto(t, NoCall)
  /\ UNCHANGED <<maps, views, std, opened, freed>>

\* CreateFileMappingW: the size asked for, or that of the file; then the first
\* entry that is not in use and memory for the contents.
Unused == {i \in 1..MAPPINGS : ~maps[i].used}

CreateFileMapping(t, h, asked) ==
  LET size == IF asked # 0 THEN asked ELSE FileSize(h)
  IN /\ Idle(t) /\ h \in Mine(t)
     /\ size # 0 /\ Unused # {}
     /\ Goto(t, [step |-> "rewind", h |-> h, slot |-> Min(Unused), size |-> size,
                 left |-> Min({size, FileSize(h)}), data |-> <<>>])
     /\ UNCHANGED <<file, maps, views, std, opened, freed>>

MapRewind(t) ==
  /\ call[t].step = "rewind"
  /\ file' = IF file[call[t].h].name \in Disk
             THEN [file EXCEPT ![call[t].h].pos = 0] ELSE file
  /\ Goto(t, [call[t] EXCEPT !.step = "fill"])
  /\ UNCHANGED <<maps, views, std, opened, freed>>

\* The loop of reads, until nothing is left or a read returns nothing.
MapFill(t) ==
  /\ call[t].step = "fill"
  /\ LET h == call[t].h
         n == NtReadFile(h, Min({CHUNK, call[t].left}))
     IN IF n = 0
        THEN Goto(t, [call[t] EXCEPT !.step = "claim"]) /\ UNCHANGED file
        ELSE /\ file' = Advance(h, n)
             /\ Goto(t, [call[t] EXCEPT !.left = @ - n,
                           !.data = @ \o [i \in 1..n |-> <<file[h].name, file[h].pos + i>>]])
  /\ UNCHANGED <<maps, views, std, opened, freed>>

\* The entry is marked only now, whoever has been given it meanwhile.
Claimed(i, name, size, data) ==
  [maps EXCEPT ![i] = [used |-> TRUE, name |-> name, size |-> size, data |-> data,
                       claims |-> maps[i].claims + 1]]

MapClaim(t) ==
  /\ call[t].step = "claim"
  /\ maps' = Claimed(call[t].slot, file[call[t].h].name, call[t].size, call[t].data)
  /\ Goto(t, NoCall)
  /\ UNCHANGED <<file, views, std, opened, freed>>

\* Without a file, or with a handle on which GetFileSize, SetFilePointerEx and ReadFile
\* fail, memory of the size asked for.  (When none is asked for, GetFileSize's
\* 0xFFFFFFFF is more than nt_alloc has, and nothing changes.)
MapMemory(t, asked) ==
  /\ Idle(t) /\ asked # 0 /\ Unused # {}
  /\ Goto(t, [step |-> "memory", slot |-> Min(Unused), size |-> asked])
  /\ UNCHANGED <<file, maps, views, std, opened, freed>>

MapClaimMemory(t) ==
  /\ call[t].step = "memory"
  /\ maps' = Claimed(call[t].slot, "", call[t].size, <<>>)
  /\ Goto(t, NoCall)
  /\ UNCHANGED <<file, views, std, opened, freed>>

MapViewOfFile(t, i, off, bytes) ==
  LET n == IF bytes = 0 THEN maps[i].size - off ELSE bytes
  IN /\ Idle(t) /\ maps[i].used /\ Cardinality(views) < MaxViews
     /\ off <= maps[i].size /\ ~(bytes = 0 /\ off = maps[i].size)
     /\ off + n <= maps[i].size
     /\ views' = views \cup {[map |-> i, off |-> off, claim |-> maps[i].claims]}
     /\ UNCHANGED <<file, call, maps, std, opened, freed>>

\* UnmapViewOfFile looks for the mapping the address lies in and changes nothing.
UnmapFinds(v) ==
  maps[v.map].used /\ maps[v.map].claims = v.claim /\ v.off < maps[v.map].size

\* CopyFileW
CopyOpen(t, from) ==
  /\ Idle(t) /\ FreeHandles # {}
  /\ file' = Opened(from, "call", Min(FreeHandles))
  /\ Goto(t, [step |-> "target", src |-> Min(FreeHandles), left |-> SizeOf[from],
              dst |-> 0, done |-> 0, buffer |-> FALSE, ok |-> TRUE, put |-> 0])
  /\ UNCHANGED <<maps, views, std, opened, freed>>

\* Faulty CopyTarget: without a target the source stays open.
CopyTargetLeaks(t, to) ==
  /\ call[t].step = "target"
  /\ IF to \in Files /\ FreeHandles # {}
     THEN /\ file' = Opened(to, "call", Min(FreeHandles))
          /\ Goto(t, [call[t] EXCEPT !.step = "buffer", !.dst = Min(FreeHandles)])
     ELSE /\ UNCHANGED file
          /\ Goto(t, NoCall)
  /\ UNCHANGED <<maps, views, std, opened, freed>>

\* The target must exist: the volume is read-only.
CopyTarget(t, to) ==
  /\ call[t].step = "target"
  /\ IF to \in Files /\ FreeHandles # {}
     THEN /\ file' = Opened(to, "call", Min(FreeHandles))
          /\ Goto(t, [call[t] EXCEPT !.step = "buffer", !.dst = Min(FreeHandles)])
     ELSE /\ file' = [file EXCEPT ![call[t].src] = Closed]
          /\ Goto(t, NoCall)
  /\ UNCHANGED <<maps, views, std, opened, freed>>

CopyBuffer(t) ==
  /\ call[t].step = "buffer"
  /\ \E got \in BOOLEAN : Goto(t, [call[t] EXCEPT !.step = "read", !.buffer = got, !.ok = got])
  /\ UNCHANGED <<file, maps, views, std, opened, freed>>

CopyRead(t) ==
  /\ call[t].step = "read"
  /\ LET n == NtReadFile(call[t].src, Min({CHUNK, call[t].left}))
     IN IF ~call[t].ok \/ call[t].left = 0
        THEN Goto(t, [call[t] EXCEPT !.step = "free"]) /\ UNCHANGED file
        ELSE /\ file' = Advance(call[t].src, n)
             /\ Goto(t, [call[t] EXCEPT !.step = IF n = 0 THEN "free" ELSE "write",
                                        !.done = n, !.ok = n # 0])
  /\ UNCHANGED <<maps, views, std, opened, freed>>

\* NtWriteFile writes to the console only.
CopyWrite(t) ==
  /\ call[t].step = "write"
  /\ LET n == IF file[call[t].dst].name = Console THEN call[t].done ELSE 0
     IN Goto(t, [call[t] EXCEPT !.step = "read", !.ok = n = call[t].done,
                                !.left = @ - call[t].done, !.put = @ + n])
  /\ UNCHANGED <<file, maps, views, std, opened, freed>>

\* The buffer, which came from nt_alloc, goes to HeapFree; both handles are closed.
CopyFree(t) ==
  /\ call[t].step = "free"
  /\ freed' = IF call[t].buffer THEN freed \cup {"virtual memory"} ELSE freed
  /\ Goto(t, [call[t] EXCEPT !.step = "close"])
  /\ UNCHANGED <<file, maps, views, std, opened>>

CopyClose(t) ==
  /\ call[t].step = "close"
  /\ file' = [file EXCEPT ![call[t].src] = Closed, ![call[t].dst] = Closed]
  /\ Goto(t, NoCall)
  /\ UNCHANGED <<maps, views, std, opened, freed>>

\* GetStdHandle: look at the cached handle, open the console, store the handle.
StdLook(t) ==
  /\ Idle(t) /\ std = 0
  /\ Goto(t, [step |-> "stdopen"])
  /\ UNCHANGED <<file, maps, views, std, opened, freed>>

StdOpen(t) ==
  /\ call[t].step = "stdopen" /\ FreeHandles # {}
  /\ file' = Opened(Console, "std", Min(FreeHandles))
  /\ opened' = opened + 1
  /\ Goto(t, [step |-> "stdstore", h |-> Min(FreeHandles)])
  /\ UNCHANGED <<maps, views, std, freed>>

\* Without a free handle NT_INVALID_HANDLE is cached, for ever.
StdFails(t) ==
  /\ call[t].step = "stdopen" /\ FreeHandles = {}
  /\ std' = Invalid
  /\ Goto(t, NoCall)
  /\ UNCHANGED <<file, maps, views, opened, freed>>

StdStore(t) ==
  /\ call[t].step = "stdstore"
  /\ std' = call[t].h
  /\ Goto(t, NoCall)
  /\ UNCHANGED <<file, maps, views, opened, freed>>

Seeks == {<<"begin", 1>>, <<"current", -1>>, <<"end", 0>>}

Next ==
  \E t \in Threads :
    \/ \E f \in Files : CreateFile(t, f)
    \/ \E h \in Handles : CloseHandle(t, h)
    \/ \E h \in Handles, len \in Lengths : ReadFile(t, h, len)
    \/ \E h \in Handles, s \in Seeks : SeekQuery(t, h, s[1], s[2])
    \/ SetFilePointerEx(t)
    \/ \E h \in Handles, asked \in {0, 1} : CreateFileMapping(t, h, asked)
    \/ MapRewind(t) \/ MapFill(t) \/ MapClaim(t) \/ MapMemory(t, 1) \/ MapClaimMemory(t)
    \/ \E i \in 1..MAPPINGS, off \in 0..2, bytes \in 0..1 : MapViewOfFile(t, i, off, bytes)
    \/ \E f \in Disk : CopyOpen(t, f)
    \/ \E f \in Files \cup {"missing"} : CopyTarget(t, f)
    \/ CopyBuffer(t) \/ CopyRead(t) \/ CopyWrite(t) \/ CopyFree(t) \/ CopyClose(t)
    \/ StdLook(t) \/ StdOpen(t) \/ StdFails(t) \/ StdStore(t)

Spec == Init /\ [][Next]_vars

TypeOK ==
  /\ \A h \in Handles \ FreeHandles :
       /\ file[h].name \in Files /\ file[h].pos \in Nat
       /\ file[h].owner \in Threads \cup {"call", "std"}
  /\ std \in 0..MaxHandles \cup {Invalid}
  /\ \A i \in 1..MAPPINGS : maps[i].used \in BOOLEAN /\ maps[i].size \in Nat

\* A mapping shows the bytes of the file it was made of last, from the first on, as many
\* as the file and the mapping have, however far the handle had been read when
\* CreateFileMappingW read it in chunks, and whatever other threads read and map
\* meanwhile.
MappingHoldsFile ==
  \A i \in 1..MAPPINGS : maps[i].used /\ maps[i].name \in Disk =>
    maps[i].data = SubSeq(Contents(maps[i].name), 1, Min({maps[i].size, SizeOf[maps[i].name]}))

\* UnmapViewOfFile accepts every address MapViewOfFile has returned, if the mapping's
\* entry was given to one call.
ViewsUnmap == \A v \in views : maps[v.map].claims = 1 => UnmapFinds(v)

\* An entry of g_file_mappings is given to one call.
EntriesPrivate == \A i \in 1..MAPPINGS : maps[i].claims <= 1

\* A copy that is going to report success has written every byte it was asked to,
\* through whatever number of chunks and whatever the target is.
CopyComplete ==
  \A t \in Threads : call[t].step \in {"free", "close"} /\ call[t].ok =>
    call[t].put = SizeOf[file[call[t].src].name]

\* The handles that CopyFileW opened are those of copies under way: no path of it leaves
\* one open.
NoHandleLeft ==
  {h \in Handles : file[h].owner = "call"} =
    UNION {{call[t].src, call[t].dst} \ {0} :
             t \in {u \in Threads : "src" \in DOMAIN call[u]}}

\* "Every allocation is preceded by one of these headers": HeapFree is called
\* with blocks of the heap.
HeapFreeGetsBlocks == freed = {}

\* "repeated calls (e.g. from every printf) return the same handle instead of
\* reopening the console"
ConsoleOpenedOnce == opened <= 1
=============================================================================
