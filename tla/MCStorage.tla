------------------------------ MODULE MCStorage -----------------------------
(***************************************************************************)
(* Small instances of what keeps names and bytes: the registry, the FAT    *)
(* volume, the file services of kernel32, the image loader, and the        *)
(* conversions of time stamps and names that the file services make.  The  *)
(* parts do not interact here; `part` says which one runs, and what TLC    *)
(* explores is the union of their state graphs.                            *)
(*                                                                         *)
(* Registry: a name in two spellings; two threads over one handle ("keys") *)
(* or one with values of two sizes and deeper paths ("names").  Volume: an *)
(* executable, its resource module whose name only the long form tells     *)
(* from it, and a plain 8.3 name; files of one or two clusters,            *)
(* directories and deleted files; two slots to a cluster, so that long     *)
(* names straddle clusters.  Files: three bytes read in chunks of two, and *)
(* the console.  Loader: a diamond (user and base both import ntdll), an   *)
(* import cycle (shell and storage), an alias, a late API set, a stand-in  *)
(* (crt for ntdll), a forwarder into an image nobody imports (com), a      *)
(* missing image, and images loaded at run time, one of the first three    *)
(* reads of a call failing.  Conversions: all time stamps of three years,  *)
(* days about the ends of years and centuries.                             *)
(***************************************************************************)
EXTENDS Integers, Sequences

CONSTANTS EOC, Code

VARIABLES part,
          tree, values, table, regcall, result, held,                    \* Registry
          files, mounted, op, pool, faulty, search,                      \* FatVolume
          file, filecall, maps, views, std, opened, freed,               \* FileServices
          phase, ld, order, listed, attached, again, loadcall, failed,   \* Loader
          input, output                                                  \* Conversions

FoldName(n) == CASE n = "B" -> "b" [] n = "V" -> "v" [] OTHER -> n

Spellings == INSTANCE Registry WITH
  Threads <- {"t1"}, Names <- {"b", "B"}, ValueNames <- {"v", "V"}, Fold <- FoldName,
  Datas <- {2}, Roots <- [h \in {100} |-> <<"b">>], Seeds <- <<<<"b">>>>,
  MaxKeys <- 3, MaxHandles <- 1, MaxDepth <- 2, BUFFER <- 1, call <- regcall

Keys == INSTANCE Registry WITH
  Threads <- {"t1", "t2"}, Names <- {"b"}, ValueNames <- {"v"}, Fold <- FoldName,
  Datas <- {2}, Roots <- [h \in {100} |-> <<"b">>], Seeds <- <<<<"b">>>>,
  MaxKeys <- 3, MaxHandles <- 1, MaxDepth <- 1, BUFFER <- 1, call <- regcall

Exe == [long |-> <<"notepad">>, is83 |-> TRUE, short |-> "NOTEPAD EXE"]
Mui == [long |-> <<"notepad", "mui">>, is83 |-> FALSE, short |-> "NOTEPAD EXE"]
Cfg == [long |-> <<"cfg">>, is83 |-> TRUE, short |-> "CFG"]
Entry(n, l, a, k, s) == [name |-> n, lfn |-> l, alias |-> a, kind |-> k, size |-> s]
Entries ==
  {Entry(Exe, FALSE, "NOTEPAD EXE", "file", 2), Entry(Mui, TRUE, "NOTEPA~1EXE", "file", 1),
   Entry(Cfg, FALSE, "CFG", "dir", 0), Entry(Mui, TRUE, "NOTEPA~1EXE", "deleted", 0),
   Entry(Exe, TRUE, "NOTEPAD EXE", "file", 0)}
Directories ==
  UNION {[1..n -> Entries] : n \in 0..2}
  \cup {<<Entry(Mui, TRUE, "NOTEPA~1EXE", "file", 1), e, f>> :
          e \in Entries, f \in {d \in Entries : d.name # Mui /\ d.size # 2}}

Fat == INSTANCE FatVolume WITH
  Names <- {Exe, Mui, Cfg}, Volumes <- Directories,
  Patterns <- {1..3, {2, 3}}, SLOTS <- 2, MaxFragments <- 2

Files == INSTANCE FileServices WITH
  Threads <- {"t1", "t2"}, SizeOf <- [f \in {"data"} |-> 3],
  Console <- "console", MaxHandles <- 2, MAPPINGS <- 1, CHUNK <- 2, Lengths <- {2}, MaxViews <- 1,
  call <- filecall

Imp(dll, sym) == [dll |-> dll, sym |-> sym]
Plain(syms) == [sym \in syms |-> Code]
Loader == INSTANCE Loader WITH
  Exe <- "exe", Threads <- {"t1", "t2"}, MAX_LOADED_MODULES <- 12,
  LDR_MAX_DEPENDENCY_DEPTH <- 12, MaxReads <- 3, MaxMissed <- 1, call <- loadcall,
  Imports <-
    [exe     |-> <<Imp("crt", "p"), Imp("user", "w"), Imp("shell", "s")>>,
     ntdll   |-> <<>>,
     crt     |-> <<Imp("ntdll", "n")>>,
     base    |-> <<Imp("ntdll", "n"), Imp("ntdll", "p")>>,
     user    |-> <<Imp("api-core", "b"), Imp("base", "c"), Imp("gone", "x")>>,
     shell   |-> <<Imp("storage", "t"), Imp("api-ntuser", "w")>>,
     storage |-> <<Imp("shell", "s"), Imp("base", "none")>>,
     com     |-> <<Imp("base", "b")>>,
     ext     |-> <<Imp("extdep", "e"), Imp("user", "w")>>,
     extdep  |-> <<Imp("base", "b")>>,
     broken  |-> <<Imp("base", "b")>>],
  Exports <-
    [exe |-> Plain({}), ntdll |-> Plain({"n"}), crt |-> Plain({"p"}),
     base |-> [sym \in {"b", "c"} |-> IF sym = "b" THEN Code ELSE <<"com", "m">>],
     user |-> Plain({"w"}), shell |-> Plain({"s"}), storage |-> Plain({"t"}),
     com |-> Plain({"m"}), ext |-> Plain({"y"}), extdep |-> Plain({"e"}),
     broken |-> Plain({})],
  Alias <- [name \in {"api-core"} |-> "base"],
  Late <- [name \in {"api-ntuser"} |-> "user"],
  Fallback <- [name \in {"ntdll"} |-> "crt"],
  Unlinkable <- {"broken"},
  Runtime <- {"ext", "user", "gone", "broken", "api-core"}

\* Days about the first of January, March and December of 1602, 1700, 1704,
\* 2000, 2100 and 2110.
YearStarts == {365, 36159, 37619, 145731, 182256, 185908}
Days == UNION {{y + d : d \in {-1, 0, 58, 59, 60, 333, 334, 335}} : y \in YearStarts}
Conv == INSTANCE Conversions WITH
  LIMIT_YEAR <- 2110, FatYears <- {0, 20, 120}, DayNumbers <- Days,
  Patterns <- UNION {[1..k -> {"a", "*", "?"}] : k \in 0..4},
  Names <- UNION {[1..k -> {"a", "A", "b"}] : k \in 0..2} \cup {<<"a", "b", "a">>, <<"b", "A", "a">>},
  Arrays <- UNION {{[i \in 1..k |-> [key |-> f[i], tag |-> i]] : f \in [1..k -> 1..3]} :
                     k \in 0..4},
  Widths <- {64, 65}

ASSUME /\ Keys!RegistryAssumption /\ Spellings!RegistryAssumption /\ Fat!FatAssumption
       /\ Files!FileAssumption /\ Loader!LoaderAssumption

registry == <<tree, values, table, regcall, result, held>>
fat == <<files, mounted, op, pool, faulty, search>>
services == <<file, filecall, maps, views, std, opened, freed>>
loader == <<phase, ld, order, listed, attached, again, loadcall, failed>>
conv == <<input, output>>
vars == <<part, registry, fat, services, loader, conv>>

\* A part that does not run stays in one of its initial states.
Init ==
  /\ part \in {"keys", "names", "volume", "files", "loader", "conversions"}
  /\ IF part = "names" THEN Spellings!Init ELSE Keys!Init
  /\ IF part = "volume" THEN Fat!Init
     ELSE /\ files = <<>> /\ mounted = FALSE /\ op = Fat!Idle
          /\ pool = {} /\ faulty = {} /\ search = Fat!NoSearch
  /\ IF part = "conversions" THEN Conv!Init ELSE input = <<>> /\ output = <<>>
  /\ Files!Init /\ Loader!Init

Next ==
  /\ UNCHANGED part
  /\ \/ part = "keys" /\ Keys!Next /\ UNCHANGED <<fat, services, loader, conv>>
     \/ part = "names" /\ Spellings!Next /\ UNCHANGED <<fat, services, loader, conv>>
     \/ part = "volume" /\ Fat!Next /\ UNCHANGED <<registry, services, loader, conv>>
     \/ part = "files" /\ Files!Next /\ UNCHANGED <<registry, fat, loader, conv>>
     \/ part = "loader" /\ Loader!Next /\ UNCHANGED <<registry, fat, services, conv>>
     \/ part = "conversions" /\ Conv!Next /\ UNCHANGED <<registry, fat, services, loader>>

\* A call into the file system, which runs to its end in the kernel, gets on.
Spec == Init /\ [][Next]_vars /\ WF_fat(part = "volume" /\ Fat!Driver)
-----------------------------------------------------------------------------
\* A call that has returned, also one that failed half way, leaves nothing behind:
\* every place of the registry's handle table is accounted for (RegGetValueW), no pool
\* block is left by the file system (FatLoadFile), no handle by CopyFileW, and a view leads
\* back to the mapping it was made of (UnmapViewOfFile).
NothingLeft ==
  /\ part = "keys" => Keys!TypeOK /\ Keys!HandlesAccounted
  /\ part = "volume" => Fat!TypeOK /\ Fat!BuffersFreed
  /\ part = "files" => Files!TypeOK /\ Files!NoHandleLeft /\ Files!ViewsUnmap

\* What is found is what was named, and all of it: no key has two subkeys or values
\* of one name (cm_walk, cm_set_value); FatLoadFile finds the file that was named and
\* loads it whole unless its chain could not be read; a search reports what matches,
\* once (FindNextFile); a mapping holds its file and a copy that reports success is
\* complete (CreateFileMappingW, CopyFileW).
FoundWhole ==
  /\ part = "names" => Spellings!TypeOK /\ Spellings!NamesDistinct
  /\ part = "volume" => Fat!FindsNamed /\ Fat!LoadWholeUnlessFat /\ Fat!SearchComplete
  /\ part = "files" => Files!MappingHoldsFile /\ Files!CopyComplete

\* An image is mapped and listed once however often it is imported, its imports are
\* bound to what their names stand for, and it is attached after those it imports,
\* cycles apart (LdrLoadDll, resolve_import, LdrInitializeProcess).
LoaderSound ==
  part = "loader" =>
    /\ Loader!TypeOK /\ Loader!MappedOnce /\ Loader!ListedOnce
    /\ Loader!BoundRight /\ Loader!DependencyFirst

\* A file's time stamp survives the way to a date, a day has the date the calendar
\* gives it (FileTimeToSystemTime), a name matches a pattern that can be laid along it
\* (wildcard_match), and sorting keeps elements and the order of equal ones, or leaves
\* elements of more than 64 bytes alone (qsort).
ConversionsRight ==
  part = "conversions" =>
    Conv!StampSurvives /\ Conv!DateOfDay /\ Conv!MatchesRight /\ Conv!SortsStably

\* The tree of keys is a store of values by path, and a registry call that fails
\* changes no key and no value (registry.c, NtSetValueKey).
ImplementsKeyStore == Spellings!ImplementsKeyStore /\ Keys!FailureKeepsValues

\* Every call into the file system returns (fat_next_cluster).
CallsReturn == part = "volume" => Fat!CallsReturn
=============================================================================
