------------------------------- MODULE Loader -------------------------------
(***************************************************************************)
(* The image loader (kernel/ldr/pe.c), the start-up of the process         *)
(* (LdrInitializeProcess, user/ntdll.asm) and LoadLibrary of kernel32.     *)
(* Loading in the kernel is not interrupted, so it is a function of the    *)
(* loader's state, ld: `maps` lists the images mapped, an image's base is  *)
(* its place there; `cache` is g_loaded.  Threads then race in ring 3.     *)
(* Names have at most 31 characters, which is what the cache keeps of them *)
(* (pe.c:822).                                                             *)
(***************************************************************************)
EXTENDS Naturals, Sequences, SequencesExt, FiniteSets

CONSTANTS Exe,         \* the boot program
          Imports,     \* image -> sequence of [dll, sym]
          Exports,     \* image -> [symbol -> Code or <<image, symbol>> (a forwarder)]
          Code,
          Alias,       \* API-set and facade names -> the host to load instead
          Late,        \* API-set names -> host to use only if it is loaded
          Fallback,    \* image -> image that stands in for symbols it lacks
          Unlinkable,  \* images whose delay-import descriptors are not supported
          Runtime,     \* names that are loaded at run time
          Threads,
          MaxReads,    \* bound: any one of a call's first reads may fail
          MaxMissed,   \* bound: reads that fail
          MAX_LOADED_MODULES, LDR_MAX_DEPENDENCY_DEPTH

Images == DOMAIN Imports                       \* the images on the disk

LoaderAssumption ==
  /\ Exe \in Images /\ DOMAIN Exports = Images
  /\ MAX_LOADED_MODULES \in Nat \ {0} /\ LDR_MAX_DEPENDENCY_DEPTH \in Nat
  /\ MaxReads \in Nat /\ MaxMissed \in Nat

VARIABLES phase,     \* "boot", "attach" (LdrInitializeProcess), "run", "stopped"
          ld,        \* [maps, cache, iat]; fail: the read of an image that fails, counted
                     \* from the next (0: none); ghost missed: images it was the read of
          order,     \* LDR_INIT_BLOCK: the cache entries to attach, in order
          listed,    \* the cache entries linked to PEB->Ldr, in order
          attached,  \* ghost: bases whose entry point has been called
          again,     \* ghost: bases whose entry point has been called again
          call,      \* call[t]: a LoadLibrary under way
          failed     \* ghost: names whose load has failed though every read succeeded

vars == <<phase, ld, order, listed, attached, again, call, failed>>

Stub == <<0, "stub">>

\* lookup_module: the base cached under the name, or 0.
Lookup(s, name) ==
  LET at == {i \in 1..Len(s.cache) : s.cache[i].name = name}
  IN IF at = {} THEN 0 ELSE s.cache[CHOOSE i \in at : TRUE].base

\* remember_module: a full cache forgets the image.
remember_module(s, name, base) ==
  IF Len(s.cache) = MAX_LOADED_MODULES THEN s
  ELSE [s EXCEPT !.cache = Append(@, [name |-> name, base |-> base, deps |-> {}])]

IndexOf(s, base) == {i \in 1..Len(s.cache) : s.cache[i].base = base}

remember_dependency(s, importer, dep) ==
  IF importer = dep \/ IndexOf(s, importer) = {} \/ IndexOf(s, dep) = {} THEN s
  ELSE LET from == CHOOSE i \in IndexOf(s, importer) : TRUE
       IN [s EXCEPT !.cache[from].deps = @ \cup IndexOf(s, dep)]

RECURSIVE LdrpLoadModule(_, _, _), LdrResolveImports(_, _, _, _), LdrGetProcAddress(_, _, _, _)

\* Faulty LdrGetProcAddress: a forwarder is taken for the routine.
ProcNoForwarders(s, base, sym, depth) ==
  IF base = 0 \/ (base # 0 /\ sym \notin DOMAIN Exports[s.maps[base]])
  THEN [s |-> s, addr |-> Stub]
  ELSE [s |-> s, addr |-> <<base, sym>>]

\* LdrGetProcAddress and LdrpProcByOrdinal: forwarders load their target, on
\* whose behalf no dependency is remembered.
LdrGetProcAddress(s, base, sym, depth) ==
  IF base = 0 THEN [s |-> s, addr |-> Stub]
  ELSE LET exports == Exports[s.maps[base]]
       IN IF sym \notin DOMAIN exports THEN [s |-> s, addr |-> Stub]
          ELSE IF exports[sym] = Code THEN [s |-> s, addr |-> <<base, sym>>]
          ELSE LET host == LdrpLoadModule(s, exports[sym][1], depth)
               IN LdrGetProcAddress(host.s, host.base, exports[sym][2], depth)

\* One import: a late host is used only if it is there; an import that nobody
\* provides gets a stub.
BindImport(s, base, imp, depth) ==
  LET late == IF imp.dll \in DOMAIN Late THEN Lookup(s, Late[imp.dll]) ELSE 0
      host == IF late # 0 THEN [s |-> s, base |-> late] ELSE LdrpLoadModule(s, imp.dll, depth)
      known == IF late = 0 /\ host.base # 0
               THEN remember_dependency(host.s, base, host.base) ELSE host.s
      proc == LdrGetProcAddress(known, host.base, imp.sym, depth)
      other == IF imp.dll \in DOMAIN Fallback THEN Lookup(proc.s, Fallback[imp.dll]) ELSE 0
      bound == IF proc.addr = Stub /\ other # 0
               THEN LdrGetProcAddress(proc.s, other, imp.sym, depth) ELSE proc
  IN [bound.s EXCEPT !.iat[base] = Append(@, bound.addr)]

LdrResolveImports(s, base, i, depth) ==
  LET imports == Imports[s.maps[base]]
  IN IF i > Len(imports) THEN s
     ELSE LdrResolveImports(BindImport(s, base, imports[i], depth), base, i + 1, depth)

MapImage(s, name) ==
  [s EXCEPT !.maps = Append(@, name), !.iat = Append(@, <<>>)]

\* LdrpLoadModule and its worker; base 0 is failure.  An image may not be read or find
\* no memory this time (FatLoadFile, LdrpMapImage), and one that turns out not to be
\* linkable stays mapped and cached.
LdrpLoadModule(s, name, depth) ==
  IF depth >= LDR_MAX_DEPENDENCY_DEPTH THEN [s |-> s, base |-> 0]
  ELSE IF name \in DOMAIN Alias THEN LdrpLoadModule(s, Alias[name], depth + 1)
  ELSE IF Lookup(s, name) # 0 THEN [s |-> s, base |-> Lookup(s, name)]
  ELSE IF name \notin Images THEN [s |-> s, base |-> 0]
  ELSE IF s.fail = 1 THEN [s |-> [s EXCEPT !.fail = 0, !.missed = @ \cup {name}], base |-> 0]
  ELSE LET base == Len(s.maps) + 1
           left == [s EXCEPT !.fail = IF @ = 0 THEN 0 ELSE @ - 1]
           cached == remember_module(MapImage(left, name), name, base)
           linked == LdrResolveImports(cached, base, 1, depth + 1)
       IN [s |-> linked, base |-> IF name \in Unlinkable THEN 0 ELSE base]

\* LdrpAppendInitDfs: dependencies first; st holds the marks and the order.
RECURSIVE LdrpAppendInitDfs(_, _, _)
LdrpAppendInitDfs(s, i, st) ==
  IF st.mark[i] # 0 THEN st
  ELSE LET RECURSIVE visit(_, _)
           visit(d, acc) ==
             IF d > Len(s.cache) THEN acc
             ELSE visit(d + 1, IF d \in s.cache[i].deps
                               THEN LdrpAppendInitDfs(s, d, acc) ELSE acc)
           below == visit(1, [st EXCEPT !.mark[i] = 1])
       IN [mark |-> [below.mark EXCEPT ![i] = 2],
           order |-> IF i = 1 THEN below.order ELSE Append(below.order, i)]

\* LdrpBuildInitBlock: the modules below the executable, then those that only
\* forwarders have pulled in.
LdrpBuildInitBlock(s) ==
  LET RECURSIVE rest(_, _)
      rest(i, st) == IF i > Len(s.cache) THEN st
                     ELSE rest(i + 1, LdrpAppendInitDfs(s, i, st))
  IN rest(1, [mark |-> [i \in 1..Len(s.cache) |-> 0], order |-> <<>>]).order

\* ldr_sync_module_list: the cached modules that are not yet linked; there is room for
\* as many as the cache holds (PROCESS_LDR_SIZE).
ldr_sync_module_list(s, list) ==
  list \o SelectSeq([i \in 1..Len(s.cache) |-> i], LAMBDA i : ~Contains(list, i))

NoCall == [step |-> "none", name |-> "", base |-> 0]

Init ==
  /\ phase = "boot"
  /\ ld = [maps |-> <<>>, cache |-> <<>>, iat |-> <<>>, fail |-> 0, missed |-> {}]
  /\ order = <<>> /\ listed = <<>> /\ attached = {} /\ again = {}
  /\ call = [t \in Threads |-> NoCall]
  /\ failed = {}

Failing == {n \in 0..MaxReads : n > 0 => Cardinality(ld.missed) < MaxMissed}

\* LdrLoadExecutable, then LdrBuildProcessModuleList as the process is created.
LdrLoadExecutable ==
  /\ phase = "boot"
  /\ \E n \in Failing :
       LET loaded == remember_module(MapImage([ld EXCEPT !.fail = n], Exe), Exe, 1)
           s == [LdrResolveImports(loaded, 1, 1, 0) EXCEPT !.fail = 0]
       IN /\ ld' = s
          /\ order' = LdrpBuildInitBlock(s)
          /\ listed' = ldr_sync_module_list(s, <<>>)
          /\ phase' = IF Exe \in Unlinkable THEN "stopped" ELSE "attach"
  /\ UNCHANGED <<attached, again, call, failed>>

\* An entry point is called with DLL_PROCESS_ATTACH.
Attach(base) ==
  /\ attached' = attached \cup {base}
  /\ again' = again \cup (attached \cap {base})

\* LdrInitializeProcess: the next entry point; one that fails is only reported.
LdrInitializeProcess ==
  /\ phase = "attach"
  /\ IF order = <<>> THEN phase' = "run" /\ UNCHANGED <<order, attached, again>>
     ELSE /\ Attach(ld.cache[Head(order)].base)
          /\ order' = Tail(order)
          /\ UNCHANGED phase
  /\ UNCHANGED <<ld, listed, call, failed>>

Handle(name) ==
  LET at == {i \in Range(listed) : ld.cache[i].name = name}
  IN IF at = {} THEN 0 ELSE ld.cache[CHOOSE i \in at : TRUE].base

\* LoadLibraryA/W: a module of the list is returned as it is.
LoadLibrary(t, name) ==
  /\ phase = "run" /\ call[t].step \in {"none", "done"}
  /\ call' = [call EXCEPT ![t] =
       IF Handle(name) # 0 THEN [step |-> "done", name |-> name, base |-> Handle(name)]
       ELSE [step |-> "load", name |-> name, base |-> 0]]
  /\ UNCHANGED <<phase, ld, order, listed, attached, again, failed>>

\* NtLoadLibrary
NtLoadLibrary(t) ==
  /\ call[t].step = "load"
  /\ \E n \in Failing :
       LET r == LdrpLoadModule([ld EXCEPT !.fail = n], call[t].name, 0)
       IN /\ ld' = [r.s EXCEPT !.fail = 0]
          /\ listed' = IF r.base # 0 THEN ldr_sync_module_list(r.s, listed) ELSE listed
          /\ failed' = IF r.base = 0 /\ n = 0 THEN failed \cup {call[t].name} ELSE failed
          /\ call' = [call EXCEPT ![t] = [@ EXCEPT !.base = r.base,
                                  !.step = IF r.base = 0 THEN "done" ELSE "entry"]]
  /\ UNCHANGED <<phase, order, attached, again>>

\* DLL_PROCESS_ATTACH of the module that was asked for; it may refuse.
CallEntry(t) ==
  /\ call[t].step = "entry"
  /\ Attach(call[t].base)
  /\ \E accepts \in BOOLEAN :
       call' = [call EXCEPT ![t] = [@ EXCEPT !.step = "done", !.base = IF accepts THEN @ ELSE 0]]
  /\ UNCHANGED <<phase, ld, order, listed, failed>>

Next ==
  \/ LdrLoadExecutable \/ LdrInitializeProcess
  \/ \E t \in Threads :
       \/ \E name \in Runtime : LoadLibrary(t, name)
       \/ NtLoadLibrary(t)
       \/ CallEntry(t)

Spec == Init /\ [][Next]_vars

Bases == 1..Len(ld.maps)

TypeOK ==
  /\ \A b \in Bases : ld.maps[b] \in Images
  /\ Len(ld.cache) <= MAX_LOADED_MODULES
  /\ \A i \in 1..Len(ld.cache) : /\ ld.cache[i].base \in Bases
                                 /\ ld.cache[i].deps \subseteq 1..Len(ld.cache)
  /\ Range(listed) \cup Range(order) \subseteq 1..Len(ld.cache)
  /\ attached \cup again \subseteq Bases

\* "a small cache tracks what is already loaded", "satisfies repeat imports and
\* breaks import cycles": no image is mapped twice.
MappedOnce == \A a, b \in Bases : ld.maps[a] = ld.maps[b] => a = b

Nobody == <<"", "">>

\* The image and symbol that finally stand behind an import, by the exports of the
\* images on the disk alone.
RECURSIVE Provider(_, _)
Provider(name, sym) ==
  LET host == IF name \in DOMAIN Alias THEN Alias[name] ELSE name
  IN IF host \notin Images \/ host \in Unlinkable THEN Nobody
     ELSE IF sym \notin DOMAIN Exports[host] THEN Nobody
     ELSE IF Exports[host][sym] = Code THEN <<host, sym>>
     ELSE Provider(Exports[host][sym][1], Exports[host][sym][2])

\* A read of an image that the symbol is looked up in has failed at some time.
RECURSIVE Missed(_, _)
Missed(name, sym) ==
  LET host == IF name \in DOMAIN Alias THEN Alias[name] ELSE name
  IN \/ host \in ld.missed
     \/ /\ host \in Images /\ sym \in DOMAIN Exports[host] /\ Exports[host][sym] # Code
        /\ Missed(Exports[host][sym][1], Exports[host][sym][2])

\* Every slot of every import table leads to the routine that provides the symbol
\* through aliases and forwarders, import cycles included, and to a stub only if there
\* is none or an image on the way could not be read; names that are bound late, or
\* through a stand-in, may be stubs.
BoundRight ==
  \A b \in Bases : \A i \in 1..Len(ld.iat[b]) :
    LET imp == Imports[ld.maps[b]][i]
        addr == ld.iat[b][i]
        to == IF addr = Stub THEN Nobody ELSE <<ld.maps[addr[1]], addr[2]>>
        real == Provider(imp.dll, imp.sym)
        lost == Missed(imp.dll, imp.sym)
    IN IF imp.dll \in DOMAIN Late THEN to \in {Nobody, Provider(Late[imp.dll], imp.sym)}
       ELSE \/ to = real
            \/ lost /\ to = Nobody
            \/ /\ imp.dll \in DOMAIN Fallback /\ (lost \/ real = Nobody)
               /\ to \in {Nobody, Provider(Fallback[imp.dll], imp.sym)}

\* The cache entries an entry imports from, unless their image could not be read once (the
\* import may then be a stub for which no dependency is kept), and those it depends on at any depth.
Needs(i) ==
  {j \in 2..Len(ld.cache) : \E imp \in Range(Imports[ld.cache[i].name]) :
     /\ ld.cache[j].name = IF imp.dll \in DOMAIN Alias THEN Alias[imp.dll] ELSE imp.dll
     /\ ld.cache[j].name \notin ld.missed}
Below(i) ==
  LET reach[n \in 0..Len(ld.cache)] ==
        IF n = 0 THEN Needs(i)
        ELSE reach[n - 1] \cup UNION {Needs(j) : j \in reach[n - 1]}
  IN reach[Len(ld.cache)]

\* "Windows initializes DLLs in dependency-first topological order": at start-up no
\* module is attached before one it imports from, unless the two import each other.
DependencyFirst ==
  phase = "attach" =>
    \A i \in Range(order) : \A j \in Needs(i) :
      i \notin Below(j) /\ ld.cache[j].base \notin attached =>
        \E m, n \in 1..Len(order) : m < n /\ order[m] = j /\ order[n] = i

\* Every module of the cache is in the process's module list, once, in order of
\* loading, at whatever point the runtime loads have got to.
ListedOnce ==
  phase = "run" =>
    \A i \in 1..Len(listed) :
      /\ \A j \in 1..Len(listed) : listed[i] = listed[j] => i = j
      /\ i > 1 => listed[i - 1] < listed[i]

\* "perform DLL_PROCESS_ATTACH here ... before any exported entry point is called":
\* once a LoadLibrary returns a module, that module and the ones its imports are
\* bound to have been attached.
UsedIsAttached ==
  \A t \in Threads : call[t].step = "done" /\ call[t].base # 0 =>
    \A j \in UNION {Below(i) \cup {i} : i \in IndexOf(ld, call[t].base)} :
      j = 1 \/ ld.cache[j].base \in attached

\* "Already loaded? Return the existing module (Windows semantics)": the entry point
\* of a module is called once.
AttachedOnce == again = {}

\* "returning its load base (0 on failure)": a name whose load has failed does not
\* lead to a module later, for nothing on the disk has changed.
FailureStays ==
  \A t \in Threads : call[t].step \in {"entry", "done"} /\ call[t].base # 0 =>
    call[t].name \notin failed

\* "An RVA pointing back into the export directory is a forwarder string, not
\* executable code": GetProcAddress of kernel32, which adds the RVA to the base,
\* returns executable code.
ProcAddressIsCode ==
  phase = "run" =>
    \A i \in Range(listed) : LET image == ld.maps[ld.cache[i].base]
                             IN \A sym \in DOMAIN Exports[image] : Exports[image][sym] = Code

=============================================================================
