------------------------------ MODULE Registry ------------------------------
(***************************************************************************)
(* The configuration manager (kernel/cm/registry.c) and the Reg* calls on  *)
(* top of it (user/advapi32.c).  A system call is one step, for the kernel *)
(* is not preempted inside one; RegGetValueW makes three of them.  An      *)
(* allocation from the pool may fail at any time.                          *)
(***************************************************************************)
EXTENDS Naturals, Sequences, FiniteSets

CONSTANTS Threads,
          Names, ValueNames, \* path components and value names as written
          Fold(_),           \* a name as captured (cut at 63 characters, '?' for
                             \* what is not ASCII) and in lower case, as compared
          Datas,             \* the data that are stored, each one its size
          Roots,             \* predefined roots, root -> path
          Seeds,             \* the paths CmInitialize creates, in order
          MaxKeys,           \* bound: keys in the tree
          MaxHandles,        \* places of the handle table
          MaxDepth,          \* bound: components of a path
          BUFFER             \* data bytes RegQueryValueEx has room for

RegistryAssumption ==
  /\ MaxHandles \in Nat /\ BUFFER \in Nat /\ Datas \subseteq Nat \ {0}
  /\ \A i \in 1..Len(Seeds) : Seeds[i] \in Seq(Names)

VARIABLES tree,     \* CM_KEYs in the order of creation; tree[1] is g_cm_root
          values,   \* values[k]: the ValueHead list of key k
          table,    \* table[h]: the key behind handle h, 0 for a free place
          call,     \* call[t]: a RegGetValueW under way
          result,   \* what the last call returned
          held      \* ghost: the handles callers have been given and not closed

vars == <<tree, values, table, call, result, held>>

Keys == 1..Len(tree)
Root == 1

\* ci_eq
Same(a, b) == Fold(a) = Fold(b)

cm_find_subkey(keys, parent, name) ==
  {k \in 1..Len(keys) : keys[k].parent = parent /\ Same(keys[k].name, name)}

First(S) == CHOOSE k \in S : \A j \in S : k <= j

\* cm_walk without create: the keys met on the way, 0 once there is none.
Walk(keys, start, path) ==
  LET step[n \in 0..Len(path)] ==
        IF n = 0 THEN start
        ELSE LET found == cm_find_subkey(keys, step[n - 1], path[n])
             IN IF step[n - 1] = 0 \/ found = {} THEN 0 ELSE First(found)
  IN step

\* cm_walk with create: one key is allocated for each missing component until
\* an allocation fails; what has been created by then stays.
cm_walk(keys, start, path) ==
  LET met == Walk(keys, start, path)
      have == Cardinality({n \in 1..Len(path) : met[n] # 0})
  IN {keys \o [i \in 1..new |->
                 [name |-> path[have + i],
                  parent |-> IF i = 1 THEN met[have] ELSE Len(keys) + i - 1]] :
        new \in 0..(Len(path) - have)}

\* CmInitialize: the walks of Seeds, at boot, where no allocation fails.
Seeded[n \in 0..Len(Seeds)] ==
  IF n = 0 THEN <<[name |-> "", parent |-> 0]>>
  ELSE CHOOSE keys \in cm_walk(Seeded[n - 1], Root, Seeds[n]) :
         Walk(keys, Root, Seeds[n])[Len(Seeds[n])] # 0

NoCall == [step |-> "none", h |-> 0, name |-> ""]
NoResult == [status |-> "none", handle |-> 0, key |-> 0,
             data |-> 0, bytes |-> 0]

Init ==
  /\ tree = Seeded[Len(Seeds)]
  /\ values = [k \in 1..Len(tree) |-> <<>>]
  /\ table = [h \in 1..MaxHandles |-> 0]
  /\ call = [t \in Threads |-> NoCall]
  /\ result = NoResult
  /\ held = {}

Returns(status) == result' = [NoResult EXCEPT !.status = status]

\* cm_key_from_handle: handle 0 is the root, 0 is "no such key".
cm_key_from_handle(h) ==
  IF h = 0 THEN Root ELSE IF h \in DOMAIN table THEN table[h] ELSE 0

\* cm_make_handle: the first free place, or 0 when there is no object or place.
Free == {h \in DOMAIN table : table[h] = 0}
cm_make_handle(k) ==
  \/ /\ Free # {}
     /\ table' = [table EXCEPT ![First(Free)] = k]
     /\ result' = [NoResult EXCEPT !.status = "ok", !.handle = First(Free), !.key = k]
  \/ /\ UNCHANGED table
     /\ result' = [NoResult EXCEPT !.status = "ok", !.key = k]

\* build_key_name: a predefined root becomes an absolute path.
Target(hkey, path) ==
  IF hkey \in DOMAIN Roots THEN [root |-> 0, path |-> Roots[hkey] \o path]
  ELSE [root |-> hkey, path |-> path]

\* A pointer that cannot be probed, a handle that names no key.
Refused(t) ==
  /\ call[t] = NoCall
  /\ \E status \in {"access violation", "invalid handle"} : Returns(status)
  /\ UNCHANGED <<tree, values, table, call, held>>

\* NtCreateKey through RegCreateKeyExA/W.
NtCreateKey(t, hkey, path) ==
  LET at == Target(hkey, path)
      start == cm_key_from_handle(at.root)
  IN /\ call[t] = NoCall
     /\ start # 0
     /\ \E keys \in cm_walk(tree, start, at.path) :
          LET k == Walk(keys, start, at.path)[Len(at.path)]
          IN /\ Len(keys) <= MaxKeys
             /\ tree' = keys
             /\ values' = values \o [i \in 1..(Len(keys) - Len(tree)) |-> <<>>]
             /\ \/ k = 0 /\ Returns("no memory") /\ UNCHANGED table
                \/ k # 0 /\ cm_make_handle(k)
     /\ held' = held \cup ({result'.handle} \ {0})
     /\ UNCHANGED call

\* NtOpenKey through RegOpenKeyExA/W.
NtOpenKey(t, hkey, path) ==
  LET at == Target(hkey, path)
      start == cm_key_from_handle(at.root)
      k == Walk(tree, start, at.path)[Len(at.path)]
  IN /\ start # 0
     /\ IF k = 0 THEN Returns("name not found") /\ UNCHANGED table
        ELSE cm_make_handle(k)
     /\ UNCHANGED <<tree, values>>

RegOpenKeyEx(t, hkey, path) ==
  /\ call[t] = NoCall
  /\ NtOpenKey(t, hkey, path)
  /\ held' = held \cup ({result'.handle} \ {0})
  /\ UNCHANGED call

\* cm_find_value: the places of the list that hold the name.
cm_find_value(list, name) == {i \in 1..Len(list) : Same(list[i].name, name)}

\* cm_set_value
cm_set_value(list, name, data) ==
  LET same == cm_find_value(list, name)
  IN IF same # {} THEN [list EXCEPT ![First(same)].data = data]
     ELSE Append(list, [name |-> name, data |-> data])

\* Faulty NtSetValueKey: the old value is unlinked before the new is allocated.
SetUnlinksFirst(t, h, name, data) ==
  LET k == cm_key_from_handle(h)
  IN /\ call[t] = NoCall /\ k # 0
     /\ \/ /\ values' = [values EXCEPT ![k] = cm_set_value(@, name, data)]
           /\ Returns("ok")
        \/ /\ values' = [values EXCEPT ![k] = SelectSeq(@, LAMBDA v : ~Same(v.name, name))]
           /\ Returns("no memory")
     /\ UNCHANGED <<tree, table, call, held>>

\* NtSetValueKey through RegSetValueExA/W: a predefined root is passed on as a
\* handle, which names no key (Refused).
NtSetValueKey(t, h, name, data) ==
  LET k == cm_key_from_handle(h)
  IN /\ call[t] = NoCall /\ k # 0
     /\ \/ /\ values' = [values EXCEPT ![k] = cm_set_value(@, name, data)]
           /\ Returns("ok")
        \/ Returns("no memory") /\ UNCHANGED values
     /\ UNCHANGED <<tree, table, call, held>>

\* NtQueryValueKey: at most `room` bytes of the data are copied, the size told is
\* the whole size and the status is success.
NtQueryValueKey(h, name, room) ==
  LET k == cm_key_from_handle(h)
      found == cm_find_value(values[k], name)
      v == values[k][First(found)]
  IN IF k = 0 THEN Returns("invalid handle")
     ELSE IF found = {} THEN Returns("name not found")
     ELSE result' = [status |-> "ok", handle |-> h, key |-> k,
                     data |-> v.data,
                     bytes |-> IF room < v.data THEN room ELSE v.data]

\* RegQueryValueExA/W and RegQueryValueW: through a buffer of BUFFER data bytes.
RegQueryValueEx(t, h, name) ==
  /\ call[t] = NoCall
  /\ NtQueryValueKey(h, name, BUFFER)
  /\ UNCHANGED <<tree, values, table, call, held>>

\* NtClose through RegCloseKey; handle 0 and the predefined roots are left alone.
Closed(h) == IF h \in DOMAIN table THEN [table EXCEPT ![h] = 0] ELSE table

RegCloseKey(t, h) ==
  /\ call[t] = NoCall
  /\ h \in held
  /\ table' = Closed(h)
  /\ held' = held \ {h}
  /\ Returns("ok")
  /\ UNCHANGED <<tree, values, call>>

\* RegGetValueW: open, query, close.
GetOpen(t, hkey, path, name) ==
  /\ call[t] = NoCall
  /\ path # <<>>
  /\ NtOpenKey(t, hkey, path)
  /\ call' = [call EXCEPT ![t] =
       IF result'.status = "ok"
       THEN [step |-> "query", h |-> result'.handle, name |-> name]
       ELSE NoCall]
  /\ UNCHANGED held

GetQuery(t) ==
  /\ call[t].step = "query"
  /\ NtQueryValueKey(call[t].h, call[t].name, BUFFER)
  /\ call' = [call EXCEPT ![t] = [@ EXCEPT !.step = "close", !.name = ""]]
  /\ UNCHANGED <<tree, values, table, held>>

GetClose(t) ==
  /\ call[t].step = "close"
  /\ table' = Closed(call[t].h)
  /\ call' = [call EXCEPT ![t] = NoCall]
  /\ UNCHANGED <<tree, values, result, held>>

PathSet == UNION {[1..n -> Names] : n \in 0..MaxDepth}
Handles == held \cup {0}
HKeys == Handles \cup DOMAIN Roots

Next ==
  \E t \in Threads :
    \/ Refused(t)
    \/ \E hkey \in HKeys, path \in PathSet :
         \/ NtCreateKey(t, hkey, path)
         \/ RegOpenKeyEx(t, hkey, path)
         \/ \E name \in ValueNames : GetOpen(t, hkey, path, name)
    \/ \E h \in Handles :
         \/ RegCloseKey(t, h)
         \/ \E name \in ValueNames : RegQueryValueEx(t, h, name)
         \/ \E name \in ValueNames, data \in Datas : NtSetValueKey(t, h, name, data)
    \/ GetQuery(t)
    \/ GetClose(t)

Spec == Init /\ [][Next]_vars

TypeOK ==
  /\ \A k \in Keys : tree[k].name \in Names \cup {""} /\ tree[k].parent \in 0..(k - 1)
  /\ Len(values) = Len(tree)
  /\ \A k \in Keys : \A i \in 1..Len(values[k]) :
       values[k][i].name \in ValueNames /\ values[k][i].data \in Datas
  /\ table \in [1..MaxHandles -> 0..Len(tree)]
  /\ held \subseteq 1..MaxHandles

\* A key has no two subkeys and no two values whose names the comparison of the
\* registry (ci_eq) takes for the same, however they were created.
NamesDistinct ==
  \A j, k \in Keys :
    /\ tree[j].parent = tree[k].parent /\ Same(tree[j].name, tree[k].name) => j = k
    /\ \A i1, i2 \in 1..Len(values[k]) :
         Same(values[k][i1].name, values[k][i2].name) => i1 = i2

\* The places of the handle table are those of the handles callers hold and of
\* the RegGetValueW calls under way: no call leaves a handle behind.
HandlesAccounted ==
  {h \in DOMAIN table : table[h] # 0} =
    held \cup ({call[t].h : t \in Threads} \ {0})

\* A call that fails leaves every value as it was and every key in its place,
\* whichever allocation has failed.
FailureKeepsValues ==
  [][result'.status \notin {"ok", "none"} =>
       /\ SubSeq(tree', 1, Len(tree)) = tree
       /\ \A k \in Keys : values'[k] = values[k]]_vars

\* The path of each key, in the form names are compared in.
PathOf[k \in Keys] ==
  IF k = Root THEN <<>> ELSE Append(PathOf[tree[k].parent], Fold(tree[k].name))

\* A list of values as a function from names to data.
AsFunction(list) ==
  [v \in {Fold(list[i].name) : i \in 1..Len(list)} |->
     list[CHOOSE i \in 1..Len(list) : Fold(list[i].name) = v].data]

Store == INSTANCE KeyStore WITH
  Names <- {Fold(m) : m \in Names},
  ValueNames <- {Fold(m) : m \in ValueNames},
  store <- LET paths == [k \in Keys |-> PathOf[k]]
           IN [p \in {paths[k] : k \in Keys} |->
                 AsFunction(values[CHOOSE k \in Keys : paths[k] = p])]

\* The tree of keys with its lists of values is a store of values by path that
\* only grows and in which one value is replaced at a time.
ImplementsKeyStore == Store!Spec

\* "NtCreateKey/NtOpenKey return a handle, NtSetValueKey/NtQueryValueKey operate
\* through it": after a success the handle leads to the key that was named.
SuccessGivesHandle ==
  result.status = "ok" /\ result.key # 0 /\ result.data = 0
    => cm_key_from_handle(result.handle) = result.key

\* "KEY_VALUE_PARTIAL_INFORMATION header + up to a page of data": a query that
\* succeeds has fetched the whole value.
QueryWhole == result.status = "ok" => result.bytes = result.data
=============================================================================
