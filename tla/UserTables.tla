----------------------------- MODULE UserTables -----------------------------
(***************************************************************************)
(* The tables of USER objects in kernel/ke/syscall.c: atoms and registered *)
(* messages, window classes, windows with their longs and properties,      *)
(* cursors and accelerator tables.  Services run with interrupts masked,   *)
(* so each is one step.                                                    *)
(*                                                                         *)
(* A name is <<head, middle, rest, letters>>: its first 31 characters, the *)
(* next 32 and what follows, all without regard to case ("" when there is  *)
(* none), and the way it is capitalised.                                   *)
(***************************************************************************)
EXTENDS Integers, Sequences, FiniteSets

CONSTANTS Names,            \* names that are registered and looked up
          Rooms,            \* MaximumLength of the strings passed in (strings)
          Procs,            \* window procedures
          Keys, Values,     \* of properties, longs and cursors
          Indexes,          \* indexes given to SetWindowLong
          USER_MAX_ATOMS, USER_MAX_CLASSES, USER_MAX_PROPS, USER_CURSOR_CACHE,
          MaxWindow,        \* windows are numbered from 1 to this (127)
          MaxObjects,       \* cursors and accelerator tables (312)
          SlotWords,        \* 8-byte words of an arena slot
          LongBase, LongCount  \* WINDOW_LONG_BASE in words, WINDOW_LONG_COUNT

TablesAssumption ==
  /\ \A n \in {USER_MAX_ATOMS, USER_MAX_CLASSES, USER_MAX_PROPS, USER_CURSOR_CACHE,
               MaxWindow, MaxObjects} : n \in Nat
  /\ LongBase \in 1..SlotWords /\ LongBase + LongCount < SlotWords
  /\ Indexes \subseteq Int

VARIABLES atoms,     \* g_user_atoms: the names, in the order of their atoms
          classes,   \* g_user_classes, slot -> class
          props,     \* g_user_props: {[hwnd, key, value]}
          windows,   \* windows created so far
          arena,     \* words of the object arena
          objects,   \* g_user_next_object, counted from zero
          cursors,   \* the cursor cache
          ids,       \* ghost: <<name, id>> of every message registered
          procs,     \* ghost: the procedure registered first under a name
          longs      \* ghost: the long set last, per window and index

vars == <<atoms, classes, props, windows, arena, objects, cursors, ids, procs, longs>>

Cut31(n) == <<n[1], "", "", n[4]>>
Cut63(n) == <<n[1], n[2], "", n[4]>>

KiWideEqual(a, b) == a[1] = b[1] /\ a[2] = b[2] /\ a[3] = b[3]

NoClass == [used |-> FALSE, name |-> <<"", "", "", "">>, proc |-> "", atom |-> 0]
Blank == "zero"

Init ==
  /\ atoms = <<>>
  /\ classes = [i \in 1..USER_MAX_CLASSES |-> NoClass]
  /\ props = {} /\ windows = 0 /\ objects = 0 /\ cursors = <<>>
  /\ arena = [w \in 0..((MaxWindow + 1) * SlotWords - 1) |-> Blank]
  /\ ids = {} /\ procs = {} /\ longs = {}

(***************************************************************************)
(* Atoms: atom k stands for 0xC000 + k - 1, and 0 for failure.             *)
(***************************************************************************)
FindAtom(name) == {k \in 1..Len(atoms) : KiWideEqual(atoms[k], name)}

KiUserAddAtom(name) ==
  IF FindAtom(name) # {} THEN [table |-> atoms, atom |-> CHOOSE k \in FindAtom(name) : TRUE]
  ELSE IF Len(atoms) >= USER_MAX_ATOMS THEN [table |-> atoms, atom |-> 0]
  ELSE [table |-> Append(atoms, Cut63(name)), atom |-> Len(atoms) + 1]

\* KiCaptureAtomName: a counted string of more than 63 characters is taken for a bare
\* one, so that the name becomes the two words of its header.
KiCaptureAtomName(name, room) == IF name[3] # "" THEN <<"length", room, "", "">> ELSE name

NtUserRegisterWindowMessage(name, room) ==
  LET r == KiUserAddAtom(KiCaptureAtomName(name, room))
  IN /\ atoms' = r.table
     /\ ids' = IF r.atom = 0 THEN ids ELSE ids \cup {<<name, r.atom>>}
     /\ UNCHANGED <<classes, props, windows, arena, objects, cursors, procs, longs>>

\* KiUserAtomName, for NtUserGetAtomName
KiUserAtomName(atom) == {atoms[k] : k \in {k \in 1..Len(atoms) : k = atom}}

(***************************************************************************)
(* Classes.                                                                *)
(***************************************************************************)
UsedClasses == {i \in DOMAIN classes : classes[i].used}
ClassNamed(name) == {i \in UsedClasses : KiWideEqual(classes[i].name, Cut31(name))}
Least(S) == CHOOSE i \in S : \A j \in S : i <= j

\* A class already there is left as it is; a new one is interned, whether or not
\* there is an atom left for it.
NtUserRegisterClassExWOW(name, proc) ==
  LET free == DOMAIN classes \ UsedClasses
      r == KiUserAddAtom(Cut31(name))
  IN IF ClassNamed(name) # {} \/ free = {}
     THEN /\ procs' = IF \E p \in procs : p[1] = name THEN procs ELSE procs \cup {<<name, proc>>}
          /\ UNCHANGED <<atoms, classes, props, windows, arena, objects, cursors, ids, longs>>
     ELSE /\ atoms' = r.table
          /\ classes' = [classes EXCEPT ![Least(free)] =
               [used |-> TRUE, name |-> Cut31(name), proc |-> proc, atom |-> r.atom]]
          /\ procs' = {p \in procs : p[1] # name} \cup {<<name, proc>>}
          /\ UNCHANGED <<props, windows, arena, objects, cursors, ids, longs>>

\* The name is read through a pointer; if it cannot be read the local buffer is
\* whatever the stack holds, which may be any class's name or none.
NtUserUnregisterClass(i) ==
  /\ i \in UsedClasses
  /\ classes' = [classes EXCEPT ![i] = NoClass]
  /\ procs' = {p \in procs : ~KiWideEqual(Cut31(p[1]), classes[i].name)}
  /\ UNCHANGED <<atoms, props, windows, arena, objects, cursors, ids, longs>>

\* KiClassForCreate and NtUserGetClassInfoEx, by name and by atom.
KiClassForCreate(name) ==
  IF ClassNamed(name) = {} THEN NoClass ELSE classes[Least(ClassNamed(name))]
ClassOfAtom(atom) ==
  LET found == {i \in UsedClasses : atom # 0 /\ classes[i].atom = atom}
  IN IF found = {} THEN NoClass ELSE classes[Least(found)]

(***************************************************************************)
(* Windows.                                                                *)
(***************************************************************************)
Word(slot, k) == slot * SlotWords + k
LongAt(slot, index) == Word(slot, LongBase - index - 1)
Slot(slot) == {Word(slot, k) : k \in 0..(SlotWords - 1)}
HandleAt(slot) == Word(slot, 0)
ProcAt(slot) == Word(slot, LongBase + LongCount)

\* Faulty NtUserCreateWindowEx: the slot before the window's own is cleared.
CreateClearsBefore(class) ==
  /\ windows < MaxWindow
  /\ windows' = windows + 1
  /\ arena' = [w \in DOMAIN arena |->
       IF w \in Slot(windows) THEN Blank
       ELSE IF w = HandleAt(windows + 1) THEN "handle"
       ELSE IF w = ProcAt(windows + 1) THEN class.proc ELSE arena[w]]
  /\ longs' = {l \in longs : LongAt(l[1], l[2]) \notin Slot(windows + 1)}
  /\ UNCHANGED <<atoms, classes, props, objects, cursors, ids, procs>>

\* The slot is cleared, the head and the state that user32 reads are published.
NtUserCreateWindowEx(class) ==
  /\ windows < MaxWindow
  /\ windows' = windows + 1
  /\ arena' = [w \in DOMAIN arena |->
       IF w \notin Slot(windows + 1) THEN arena[w]
       ELSE IF w = HandleAt(windows + 1) THEN "handle"
       ELSE IF w = ProcAt(windows + 1) THEN class.proc ELSE Blank]
  /\ longs' = {l \in longs : LongAt(l[1], l[2]) \notin Slot(windows + 1)}
  /\ UNCHANGED <<atoms, classes, props, objects, cursors, ids, procs>>

\* KiSetWindowLong: whether there is such a window is not tested, and of the index only
\* the lower end is: 0 and more lead down to the head and into the slots before.
NtUserSetWindowLong(slot, index, value) ==
  /\ slot \in 1..MaxWindow /\ index >= -LongCount
  /\ LongAt(slot, index) \in DOMAIN arena
  /\ arena' = [arena EXCEPT ![LongAt(slot, index)] = value]
  /\ longs' = {l \in longs : <<l[1], l[2]>> # <<slot, index>>} \cup {<<slot, index, value>>}
  /\ UNCHANGED <<atoms, classes, props, windows, objects, cursors, ids, procs>>

PropAt(hwnd, key) == {p \in props : p.hwnd = hwnd /\ p.key = key}

NtUserSetProp(hwnd, key, value) ==
  /\ PropAt(hwnd, key) # {} \/ Cardinality(props) < USER_MAX_PROPS
  /\ props' = (props \ PropAt(hwnd, key)) \cup {[hwnd |-> hwnd, key |-> key, value |-> value]}
  /\ UNCHANGED <<atoms, classes, windows, arena, objects, cursors, ids, procs, longs>>

NtUserRemoveProp(hwnd, key) ==
  /\ PropAt(hwnd, key) # {}
  /\ props' = props \ PropAt(hwnd, key)
  /\ UNCHANGED <<atoms, classes, windows, arena, objects, cursors, ids, procs, longs>>

(***************************************************************************)
(* Cursors: one that is not cached takes an object, and a full cache       *)
(* forgets it.  KiUserAllocateObject never gives one back.                 *)
(***************************************************************************)
NtUserFindExistingCursorIcon(key) ==
  /\ ~\E i \in 1..Len(cursors) : cursors[i].key = key
  /\ objects < MaxObjects
  /\ objects' = objects + 1
  /\ cursors' = IF Len(cursors) < USER_CURSOR_CACHE
                THEN Append(cursors, [key |-> key, handle |-> objects]) ELSE cursors
  /\ UNCHANGED <<atoms, classes, props, windows, arena, ids, procs, longs>>

NtUserCreateAcceleratorTable ==
  /\ objects < MaxObjects
  /\ objects' = objects + 1
  /\ UNCHANGED <<atoms, classes, props, windows, arena, cursors, ids, procs, longs>>

Next ==
  \/ \E name \in Names, room \in Rooms : NtUserRegisterWindowMessage(name, room)
  \/ \E name \in Names, proc \in Procs : NtUserRegisterClassExWOW(name, proc)
  \/ \E i \in DOMAIN classes : NtUserUnregisterClass(i)
  \/ \E name \in Names : NtUserCreateWindowEx(KiClassForCreate(name))
  \/ \E atom \in 0..USER_MAX_ATOMS : NtUserCreateWindowEx(ClassOfAtom(atom))
  \/ \E slot \in 1..MaxWindow, index \in Indexes, value \in Values :
       NtUserSetWindowLong(slot, index, value)
  \/ \E hwnd \in 1..MaxWindow, key \in Keys : \/ \E value \in Values : NtUserSetProp(hwnd, key, value)
                                              \/ NtUserRemoveProp(hwnd, key)
  \/ \E key \in Keys : NtUserFindExistingCursorIcon(key)
  \/ NtUserCreateAcceleratorTable

Spec == Init /\ [][Next]_vars

(***************************************************************************)
(* Properties.                                                             *)
(***************************************************************************)
TypeOK ==
  /\ Len(atoms) <= USER_MAX_ATOMS /\ Len(cursors) <= USER_CURSOR_CACHE
  /\ Cardinality(props) <= USER_MAX_PROPS
  /\ \A p, q \in props : p.hwnd = q.hwnd /\ p.key = q.key => p = q
  /\ windows \in 0..MaxWindow /\ objects \in 0..MaxObjects
  /\ \A i \in 1..Len(cursors) : cursors[i].handle < objects

\* Classes and messages draw from one atom space: no two atoms stand for one name,
\* and no two classes share an atom unless there was none left for either
\* (KiUserAddAtom, NtUserRegisterClassExWOW).
AtomsDistinct ==
  /\ \A j, k \in 1..Len(atoms) :
       (\A part \in 1..3 : atoms[j][part] = atoms[k][part]) => j = k
  /\ \A i, j \in UsedClasses : classes[i].atom = classes[j].atom /\ classes[i].atom # 0 => i = j

\* A class is known by the atom of its name, and has none only when the table is full.
ClassInternedOrFull ==
  \A i \in UsedClasses :
    IF classes[i].atom = 0 THEN Len(atoms) = USER_MAX_ATOMS
    ELSE \E name \in KiUserAtomName(classes[i].atom) :
           name[1] = classes[i].name[1] /\ name[2] = classes[i].name[2]

\* "The class name is interned in the station atom table, so GetAtomName/FindAtom
\* answer for it and no registered window message can be handed the same number."
ClassInterned == ClassInternedOrFull /\ \A i \in UsedClasses : classes[i].atom # 0

\* Where user32 reads the long of <<slot, index, value>>, and the words that have been
\* written through an index of 0 or more.
ReadAt(l) == Word(l[1], LongBase - l[2] - 1)
Wild == {ReadAt(l) : l \in {m \in longs : m[2] >= 0}}

\* A long is found where user32 reads it, with the value set last, whichever other
\* windows and longs have been written since, unless it was through an index of 0 or more
\* that leads to its word (KiSetWindowLong, KiPublishWindowState).
LongsKept == \A l \in longs : l[2] >= 0 \/ ReadAt(l) \in Wild \/ arena[ReadAt(l)] = l[3]

\* A window keeps its handle and its procedure, whatever longs with a negative index are
\* set in whichever slots (KiSetWindowLong).
HeadsKept ==
  \A slot \in 1..windows :
    /\ HandleAt(slot) \in Wild \/ arena[HandleAt(slot)] = "handle"
    /\ ProcAt(slot) \in Wild \/ arena[ProcAt(slot)] \notin Values

\* "Per-window longs live behind the window head inside its arena slot.": no long
\* lies over a head, and every window keeps its handle there.
LongsInSlot ==
  \A slot \in 1..windows : arena[HandleAt(slot)] = "handle" /\ arena[ProcAt(slot)] \notin Values

\* A message name of up to 63 characters has one id, whoever asks, whatever room the
\* string has and however it is capitalised (NtUserRegisterWindowMessage).
ShortNameSameId ==
  \A a, b \in ids : a[1][3] = "" /\ (\A part \in 1..3 : a[1][part] = b[1][part]) => a[2] = b[2]

\* "the id must be the same for every caller that asks for the same string"
SameNameSameId == \A a, b \in ids : a[1] = b[1] => a[2] = b[2]

\* "String form: match the registered class by name": a window created by a name that
\* has been registered gets the procedure registered under that name.
ClassByName ==
  \A p \in procs : KiClassForCreate(p[1]).used => KiClassForCreate(p[1]).proc = p[2]
=============================================================================
