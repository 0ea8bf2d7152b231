------------------------------- MODULE Loader --------------------------------
(***************************************************************************)
(* uwt/win/module.cc and winnt.cc: the modules of the program are put in   *)
(* its address space and linked.  Loading a module mounts its image, then  *)
(* loads the modules that it imports, depth first, each with a call of     *)
(* loadmodule, and writes the addresses of their symbols in its import     *)
(* table; the functions that earlier iterations have translated are        *)
(* entered in the CallDB when it returns.                                  *)
(*                                                                         *)
(* Addresses are page numbers.  What the files say (where an image goes,   *)
(* which symbols it exports, what it imports) is chosen when it is read.   *)
(***************************************************************************)
EXTENDS Integers, Sequences, FiniteSets

CONSTANTS
  Lib,         \* the LibModules: DLLs that unwintel translates
  Based,       \* those whose ordinals begin at 1 instead of 0
  Host,        \* DLLs written by the user as host code
  Absent,      \* names that no module has
  Symbols,     \* the functions of a module are 0 .. Symbols - 1
  Last,        \* the last page: Range::top
  Base,        \* bound: where images, and the regions of host modules, start
  Size,        \* bound: the pages of an image, of the stack, of the heap
  MaxImports,  \* bound: the descriptors of all import tables
  MaxEntries   \* bound: the entries of a descriptor

Main == "main"
Image == {Main} \union Lib      \* the PEFModules
Module == Image \union Host
Symbol == 0 .. Symbols - 1
Page == 0 .. Last
Interval == {r \in [first : Page, last : Page] : r.first <= r.last}

ASSUME NamesAssumption ==
  /\ Main \notin Lib \union Host \union Absent
  /\ Based \subseteq Lib /\ Lib \cap Host = {} /\ (Lib \union Host) \cap Absent = {}
ASSUME SpaceAssumption ==
  /\ Symbols \in Nat /\ Last \in Nat /\ Base \subseteq Page /\ Size \subseteq Nat \ {0}
ASSUME BoundsAssumption == MaxImports \in Nat /\ MaxEntries \in Nat

\* A function is at <<base of its module, symbol>>.  null is address 0, and
\* garbage what a read of an export table that is not there would give.
Address == Page \X Symbol
null == <<>>
garbage == <<"garbage">>

\* An entry of an import table: by name, or by ordinal.
Entry == [by : {"name", "ordinal"}, symbol : Symbol]

Root == "root"   \* the directory of the project, where shared/ has all Libs

VARIABLES
  recorded,  \* m_functions of each module
  exports,   \* the names in the export table of each LibModule
  links,     \* <<a, b>>: the user has linked shared/b in the directory of a
  loaded,    \* the modules marked as loaded
  frames,    \* those being loaded, the innermost first
  phase,     \* where init, then hostcodemap, of each module is
  image,     \* m_image of each module; m_first is its base
  modmap,    \* the map of the address space
  written,   \* the module whose sections were last written to a page
  dirs,      \* the modules whose data directories were read (m_export_addr)
  current,   \* the module each one is importing from
  linked,    \* those it has imported from
  iat,       \* the entries written in the import tables
  cwd,       \* the current directory
  saved,     \* m_saveddir of each WorkingDir
  calldb,    \* the module whose function is at each address
  error      \* the exception thrown, or none

file == <<recorded, exports, links>>
space == <<image, modmap, written>>
import == <<dirs, current, linked, iat>>
dir == <<cwd, saved>>
vars == <<file, loaded, frames, phase, space, import, dir, calldb, error>>

none == "none"

TypeOK ==
  /\ recorded \in [Module -> SUBSET Symbol]
  /\ exports \in [Lib -> SUBSET Symbol]
  /\ links \subseteq Lib \X Lib
  /\ loaded \subseteq Module /\ frames \in Seq(loaded)
  /\ phase \in [Module -> {"idle", "init", "mount", "stack", "heap", "dirs",
                           "import", "entries", "map", "mapped"}]
  /\ image \in [Module -> Interval]
  /\ modmap \subseteq [range : Interval, module : Module]
  /\ written \in [Page -> Module \union {none}]
  /\ dirs \subseteq Image
  /\ current \in [Image -> Module \union {none}]
  /\ linked \in [Image -> SUBSET Module]
  /\ iat \subseteq [to : Image, from : Module, entry : Entry, value : Address \union {null}]
  /\ cwd \in {Root} \union Lib /\ saved \in [Lib -> {Root} \union Lib]
  /\ DOMAIN calldb \subseteq Address /\ \A a \in DOMAIN calldb : calldb[a] \in Module
  /\ error \in {none, "NotFound", "chdir", "overlap", "empty", "full", "Conflict"}

Everything == [first |-> 0, last |-> Last]

\* WinNT::load has marked the main module; the functions of all modules were
\* recorded when they were made.  To bound the choices all those of the
\* PEFModules are translated, the worst case for the CallDB.
Init ==
  /\ recorded \in {f \in [Module -> SUBSET Symbol] : \A m \in Image : f[m] = Symbol}
  /\ links \in SUBSET {l \in Lib \X Lib : l[1] # l[2]}
  /\ exports = [m \in Lib |-> {}]
  /\ loaded = {Main} /\ frames = <<Main>>
  /\ phase = [m \in Module |-> IF m = Main THEN "mount" ELSE "idle"]
  /\ image = [m \in Module |-> Everything]
  /\ modmap = {} /\ written = [p \in Page |-> none]
  /\ dirs = {} /\ current = [m \in Image |-> none]
  /\ linked = [m \in Image |-> {}] /\ iat = {}
  /\ cwd = Root /\ saved = [m \in Lib |-> Root]
  /\ calldb = <<>> /\ error = none

-----------------------------------------------------------------------------
Top == Head(frames)
At(p) == frames # <<>> /\ error = none /\ phase[Top] = p
Goto(p) == phase' = [phase EXCEPT ![Top] = p]

\* Nothing but the exception: the frames are unwound by later steps.
Throw(e) ==
  error' = e /\ UNCHANGED <<file, loaded, frames, phase, space, import, dir, calldb>>

-----------------------------------------------------------------------------
(* The address space.                                                      *)

Meets(r, s) == r.first <= s.last /\ s.first <= r.last
IsFree(r) == \A e \in modmap : ~ Meets(r, e.range)

\* Mutant: an image is put over what is there.
AlwaysFree(r) == TRUE

\* MemMgr::record refuses a range that is not free (see MemMgr).
Recordable(r) == IsFree(r)

\* MemMgr::allocate finds the first free range of n pages of a region, from
\* its end if topdown (see FirstFit and FullOnly in MemMgr).
Fits(region, n) ==
  {r \in Interval : /\ region.first <= r.first /\ r.last <= region.last
                    /\ r.last - r.first = n - 1 /\ IsFree(r)}
First(ranges, topdown) ==
  {r \in ranges : \A s \in ranges : IF topdown THEN s.first <= r.first ELSE r.first <= s.first}

Own(r) == modmap' = modmap \union {[range |-> r, module |-> Top]}

Allocate(region, topdown, n, next) ==
  /\ \/ \E r \in First(Fits(region, n), topdown) :
          /\ Own(r) /\ Goto(next)
          /\ image' = IF Top \in Host THEN [image EXCEPT ![Top] = r] ELSE image
          /\ UNCHANGED error
     \/ /\ Fits(region, n) = {}
        /\ error' = "full" /\ UNCHANGED <<image, modmap, phase>>
  /\ UNCHANGED <<file, loaded, frames, written, import, dir, calldb>>

\* PEFModule::mount: the range is recorded first, and sections are written
\* only if it was free.
Mount ==
  /\ At("mount")
  /\ \E b \in Base, n \in Size :
       LET r == [first |-> b, last |-> b + n - 1]
       IN /\ r.last <= Last
          /\ image' = [image EXCEPT ![Top] = r]
          /\ IF Recordable(r)
               THEN /\ Own(r)
                    /\ written' = [p \in Page |-> IF p \in b .. r.last THEN Top ELSE written[p]]
                    /\ Goto(IF Top = Main THEN "stack" ELSE "dirs")
                    /\ UNCHANGED error
               ELSE error' = "overlap" /\ UNCHANGED <<modmap, written, phase>>
  /\ UNCHANGED <<file, loaded, frames, import, dir, calldb>>

\* MainModule::init: the stack goes below the image, in 32-bit arithmetic...
Stack ==
  /\ At("stack")
  /\ \E n \in Size :
       Allocate([first |-> 0, last |-> (image[Main].first - 1) % (Last + 1)], TRUE, n, "heap")

\* ... and the heap after the base, in the lower half of the space.
Heap ==
  /\ At("heap")
  /\ IF image[Main].first > Last \div 2 THEN Throw("empty")
       ELSE \E n \in Size :
              Allocate([first |-> image[Main].first, last |-> Last \div 2], FALSE, n, "dirs")

\* The init of a module of the user places its functions somewhere.
HostInit ==
  /\ At("init") /\ Top \in Host
  /\ \E f \in Base, n \in Size : Allocate([first |-> f, last |-> Last], FALSE, n, "map")

-----------------------------------------------------------------------------
(* The working directory of a LibModule while it is loaded.                *)

Exists(lib) == cwd = Root \/ <<cwd, lib>> \in links

\* LibModule::WorkingDir::WorkingDir: shared/ is sought in the current
\* directory.
ChangeDir ==
  /\ At("init") /\ Top \in Lib
  /\ saved' = [saved EXCEPT ![Top] = cwd]
  /\ IF Exists(Top) THEN cwd' = Top /\ Goto("mount") /\ UNCHANGED error
                    ELSE error' = "chdir" /\ UNCHANGED <<cwd, phase>>
  /\ UNCHANGED <<file, loaded, frames, space, import, calldb>>

\* Mutant: the destructor goes to the directory of the project.
RootDir(m) == IF m \in Lib THEN Root ELSE cwd

\* LibModule::WorkingDir::~WorkingDir, at the end of init of m.
RestoredDir(m) == IF m \in Lib THEN saved[m] ELSE cwd

\* An exception leaves the innermost frame; its WorkingDir is destroyed if it
\* was constructed.
Unwind ==
  /\ error # none /\ frames # <<>>
  /\ cwd' = IF phase[Top] \in {"init", "map"} THEN cwd ELSE RestoredDir(Top)
  /\ frames' = Tail(frames)
  /\ UNCHANGED <<file, loaded, phase, space, import, saved, calldb, error>>

-----------------------------------------------------------------------------
(* Linking.                                                                *)

\* Mutant: the export directory is not read.
OnlyImport == dirs

\* PEFModule::link reads all directories before the imports.
Located == dirs \union {Top}

ReadDirs ==
  /\ At("dirs")
  /\ dirs' = Located
  /\ IF Top \in Lib
       THEN \E names \in SUBSET Symbol : exports' = [exports EXCEPT ![Top] = names]
       ELSE UNCHANGED exports
  /\ Goto("import")
  /\ UNCHANGED <<recorded, links, loaded, frames, space, current, linked, iat, dir, calldb, error>>

\* Mutant: a module is marked as loaded when its init is over.
MarkNothing(m) == loaded

\* WinNT::loadmodule marks a module before its init.
Mark(m) == loaded \union {m}

\* What was, or is being, imported (bounded).
Imported == {l \in Image \X Module : l[2] \in linked[l[1]] \union {current[l[1]]}}

\* WinNT::module compares the normalised name with those of all modules.
Found(n) == n \notin Absent

FirstPhase(m) == IF m = Main THEN "mount" ELSE "init"

\* The next descriptor of the import table: the module, once found by its
\* name, is loaded first unless it is, or is being, loaded.
Import(n) ==
  /\ At("import")
  /\ Cardinality(Imported) < MaxImports
  /\ IF ~ Found(n) THEN Throw("NotFound")
     ELSE /\ n \notin linked[Top]
          /\ current' = [current EXCEPT ![Top] = n]
          /\ IF n \in loaded
               THEN Goto("entries") /\ UNCHANGED <<loaded, frames>>
               ELSE /\ loaded' = Mark(n)
                    /\ frames' = <<n>> \o frames
                    /\ phase' = [phase EXCEPT ![Top] = "entries", ![n] = FirstPhase(n)]
          /\ UNCHANGED <<file, space, dirs, linked, iat, dir, calldb, error>>

ValueAt(m, s) == <<image[m].first, s>>

\* The export table of m can be read: it was located, and is in memory.
Readable(m) == /\ m \in dirs
               /\ \A p \in image[m].first .. image[m].last : written[p] = m

\* LibModule::symboladdr.  The table of names gives the index of an address;
\* an ordinal is taken for such an index, without the ordinal base.
LibSymbol(m, e) ==
  IF ~ Readable(m) THEN garbage
  ELSE IF e.by = "name" THEN (IF e.symbol \in exports[m] THEN ValueAt(m, e.symbol) ELSE null)
  ELSE LET o == e.symbol + (IF m \in Based THEN 1 ELSE 0)
       IN IF o >= Symbols THEN null ELSE ValueAt(m, o)

\* Module::symboladdr looks m_functions up by name, and ignores ordinals; the
\* names there are those of the user's functions, or fx and an address.
ModuleSymbol(m, e) ==
  IF e.by = "name" /\ m \in Host /\ e.symbol \in recorded[m] THEN ValueAt(m, e.symbol) ELSE null

symboladdr(m, e) == IF m \in Lib THEN LibSymbol(m, e) ELSE ModuleSymbol(m, e)

EntriesOf(m, n) == {i \in iat : i.to = m /\ i.from = n}

\* An entry of the current descriptor is replaced by an address.
LinkEntry(e) ==
  /\ At("entries")
  /\ LET n == current[Top]
     IN /\ Cardinality(EntriesOf(Top, n)) < MaxEntries
        /\ \A i \in EntriesOf(Top, n) : i.entry # e
        /\ iat' = iat \union {[to |-> Top, from |-> n, entry |-> e, value |-> symboladdr(n, e)]}
  /\ UNCHANGED <<file, loaded, frames, phase, space, dirs, current, linked, dir, calldb, error>>

\* Mutant: the same descriptor is read again.
SameDescriptor(n) == linked

\* The descriptor n of the module is done.
NextDescriptor(n) == [linked EXCEPT ![Top] = @ \union {n}]

EndEntries ==
  /\ At("entries")
  /\ linked' = NextDescriptor(current[Top])
  /\ current' = [current EXCEPT ![Top] = none]
  /\ Goto("import")
  /\ UNCHANGED <<file, loaded, frames, space, dirs, iat, dir, calldb, error>>

\* The end of the import table is the end of init.
EndLink ==
  /\ At("import")
  /\ cwd' = RestoredDir(Top)
  /\ Goto("map")
  /\ UNCHANGED <<file, loaded, frames, space, import, saved, calldb, error>>

\* CallDB::add throws on an address that has a function.
Conflicts(addresses) == addresses \cap DOMAIN calldb # {}
Added(addresses, m) == [a \in DOMAIN calldb \union addresses |->
                          IF a \in addresses THEN m ELSE calldb[a]]

\* Module::hostcodemap, then the return of loadmodule (or load).
HostCodeMap ==
  /\ At("map")
  /\ LET new == {ValueAt(Top, s) : s \in recorded[Top]}
     IN IF Conflicts(new) THEN Throw("Conflict")
        ELSE /\ calldb' = Added(new, Top)
             /\ Goto("mapped")
             /\ frames' = Tail(frames)
             /\ UNCHANGED <<file, loaded, space, import, dir, error>>

Over == frames = <<>> /\ UNCHANGED vars

Step == \/ Mount \/ Stack \/ Heap \/ HostInit \/ ChangeDir \/ Unwind \/ ReadDirs
        \/ (\E n \in Module \union Absent : Import(n))
        \/ (\E e \in Entry : LinkEntry(e))
        \/ EndEntries \/ EndLink \/ HostCodeMap

Next == Step \/ Over

Spec == Init /\ [][Next]_vars /\ WF_vars(Step)

-----------------------------------------------------------------------------
(* Properties.                                                             *)

\* The function that an entry asks for is in module n (an entry by ordinal
\* asks for one only of a LibModule).
Offers(n, e) == IF n \in Lib THEN e.by = "ordinal" \/ e.symbol \in exports[n]
                             ELSE n \in Host /\ e.by = "name" /\ e.symbol \in recorded[n]

\* The addresses that link writes are right, although the module they come
\* from may be half linked when they are looked up (circular imports): they
\* are those of the function asked for, in the range that the module keeps,
\* where its sections still are and where its translated functions are
\* entered in the end.  Ordinals are right only if their base is 0.
Resolved ==
  \A i \in iat :
    (i.entry.by = "name" \/ i.from \notin Based) =>
      IF Offers(i.from, i.entry)
        THEN /\ i.value = ValueAt(i.from, i.entry.symbol)
             /\ [range |-> image[i.from], module |-> i.from] \in modmap
             /\ i.from \in Lib => Readable(i.from)
             /\ phase[i.from] = "mapped" /\ i.entry.symbol \in recorded[i.from]
                  => i.value \in DOMAIN calldb /\ calldb[i.value] = i.from
        ELSE i.value = null

\* The working directory is that of the innermost LibModule in init, whether
\* loading goes on or an exception is unwound: chdir fails only in a
\* LibModule that another one imports, and the process always ends where it
\* was started.
InDirectory ==
  LET Inside == {k \in DOMAIN frames : frames[k] \in Lib /\ phase[frames[k]] \notin {"init", "map"}}
  IN IF Inside = {} THEN cwd = Root
     ELSE \E k \in Inside : cwd = frames[k] /\ \A l \in Inside : k <= l

\* A module is loaded once, even if it imports itself through others: it never
\* finds its own image in the way, nor one of its functions in the CallDB.
\* When loading returns, all that is imported was loaded, all functions that
\* were translated included.
LoadedOnce ==
  /\ \A k, l \in DOMAIN frames : frames[k] = frames[l] => k = l
  /\ \A d, e \in modmap : d.module = e.module /\ d # e => d.module = Main
  /\ error # "Conflict"
  /\ frames = <<>> /\ error = none =>
       /\ \A m \in loaded : phase[m] = "mapped"
       /\ \A m \in loaded \cap Image : linked[m] \subseteq loaded
       /\ \A m \in loaded : \A s \in recorded[m] :
            ValueAt(m, s) \in DOMAIN calldb /\ calldb[ValueAt(m, s)] = m

\* Loading ends, whatever cycles the imports have.
Ends == <>(frames = <<>>)
==============================================================================
