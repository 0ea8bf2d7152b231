--------------------------- MODULE IterationProofs ---------------------------
(***************************************************************************)
(* Proofs about Iteration, for any functions, calls and number of faults:  *)
(* types; that, as long as nothing goes wrong, make never fails and each   *)
(* program that starts knows all that was translated before; and that,     *)
(* whatever goes wrong, a program that could start can build the next one. *)
(***************************************************************************)
EXTENDS Iteration, TLAPS

\* What the types rest on.
Structure ==
  /\ calls \in UNION {[1 .. n -> Function] : n \in 0 .. MaxCalls}
  /\ \A m \in Module : Src(m, Table) \in DOMAIN text
  /\ Program \in DOMAIN text => App("lib") \in DOMAIN text
  /\ phase = "exec" => Program \in DOMAIN text
  /\ phase \in {"source", "text", "list", "lines", "make"} => want \in Function
  /\ phase \in {"text", "list", "lines"} => Source \in DOMAIN text
  /\ phase = "run" => todo = <<"main">> /\ new = {}
  /\ phase = "make" => /\ todo = <<"main">> \/ (todo = <<"lib", "main">> /\ ModuleOf(want) = "lib")
                       /\ ModuleOf(want) = "lib" \/ todo = <<"main">>
                       /\ new = {Source, List}
  /\ Making => \A u \in made : Obj(Head(todo), u) \in DOMAIN text

-----------------------------------------------------------------------------
(* Files.                                                                  *)

LEMMA Names ==
  /\ \A m, n, u, v : Src(m, u) = Src(n, v) => m = n /\ u = v
  /\ \A m, n, u, v : Obj(m, u) = Obj(n, v) => m = n /\ u = v
  /\ \A m, n, u, v : Member(m, u) = Member(n, v) => m = n /\ u = v
  /\ \A m, n, u, v : /\ Src(m, u) # Obj(n, v) /\ Src(m, u) # Member(n, v)
                     /\ Obj(m, u) # Member(n, v)
  /\ \A m, u : /\ Src(m, u)[1] = "src" /\ Obj(m, u)[1] = "obj" /\ Member(m, u)[1] = "member"
               /\ App(m)[1] = "app" /\ Archive(m)[1] = "archive"
               /\ App(m)[2] = m
BY DEF Src, Obj, Member, App, Archive

LEMMA NamesOfPrograms ==
  /\ \A m, n : App(m) = App(n) => m = n
  /\ \A m, n, u : App(m) # Src(n, u) /\ App(m) # Obj(n, u) /\ App(m) # Member(n, u)
                  /\ App(m) # Archive(n)
<1>1. \A m, n : App(m) = App(n) => m = n
  BY Names
<1>2. \A m, n, u : App(m) # Src(n, u) /\ App(m) # Obj(n, u) /\ App(m) # Member(n, u)
                   /\ App(m) # Archive(n)
  BY Names
<1> QED
  BY <1>1, <1>2

\* Every unit of a module has its files.
LEMMA FilesOfUnits ==
  /\ Module = {"main", "lib"}
  /\ \A m \in Module : \A u \in Unit(m) : /\ u \in Function \union {Table} /\ u # none
                                          /\ Src(m, u) \in File /\ Obj(m, u) \in File
                                          /\ Member(m, u) \in File
  /\ \A m \in Module : Table \in Unit(m) /\ App(m) \in File /\ Archive(m) \in File
  /\ \A f \in Function : ModuleOf(f) \in Module /\ f \in Unit(ModuleOf(f))
  /\ Program = App("main")
<1>1. Table # none
  BY DEF Table, none
<1> QED
  BY <1>1, NamesAssumption
  DEF Module, Unit, File, Src, Obj, Member, App, Archive, ModuleOf, Program

Texts == /\ DOMAIN text \subseteq File
         /\ \A x \in DOMAIN text :
              text[x] \subseteq Function \union (IF x[1] = "src" THEN {Error} ELSE {})
Times == /\ now \subseteq File
         /\ \A e \in newer : e[1] \in File /\ e[2] \in Targets(e[1])

LEMMA PutOne ==
  ASSUME NEW x, NEW s, Put(x, s)
  PROVE  /\ DOMAIN text' = DOMAIN text \union {x}
         /\ text'[x] = s
         /\ \A y \in DOMAIN text : y # x => text'[y] = text[y]
BY DEF Put

LEMMA PutTexts ==
  ASSUME Texts, NEW x \in File, NEW s, Put(x, s),
         s \subseteq Function \union (IF x[1] = "src" THEN {Error} ELSE {})
  PROVE  Texts'
<1>1. /\ DOMAIN text' = DOMAIN text \union {x} /\ text'[x] = s
      /\ \A y \in DOMAIN text : y # x => text'[y] = text[y]
  BY PutOne
<1>2. ASSUME NEW y \in DOMAIN text'
      PROVE  text'[y] \subseteq Function \union (IF y[1] = "src" THEN {Error} ELSE {})
  <2>1. CASE y = x
    BY <1>1, <2>1
  <2>2. CASE y # x
    BY <1>1, <2>2 DEF Texts
  <2> QED
    BY <2>1, <2>2
<1> QED
  BY <1>1, <1>2 DEF Texts

LEMMA TouchTimes ==
  ASSUME Times, NEW x \in File, Touch(x)
  PROVE  Times'
<1>1. now' \subseteq File
  BY DEF Touch, Times
<1>2. ASSUME NEW e \in newer' PROVE e[1] \in File /\ e[2] \in Targets(e[1])
  BY DEF Touch, Times
<1> QED
  BY <1>1, <1>2 DEF Times

LEMMA WriteFile ==
  ASSUME Texts, Times, NEW x \in File, NEW s, Write(x, s),
         s \subseteq Function \union (IF x[1] = "src" THEN {Error} ELSE {})
  PROVE  /\ Texts' /\ Times'
         /\ DOMAIN text' = DOMAIN text \union {x} /\ text'[x] = s
         /\ \A y \in DOMAIN text : y # x => text'[y] = text[y]
BY PutOne, PutTexts, TouchTimes DEF Write

-----------------------------------------------------------------------------
(* Types.                                                                  *)

Processes == /\ known \in [Module -> SUBSET Function]
             /\ want \in Function \union {none}
             /\ waited \in BOOLEAN
Makes == /\ new \subseteq DOMAIN text
         /\ Making => todo # <<>> /\ unit \in Unit(Head(todo)) \union {none}
         /\ unit # none => unit \in made

Types == /\ phase \in Phases /\ Texts /\ Times /\ Processes /\ Makes /\ faults \in 0 .. MaxFaults
         /\ Structure

LEMMA InitTypes == Init => Types
<1> SUFFICES ASSUME Init PROVE Types
  OBVIOUS
<1> USE DEF Init
<1>1. Texts
  <2>1. \A m \in Module : Src(m, Table) \in File /\ Obj(m, Table) \in File /\ Member(m, Table) \in File
    BY FilesOfUnits
  <2>2. \A x \in DOMAIN text : text[x] = {}
    OBVIOUS
  <2> QED
    BY <2>1, <2>2, FilesOfUnits DEF Texts
<1>2. Times /\ Makes /\ phase \in Phases
  <2>1. phase = "idle" /\ phase \in Phases /\ ~ Making
    BY DEF Phases, Making
  <2>2. Times
    BY <2>1 DEF Times
  <2>3. Makes
    BY <2>1 DEF Makes
  <2> QED
    BY <2>1, <2>2, <2>3
<1>3. faults \in 0 .. MaxFaults
  <2>1. faults = 0
    OBVIOUS
  <2> QED
    BY <2>1, BoundsAssumption
<1>4. Processes
  <2>1. known = [m \in Module |-> {}] /\ want = none /\ waited = FALSE
    OBVIOUS
  <2> QED
    BY <2>1 DEF Processes
<1>5. Structure
  <2>1. Program \notin DOMAIN text
    BY NamesOfPrograms DEF Program
  <2> QED
    BY <2>1, FilesOfUnits DEF Structure, Making
<1> QED
  BY <1>1, <1>2, <1>3, <1>4, <1>5 DEF Types

\* The parts of the types that a step keeps.
LEMMA SameTexts == ASSUME Texts, UNCHANGED text PROVE Texts'
BY DEF Texts

LEMMA SameTimes == ASSUME Times, UNCHANGED newer, now' \in {now, {}} PROVE Times'
BY DEF Times

LEMMA SameProcesses == ASSUME Processes, UNCHANGED proc PROVE Processes'
BY DEF Processes, proc

LEMMA SameMakes == ASSUME Makes, ~ Making', DOMAIN text \subseteq DOMAIN text', UNCHANGED make
                   PROVE  Makes'
BY DEF Makes, make

\* A program that does not make writes its files, and starts.
LEMMA SameStructure ==
  ASSUME Structure, ~ Making', UNCHANGED calls, DOMAIN text \subseteq DOMAIN text',
         DOMAIN text' = DOMAIN text \/ Program \notin DOMAIN text' \/ Program \in DOMAIN text,
         phase' = "exec" => Program \in DOMAIN text,
         phase' \in {"source", "text", "list", "lines"} => want' \in Function,
         phase' \in {"text", "list", "lines"} => Source' \in DOMAIN text'
  PROVE  Structure'
<1>1. phase' \notin {"run", "make"}
  BY DEF Making
<1> QED
  BY <1>1 DEF Structure, Making

\* The steps that write no file.
LEMMA QuietTypes ==
  ASSUME Types, UNCHANGED text,
         UserRun \/ Tick \/ LibraryMade \/ MakeFails \/ Exec \/ Wait \/ Execute \/ Kill
  PROVE  Types'
<1>1. /\ Texts /\ Times /\ Processes /\ Makes /\ faults \in 0 .. MaxFaults
      /\ phase \in Phases /\ Structure
  BY DEF Types
<1>2. Texts'
  BY <1>1, SameTexts
<1>3. CASE UserRun
  <2>1. /\ phase' = "run" /\ todo' = <<"main">> /\ new' = {} /\ made' = {} /\ unit' = none
        /\ UNCHANGED <<calls, stepOnce>> /\ UNCHANGED disk /\ UNCHANGED proc /\ UNCHANGED faults
    BY <1>3 DEF UserRun, StartMake
  <2>2. phase' \in Phases /\ Times' /\ Processes'
    BY <1>1, <2>1, SameTimes, SameProcesses DEF Phases, disk
  <2>3. Makes'
    BY <2>1 DEF Makes
  <2>4. Structure'
    BY <1>1, <2>1 DEF Structure, disk, proc
  <2> QED
    BY <1>1, <1>2, <2>1, <2>2, <2>3, <2>4 DEF Types
<1>4. CASE Tick
  <2>1. /\ now' = {} /\ waited' = TRUE /\ UNCHANGED <<calls, stepOnce, phase, text, newer>>
        /\ UNCHANGED <<known, want>> /\ UNCHANGED make /\ UNCHANGED faults
    BY <1>4 DEF Tick
  <2>2. phase' \in Phases /\ Times' /\ Processes'
    BY <1>1, <2>1, SameTimes DEF Processes
  <2>3. Makes'
    BY <1>1, <2>1 DEF Makes, make, Making
  <2>4. Structure'
    BY <1>1, <2>1 DEF make, Making, Structure, Source, List
  <2> QED
    BY <1>1, <1>2, <2>1, <2>2, <2>3, <2>4 DEF Types
<1>5. CASE LibraryMade
  <2>1. /\ Making /\ unit = none /\ Head(todo) = "lib"
        /\ new' = new /\ made' = {} /\ unit' = none
        /\ UNCHANGED <<calls, stepOnce, phase>> /\ UNCHANGED disk /\ UNCHANGED proc /\ UNCHANGED faults
    BY <1>5 DEF LibraryMade, StartMake, UpToDate
  <2>2. phase = "make" /\ todo = <<"lib", "main">>
    BY <1>1, <2>1 DEF Structure, Making
  <2>3. todo' = <<"main">>
    BY <1>5, <2>2 DEF LibraryMade, StartMake
  <2>4. phase' \in Phases /\ Times' /\ Processes'
    BY <1>1, <2>1, SameTimes, SameProcesses DEF disk
  <2>5. Makes'
    <3>1. new' \subseteq DOMAIN text'
      BY <1>1, <2>1 DEF Makes
    <3>2. todo' # <<>>
      BY <2>3
    <3> QED
      BY <2>1, <3>1, <3>2 DEF Makes
  <2>6. Structure'
    BY <1>1, <2>1, <2>2, <2>3 DEF Structure, disk, proc, Source, List
  <2> QED
    BY <1>1, <1>2, <2>1, <2>4, <2>5, <2>6 DEF Types
<1>6. CASE MakeFails \/ Wait
  <2>1. /\ phase' \in {"idle", "execute"} /\ UNCHANGED calls
        /\ UNCHANGED disk /\ UNCHANGED proc /\ UNCHANGED make /\ UNCHANGED faults
    BY <1>6 DEF MakeFails, Wait
  <2>2. phase' \in Phases /\ ~ Making'
    BY <2>1 DEF Phases, Making
  <2>3. Times' /\ Processes' /\ Makes'
    BY <1>1, <2>1, <2>2, SameTimes, SameProcesses, SameMakes DEF disk
  <2>4. Structure'
    BY <1>1, <2>1, <2>2, SameStructure DEF disk
  <2> QED
    BY <1>1, <1>2, <2>1, <2>2, <2>3, <2>4 DEF Types
<1>7. CASE Exec
  <2>1. /\ phase = "exec" /\ phase' = "wait" /\ waited' = FALSE
        /\ known' = [m \in Module |-> text[App(m)]]
        /\ UNCHANGED calls /\ UNCHANGED disk /\ UNCHANGED want /\ UNCHANGED make /\ UNCHANGED faults
    BY <1>7 DEF Exec
  <2>2. phase' \in Phases /\ ~ Making'
    BY <2>1 DEF Phases, Making
  <2>3. \A m \in Module : App(m) \in DOMAIN text
    BY <1>1, <2>1, FilesOfUnits DEF Structure
  <2>4. \A m \in Module : text[App(m)] \subseteq Function
    BY <1>1, <2>3, Names DEF Texts
  <2>5. Processes'
    BY <1>1, <2>1, <2>4 DEF Processes
  <2>6. Times' /\ Makes'
    BY <1>1, <2>1, <2>2, SameTimes, SameMakes DEF disk
  <2>7. Structure'
    BY <1>1, <2>1, <2>2, SameStructure DEF disk
  <2> QED
    BY <1>1, <1>2, <2>1, <2>2, <2>5, <2>6, <2>7 DEF Types
<1>8. CASE Execute
  <2>1. /\ phase' \in {"exited", "source"}
        /\ UNCHANGED calls /\ UNCHANGED disk /\ UNCHANGED <<known, waited>>
        /\ UNCHANGED make /\ UNCHANGED faults
        /\ phase' = "exited" => want' = want
        /\ phase' = "source" => want' \in Function
    <3>1. \A i \in DOMAIN calls : calls[i] \in Function
      BY <1>1 DEF Structure
    <3> QED
      BY <1>8, <3>1 DEF Execute, Unknown
  <2>2. phase' \in Phases /\ ~ Making'
    BY <2>1 DEF Phases, Making
  <2>3. Times' /\ Makes'
    BY <1>1, <2>1, <2>2, SameTimes, SameMakes DEF disk
  <2>4. Processes'
    BY <1>1, <2>1 DEF Processes
  <2>5. Structure'
    BY <1>1, <2>1, <2>2, SameStructure DEF disk
  <2> QED
    BY <1>1, <1>2, <2>1, <2>2, <2>3, <2>4, <2>5 DEF Types
<1>9. CASE Kill
  <2>1. /\ phase' = "idle" /\ faults < MaxFaults /\ faults' = faults + 1
        /\ UNCHANGED calls /\ UNCHANGED disk /\ UNCHANGED proc /\ UNCHANGED make
    BY <1>9 DEF Kill
  <2>2. phase' \in Phases /\ ~ Making'
    BY <2>1 DEF Phases, Making
  <2>3. faults' \in 0 .. MaxFaults
    BY <1>1, <2>1, BoundsAssumption
  <2>4. Times' /\ Processes' /\ Makes'
    BY <1>1, <2>1, <2>2, SameTimes, SameProcesses, SameMakes DEF disk
  <2>5. Structure'
    BY <1>1, <2>1, <2>2, SameStructure DEF disk
  <2> QED
    BY <1>1, <1>2, <2>1, <2>2, <2>3, <2>4, <2>5 DEF Types
<1> QED
  BY <1>3, <1>4, <1>5, <1>6, <1>7, <1>8, <1>9

\* What a program translates, and the files that it writes.
LEMMA Writing ==
  ASSUME Types, phase \in {"source", "text", "list", "lines"}
  PROVE  /\ want \in Function /\ ModuleOf(want) \in Module
         /\ Source \in File /\ List \in File /\ Source[1] = "src" /\ List[1] = "src"
         /\ List \in DOMAIN text /\ known[ModuleOf(want)] \subseteq Function
BY FilesOfUnits, Names DEF Types, Processes, Structure, Source, List

LEMMA MakingModule ==
  ASSUME Types, Making
  PROVE  /\ Head(todo) \in Module /\ phase \in {"run", "make"}
         /\ unit \in Unit(Head(todo)) \union {none}
         /\ todo \in {<<"main">>, <<"lib", "main">>}
BY DEF Types, Structure, Making, Module, Makes

LEMMA CompileTypes ==
  ASSUME Types, Compile
  PROVE  /\ Types'
         /\ \E u \in Unit(Head(todo)) :
              LET m == Head(todo)
              IN  /\ Outdated(m, u) /\ Src(m, u) \in DOMAIN text
                  /\ DOMAIN text' = DOMAIN text \union {Obj(m, u)}
                  /\ text'[Obj(m, u)] = text[Src(m, u)]
                  /\ \A y \in DOMAIN text : y # Obj(m, u) => text'[y] = text[y]
                  /\ Touch(Obj(m, u))
                  /\ made' = made \union {u} /\ unit' = u
<1>1. /\ Making /\ unit = none
      /\ UNCHANGED <<calls, stepOnce, phase>> /\ UNCHANGED proc /\ UNCHANGED <<todo, new, faults>>
  BY DEF Compile
<1> DEFINE m == Head(todo)
<1>2. PICK u \in Unit(m) : /\ Outdated(m, u) /\ Compiles(text[Src(m, u)])
                           /\ Write(Obj(m, u), text[Src(m, u)])
                           /\ made' = made \union {u} /\ unit' = u
  BY DEF Compile
<1>3. m \in Module /\ Obj(m, u) \in File /\ Src(m, u) \in File
  BY <1>1, MakingModule, FilesOfUnits
<1>4. Src(m, u) \in DOMAIN text
  BY <1>2 DEF Outdated
<1>5. text[Src(m, u)] \subseteq Function
  BY <1>2, <1>4, Names DEF Types, Texts, Compiles
<1>6. /\ Texts' /\ Times' /\ DOMAIN text' = DOMAIN text \union {Obj(m, u)}
      /\ text'[Obj(m, u)] = text[Src(m, u)]
      /\ \A y \in DOMAIN text : y # Obj(m, u) => text'[y] = text[y]
  BY <1>2, <1>3, <1>5, WriteFile DEF Types
<1>7. phase' \in Phases /\ Processes' /\ faults' \in 0 .. MaxFaults
  BY <1>1, SameProcesses DEF Types
<1>8. Makes'
  BY <1>1, <1>2, <1>6 DEF Types, Makes, Making
<1>9. Structure'
  <2>1. Program # Obj(m, u)
    BY NamesOfPrograms DEF Program
  <2>2. Structure
    BY DEF Types
  <2>3. \A v \in made' : Obj(m, v) \in DOMAIN text'
    BY <1>1, <1>2, <1>6, <2>2 DEF Structure
  <2> QED
    BY <1>1, <1>6, <2>1, <2>2, <2>3 DEF Structure, Making, proc, Source, List
<1> QED
  BY <1>2, <1>4, <1>6, <1>7, <1>8, <1>9 DEF Types, Write

LEMMA ArchivedTypes ==
  ASSUME Types, Archived
  PROVE  /\ Types' /\ Making /\ unit \in Unit(Head(todo)) /\ Obj(Head(todo), unit) \in DOMAIN text
         /\ LET x == Member(Head(todo), unit)
            IN  /\ DOMAIN text' = DOMAIN text \union {x}
                /\ text'[x] = text[Obj(Head(todo), unit)]
                /\ \A y \in DOMAIN text : y # x => text'[y] = text[y]
<1> DEFINE m == Head(todo)
           x == Member(m, unit)
<1>1. /\ Making /\ unit # none /\ unit' = none /\ Put(x, text[Obj(m, unit)]) /\ Touch(Archive(m))
      /\ UNCHANGED <<calls, stepOnce, phase>> /\ UNCHANGED proc /\ UNCHANGED <<todo, new, made, faults>>
  BY DEF Archived
<1>2. /\ m \in Module /\ unit \in Unit(m) /\ unit \in made
  BY <1>1, MakingModule DEF Types, Makes
<1>3. x \in File /\ Archive(m) \in File
  BY <1>2, FilesOfUnits
<1>4. Obj(m, unit) \in DOMAIN text
  BY <1>1, <1>2 DEF Types, Structure
<1>5. text[Obj(m, unit)] \subseteq Function
  BY <1>4, Names DEF Types, Texts
<1>6. /\ DOMAIN text' = DOMAIN text \union {x} /\ text'[x] = text[Obj(m, unit)]
      /\ \A y \in DOMAIN text : y # x => text'[y] = text[y]
  BY <1>1, PutOne
<1>7. Texts' /\ Times'
  BY <1>1, <1>3, <1>5, PutTexts, TouchTimes DEF Types
<1>8. phase' \in Phases /\ Processes' /\ faults' \in 0 .. MaxFaults
  BY <1>1, SameProcesses DEF Types
<1>9. Makes'
  BY <1>1, <1>6 DEF Types, Makes, Making
<1>10. Structure'
  <2>1. Program # x
    BY NamesOfPrograms DEF Program
  <2>2. Structure
    BY DEF Types
  <2> QED
    BY <1>1, <1>6, <2>1, <2>2 DEF Structure, Making, proc, Source, List
<1> QED
  BY <1>1, <1>2, <1>4, <1>6, <1>7, <1>8, <1>9, <1>10 DEF Types

LEMMA ProgramMadeTypes ==
  ASSUME Types, ProgramMade
  PROVE  /\ Types'
         /\ LinkNeeded => \A m \in Module : /\ App(m) \in DOMAIN text'
                                            /\ text'[App(m)] = text[Member(m, Table)]
         /\ \A m \in Module : \A u : \A x \in {Src(m, u), Obj(m, u), Member(m, u)} :
              /\ x \in DOMAIN text' <=> x \in DOMAIN text
              /\ x \in DOMAIN text => text'[x] = text[x]
<1>1. /\ UpToDate /\ UNCHANGED <<calls, stepOnce>> /\ UNCHANGED proc /\ UNCHANGED make
      /\ UNCHANGED faults /\ phase' \in {"idle", "exec"}
  BY DEF ProgramMade
<1>2. phase' \in Phases /\ ~ Making' /\ Processes' /\ faults' \in 0 .. MaxFaults
  BY <1>1, SameProcesses DEF Types, Phases, Making
<1>3. CASE ~ LinkNeeded
  <2>1. UNCHANGED disk /\ Program \in DOMAIN text
    BY <1>3 DEF ProgramMade, LinkNeeded
  <2>2. Texts' /\ Times' /\ Makes'
    BY <1>1, <1>2, <2>1, SameTexts, SameTimes, SameMakes DEF Types, disk
  <2>3. Structure'
    BY <1>1, <1>2, <2>1, SameStructure DEF Types, disk
  <2> QED
    BY <1>2, <1>3, <2>1, <2>2, <2>3 DEF Types, disk
<1>4. CASE LinkNeeded
  <2>1. Resolved /\ Touch(Program)
    BY <1>4 DEF ProgramMade
  <2>2. text' = [y \in DOMAIN text \union {App(m) : m \in Module} |->
                   IF y[1] = "app" THEN text[Member(y[2], Table)] ELSE text[y]]
    BY <1>4 DEF ProgramMade
  <2>3. /\ DOMAIN text' = DOMAIN text \union {App(m) : m \in Module}
        /\ \A m \in Module : text'[App(m)] = text[Member(m, Table)]
        /\ \A y \in DOMAIN text : y[1] # "app" => text'[y] = text[y]
    BY <2>2, Names
  <2>4. \A m \in Module : /\ App(m) \in DOMAIN text' /\ App(m) \in File
                          /\ Member(m, Table) \in DOMAIN text
                          /\ text[Member(m, Table)] \subseteq Function
    <3>1. \A m \in Module : Member(m, Table) \in DOMAIN text /\ Member(m, Table)[1] # "src"
      BY <2>1, Names DEF Resolved
    <3> QED
      BY <2>3, <3>1, FilesOfUnits DEF Types, Texts
  <2>5. Texts'
    <3>1. DOMAIN text' \subseteq File
      BY <2>3, <2>4 DEF Types, Texts
    <3>2. ASSUME NEW y \in DOMAIN text'
          PROVE  text'[y] \subseteq Function \union (IF y[1] = "src" THEN {Error} ELSE {})
      <4>1. CASE \E m \in Module : y = App(m)
        BY <2>3, <2>4, <4>1
      <4>2. CASE y[1] # "app"
        <5>1. y \in DOMAIN text /\ text'[y] = text[y]
          BY <2>3, <4>2, Names
        <5> QED
          BY <5>1 DEF Types, Texts
      <4>3. CASE y[1] = "app" /\ y \in DOMAIN text
        <5>1. y \in File
          BY <4>3 DEF Types, Texts
        <5>2. \E m \in Module : y = App(m)
          BY <4>3, <5>1 DEF File, App
        <5> QED
          BY <4>1, <5>2
      <4> QED
        BY <2>3, <4>1, <4>2, <4>3
    <3> QED
      BY <3>1, <3>2 DEF Texts
  <2>6. Times' /\ Makes'
    BY <1>1, <1>2, <2>1, <2>3, TouchTimes, SameMakes, FilesOfUnits DEF Types
  <2>7. Structure'
    <3>1. \A m \in Module : Src(m, Table) \in DOMAIN text'
      BY <2>3 DEF Types, Structure
    <3>2. phase' \notin {"source", "text", "list", "lines", "run", "make"}
      BY <1>1
    <3>3. App("lib") \in DOMAIN text' /\ Program \in DOMAIN text'
      BY <2>4, FilesOfUnits
    <3> QED
      BY <1>1, <1>2, <3>1, <3>2, <3>3 DEF Types, Structure, Making
  <2>8. \A m \in Module : \A u : \A x \in {Src(m, u), Obj(m, u), Member(m, u)} :
          /\ x \in DOMAIN text' <=> x \in DOMAIN text
          /\ x \in DOMAIN text => text'[x] = text[x]
    BY <2>3, Names, NamesOfPrograms
  <2> QED
    BY <1>2, <2>3, <2>4, <2>5, <2>6, <2>7, <2>8 DEF Types
<1> QED
  BY <1>3, <1>4

\* A source or a list is written.
LEMMA Written ==
  ASSUME Types, phase \in {"source", "text", "list", "lines"},
         NEW x \in {Source, List}, NEW s \in SUBSET (Function \union {Error}), Write(x, s)
  PROVE  /\ Texts' /\ Times' /\ Program # x
         /\ DOMAIN text' = DOMAIN text \union {x} /\ text'[x] = s
         /\ \A y \in DOMAIN text : y # x => text'[y] = text[y]
<1>1. x \in File /\ x[1] = "src"
  BY Writing
<1>2. Program # x
  BY NamesOfPrograms DEF Source, List, Program
<1> QED
  BY <1>1, <1>2, WriteFile DEF Types

LEMMA TransmulateTypes ==
  ASSUME Types, Transmulate \/ TranslateThrows
  PROVE  Types'
<1>1. phase \in {"source", "text", "list", "lines"}
  BY DEF Transmulate, OpenSource, FlushSource, CloseSource, OpenList, FlushList, CloseList,
         TranslateThrows
<1>2. /\ want \in Function /\ List \in DOMAIN text /\ known[ModuleOf(want)] \subseteq Function
      /\ ModuleOf(want) \in Module
  BY <1>1, Writing
<1>3. CASE CloseList
  <2>1. /\ phase' = "make" /\ Write(List, known[ModuleOf(want)])
        /\ todo' = ToMake(ModuleOf(want)) /\ new' = {Source, List} /\ made' = {} /\ unit' = none
        /\ UNCHANGED calls /\ UNCHANGED proc /\ UNCHANGED faults /\ phase = "lines"
    BY <1>3 DEF CloseList, StartMake
  <2>2. /\ Texts' /\ Times' /\ Program # List
        /\ DOMAIN text' = DOMAIN text \union {List}
    BY <1>1, <1>2, <2>1, Written
  <2>3. phase' \in Phases /\ Processes' /\ faults' \in 0 .. MaxFaults
    BY <2>1, SameProcesses DEF Types, Phases
  <2>4. Source \in DOMAIN text
    BY <2>1 DEF Types, Structure
  <2>5. /\ todo' \in {<<"main">>, <<"lib", "main">>}
        /\ ModuleOf(want) = "lib" \/ todo' = <<"main">>
        /\ ModuleOf(want) = "lib" => todo' = <<"lib", "main">>
    BY <1>2, <2>1 DEF ToMake, Module
  <2>6. todo' # <<>>
    BY <2>5
  <2>7. Makes'
    BY <1>2, <2>1, <2>2, <2>4, <2>6 DEF Makes
  <2>8. Structure'
    <3>1. ModuleOf(want)' = ModuleOf(want) /\ List' = List /\ Source' = Source
      BY <2>1 DEF proc, ModuleOf, Source, List
    <3>2. \A m \in Module : Src(m, Table) \in DOMAIN text'
      BY <2>2 DEF Types, Structure
    <3>3. Program \in DOMAIN text' => App("lib") \in DOMAIN text'
      BY <2>2 DEF Types, Structure
    <3>4. calls' \in UNION {[1 .. n -> Function] : n \in 0 .. MaxCalls}
      BY <2>1 DEF Types, Structure
    <3>5. want' = want
      BY <2>1 DEF proc
    <3> QED
      BY <1>2, <2>1, <2>5, <3>1, <3>2, <3>3, <3>4, <3>5 DEF Structure
  <2> QED
    BY <2>2, <2>3, <2>7, <2>8 DEF Types
<1>4. CASE ~ CloseList
  <2>1. /\ \E x \in {Source, List} : \E s \in SUBSET (Function \union {Error}) : Write(x, s)
        /\ phase' \in Phases /\ ~ Making' /\ phase' # "exec"
        /\ UNCHANGED calls /\ UNCHANGED want /\ UNCHANGED make
    <3>1. CASE OpenSource
      BY <3>1 DEF OpenSource, proc, Phases, Making
    <3>2. CASE FlushSource
      BY <3>2 DEF FlushSource, proc, Phases, Making
    <3>3. CASE CloseSource
      BY <1>2, <3>3 DEF CloseSource, Translation, Phases, Making
    <3>4. CASE OpenList
      BY <3>4 DEF OpenList, proc, Phases, Making
    <3>5. CASE FlushList
      <4>1. PICK part \in SUBSET (known[ModuleOf(want)] \union {Error}) : Write(List, part)
        BY <3>5 DEF FlushList
      <4>2. part \in SUBSET (Function \union {Error})
        BY <1>2
      <4> QED
        BY <3>5, <4>1, <4>2 DEF FlushList, proc, Phases, Making
    <3>6. CASE TranslateThrows
      BY <3>6 DEF TranslateThrows, proc, Phases, Making
    <3> QED
      BY <1>4, <3>1, <3>2, <3>3, <3>4, <3>5, <3>6 DEF Transmulate
  <2>2. PICK x \in {Source, List}, s \in SUBSET (Function \union {Error}) : Write(x, s)
    BY <2>1
  <2>3. /\ Texts' /\ Times' /\ Program # x /\ DOMAIN text' = DOMAIN text \union {x}
    BY <1>1, <2>2, Written
  <2>4. Processes' /\ faults' \in 0 .. MaxFaults
    <3>1. CASE CloseSource
      BY <1>2, <3>1 DEF CloseSource, Types, Processes
    <3>2. CASE TranslateThrows
      BY <3>2, BoundsAssumption DEF TranslateThrows, Types, Processes, proc
    <3>3. CASE ~ CloseSource /\ ~ TranslateThrows
      <4>1. UNCHANGED proc /\ UNCHANGED faults
        BY <1>4, <3>3 DEF Transmulate, OpenSource, FlushSource, OpenList, FlushList
      <4> QED
        BY <4>1, SameProcesses DEF Types
    <3> QED
      BY <3>1, <3>2, <3>3
  <2>5. Makes'
    BY <2>1, <2>3, SameMakes DEF Types
  <2>6. phase' \in {"text", "list", "lines"} => Source' \in DOMAIN text'
    <3>1. Source' = Source
      BY <2>1 DEF Source, ModuleOf
    <3>2. CASE OpenSource
      BY <1>1, <3>1, <3>2, Written DEF OpenSource
    <3>3. CASE ~ OpenSource
      <4>1. phase \in {"text", "list", "lines"}
        BY <1>4, <3>3 DEF Transmulate, FlushSource, CloseSource, OpenList, FlushList, TranslateThrows
      <4> QED
        BY <2>3, <3>1, <4>1 DEF Types, Structure
    <3> QED
      BY <3>2, <3>3
  <2>7. Structure'
    BY <1>2, <2>1, <2>3, <2>6, SameStructure DEF Types
  <2> QED
    BY <2>1, <2>3, <2>4, <2>5, <2>7 DEF Types
<1> QED
  BY <1>3, <1>4

LEMMA StepTypes == Types /\ [Next]_vars => Types'
<1> SUFFICES ASSUME Types, [Next]_vars PROVE Types'
  OBVIOUS
<1>1. ASSUME UserRun \/ Tick \/ LibraryMade \/ MakeFails \/ Exec \/ Wait \/ Execute \/ Kill
      PROVE  Types'
  <2>1. UNCHANGED text
    BY <1>1 DEF UserRun, Tick, LibraryMade, MakeFails, Exec, Wait, Execute, Kill, disk
  <2> QED
    BY <1>1, <2>1, QuietTypes
<1>2. CASE UNCHANGED vars
  BY <1>2 DEF vars, disk, proc, make, Types, Texts, Times, Processes, Makes, Making, Structure,
              Source, List
<1> QED
  BY <1>1, <1>2, CompileTypes, ArchivedTypes, ProgramMadeTypes, TransmulateTypes
  DEF Next, Progress, Make

\* The variables keep their types, whatever goes wrong: an object always
\* compiles, and make works on files that are there.
THEOREM TypeCorrect == Spec => []TypeOK
<1>1. Types => TypeOK
  BY DEF Types, Texts, Times, Processes, Makes, TypeOK
<1> QED
  BY <1>1, InitTypes, StepTypes, PTL DEF Spec

-----------------------------------------------------------------------------
(* Runs where nothing goes wrong.                                          *)

\* The unit has been written, or is being, and was not made since.
Stale(m, u) ==
  /\ m = ModuleOf(want) /\ u \in {want, Table}
  /\ \/ phase \in {"text", "list"} /\ u = want
     \/ phase = "lines"
     \/ phase = "make" /\ Head(todo) = m /\ u \notin made

Pending(m, u) == Making /\ Head(todo) = m /\ unit = u

Behind == \E e \in newer : e[2] = Program
Linked == \A m \in Module : App(m) \in DOMAIN text /\ text[App(m)] = text[Src(m, Table)]

\* A source is the translation of its function, and the lists have functions
\* that have a source.
Sources == \A f \in Function :
  LET x == Src(ModuleOf(f), f)
  IN  x \in DOMAIN text /\ ~ (phase = "text" /\ want = f) => text[x] = Translation(f)
Translated(m) == {f \in Function : ModuleOf(f) = m /\ Src(m, f) \in DOMAIN text}
Lists == \A m \in Module : ~ (phase = "lines" /\ ModuleOf(want) = m) =>
           text[Src(m, Table)] \subseteq Translated(m)

\* What was made is what the source says, in the object and in the archive.
Objects == \A m \in Module : \A u \in Unit(m) :
  Obj(m, u) \in DOMAIN text /\ ~ Stale(m, u) =>
    /\ Src(m, u) \in DOMAIN text /\ text[Obj(m, u)] = text[Src(m, u)]
    /\ Pending(m, u) \/ (Member(m, u) \in DOMAIN text /\ text[Member(m, u)] = text[Obj(m, u)])
LibraryObjects == \A u \in Unit("lib") :
  Src("lib", u) \in DOMAIN text /\ ~ Stale("lib", u) => Obj("lib", u) \in DOMAIN text

\* What a program knows is what is listed, and the function it translates.
Knowledge ==
  /\ phase \in {"wait", "execute", "source", "text"} =>
       \A m \in Module : known[m] = text[Src(m, Table)]
  /\ phase \in {"list", "lines"} => \A m \in Module : known[m] \subseteq Translated(m)

\* The program is linked, or make will see that it has to be: the object of
\* main_exe was just made, or the archive of the DLL is newer, as it was
\* written in a second when the program was not.
Links ==
  /\ phase = "exec" => Linked
  /\ phase = "idle" => Program \notin DOMAIN text \/ Behind \/ Linked
  /\ phase = "run" => Program \notin DOMAIN text \/ Behind \/ Linked \/ made # {}
  /\ phase = "make" /\ ModuleOf(want) = "lib" =>
       Behind \/ (Head(todo) = "lib" /\ (made = {} \/ unit # none))
Clock ==
  \/ phase \in {"execute", "source", "text", "list", "lines", "make"}
  \/ phase = "wait" /\ waited
  => Program \notin now

Clean == Sources /\ Lists /\ Objects /\ LibraryObjects /\ Knowledge /\ Links /\ Clock

LEMMA InitClean == Init => Clean
<1> SUFFICES ASSUME Init PROVE Clean
  OBVIOUS
<1>1. /\ phase = "idle" /\ now = {} /\ newer = {}
      /\ DOMAIN text = {Src("main", Table), Src("lib", Table), Obj("lib", Table), Member("lib", Table)}
      /\ \A x \in DOMAIN text : text[x] = {}
  BY DEF Init
<1>2. \A m, u : ~ Stale(m, u)
  BY <1>1 DEF Stale
<1>3. \A m, u : /\ Src(m, u) \in DOMAIN text => u = Table
                /\ Obj(m, u) \in DOMAIN text => m = "lib" /\ u = Table
  BY <1>1, Names
<1>4. Sources
  <2>1. \A f \in Function : f # Table
    BY NamesAssumption
  <2>2. \A f \in Function : Src(ModuleOf(f), f) \notin DOMAIN text
    BY <1>3, <2>1
  <2> QED
    BY <2>2 DEF Sources
<1>5. Lists
  BY <1>1, FilesOfUnits DEF Lists
<1>6. Objects /\ LibraryObjects
  BY <1>1, <1>3 DEF Objects, LibraryObjects
<1>7. Knowledge /\ Clock
  BY <1>1 DEF Knowledge, Clock
<1>8. Links
  <2>1. Program \notin DOMAIN text
    BY <1>1, NamesOfPrograms DEF Program
  <2> QED
    BY <1>1, <2>1 DEF Links
<1> QED
  BY <1>4, <1>5, <1>6, <1>7, <1>8 DEF Clean

\* When nothing is left but the link, nothing is stale.
LEMMA NothingStale ==
  ASSUME Types, UpToDate
  PROVE  /\ \A m \in Module : \A u : ~ Stale(m, u)
         /\ phase = "make" /\ Head(todo) = ModuleOf(want) => made # {}
<1>1. Making /\ unit = none /\ phase \in {"run", "make"}
  BY DEF UpToDate, Making
<1>2. ASSUME phase = "make", NEW u \in {want, Table}, Head(todo) = ModuleOf(want)
      PROVE  u \in made
  <2>1. /\ Src(ModuleOf(want), u) \in new /\ new \subseteq DOMAIN text /\ want \in Function
    BY <1>2 DEF Types, Makes, Structure, Source, List
  <2>2. u \in Unit(ModuleOf(want))
    BY <2>1, FilesOfUnits
  <2> QED
    BY <1>2, <2>1, <2>2 DEF UpToDate, Outdated
<1>3. ASSUME NEW m \in Module, NEW u PROVE ~ Stale(m, u)
  BY <1>1, <1>2 DEF Stale
<1> QED
  BY <1>2, <1>3

\* ... and all that has a source is archived.
LEMMA Ready ==
  ASSUME Types, Clean, UpToDate, Head(todo) = "main",
         NEW m \in Module, NEW u \in Unit(m), Src(m, u) \in DOMAIN text
  PROVE  Member(m, u) \in DOMAIN text /\ text[Member(m, u)] = text[Src(m, u)]
<1>1. Making /\ unit = none /\ u # none /\ ~ Stale(m, u)
  BY NothingStale, FilesOfUnits DEF UpToDate
<1>2. Obj(m, u) \in DOMAIN text
  <2>1. CASE m = "main"
    <3>1. ~ Outdated(m, u)
      BY <2>1 DEF UpToDate
    <3>2. u \in made => Obj(m, u) \in DOMAIN text
      BY <1>1, <2>1 DEF Types, Structure
    <3> QED
      BY <3>1, <3>2 DEF Outdated
  <2>2. CASE m = "lib"
    BY <1>1, <2>2 DEF Clean, LibraryObjects
  <2> QED
    BY <2>1, <2>2, FilesOfUnits
<1> QED
  BY <1>1, <1>2 DEF Clean, Objects, Pending

LEMMA NoFailure ==
  ASSUME Types, Clean
  PROVE  ~ MakeFails
<1>1. ASSUME Making, NEW u \in Unit(Head(todo)), Src(Head(todo), u) \in DOMAIN text
      PROVE  Compiles(text[Src(Head(todo), u)])
  <2>1. Head(todo) \in Module /\ phase \in {"run", "make"}
    BY <1>1, MakingModule
  <2>2. Error \notin Function
    BY NamesAssumption
  <2>3. CASE u = Table
    <3>1. text[Src(Head(todo), u)] \subseteq Function
      BY <2>1, <2>3 DEF Clean, Lists, Translated
    <3> QED
      BY <2>2, <3>1 DEF Compiles
  <2>4. CASE u # Table
    <3>1. u \in Function /\ ModuleOf(u) = Head(todo)
      BY <2>4 DEF Unit
    <3>2. text[Src(Head(todo), u)] = {u}
      BY <1>1, <2>1, <3>1 DEF Clean, Sources, Translation
    <3> QED
      BY <2>2, <3>1, <3>2 DEF Compiles
  <2> QED
    BY <2>3, <2>4
<1>2. ASSUME UpToDate, Head(todo) = "main" PROVE Resolved
  <2>1. phase # "lines"
    BY <1>2 DEF UpToDate, Making
  <2>2. ASSUME NEW m \in Module
        PROVE  /\ Member(m, Table) \in DOMAIN text
               /\ \A f \in text[Member(m, Table)] : Holds(Member(m, f), f)
    <3>1. Src(m, Table) \in DOMAIN text /\ Table \in Unit(m)
      BY FilesOfUnits DEF Types, Structure
    <3>2. Member(m, Table) \in DOMAIN text /\ text[Member(m, Table)] = text[Src(m, Table)]
      BY <1>2, <3>1, Ready
    <3>3. ASSUME NEW f \in text[Member(m, Table)] PROVE Holds(Member(m, f), f)
      <4>1. f \in Function /\ ModuleOf(f) = m /\ Src(m, f) \in DOMAIN text
        BY <2>1, <3>2 DEF Clean, Lists, Translated
      <4>2. f \in Unit(m)
        BY <4>1, FilesOfUnits
      <4>3. Member(m, f) \in DOMAIN text /\ text[Member(m, f)] = text[Src(m, f)]
        BY <1>2, <4>1, <4>2, Ready
      <4>4. text[Src(m, f)] = {f}
        <5>1. phase # "text"
          BY <1>2 DEF UpToDate, Making
        <5> QED
          BY <4>1, <5>1 DEF Clean, Sources, Translation
      <4> QED
        BY <4>3, <4>4 DEF Holds
    <3> QED
      BY <3>2, <3>3
  <2> QED
    BY <2>2 DEF Resolved
<1> QED
  BY <1>1, <1>2 DEF MakeFails, Outdated


-----------------------------------------------------------------------------
(* The steps of a clean run.                                               *)

\* The sources are the same, and none is being written.
LEMMA SameSources ==
  ASSUME Types, Clean,
         \A m \in Module : \A u : /\ Src(m, u) \in DOMAIN text' <=> Src(m, u) \in DOMAIN text
                                  /\ Src(m, u) \in DOMAIN text => text'[Src(m, u)] = text[Src(m, u)],
         phase \notin {"text", "lines"} \/ UNCHANGED <<phase, want>>
  PROVE  /\ Sources' /\ Lists' /\ \A m \in Module : Translated(m)' = Translated(m)
         /\ \A m \in Module : text'[Src(m, Table)] = text[Src(m, Table)]
<1>1. Sources'
  BY FilesOfUnits DEF Clean, Sources, Translation
<1>2. \A m \in Module : Translated(m)' = Translated(m)
  BY DEF Translated
<1>3. \A m \in Module : text'[Src(m, Table)] = text[Src(m, Table)]
  BY DEF Types, Structure
<1>4. Lists'
  BY <1>2, <1>3 DEF Clean, Lists, ModuleOf
<1> QED
  BY <1>1, <1>2, <1>3, <1>4

\* The files are the same.
LEMMA SameObjects ==
  ASSUME Clean,
         \A m \in Module : \A u : \A x \in {Src(m, u), Obj(m, u), Member(m, u)} :
              /\ x \in DOMAIN text' <=> x \in DOMAIN text
              /\ x \in DOMAIN text => text'[x] = text[x],
         \A m \in Module : \A u \in Unit(m) : /\ Stale(m, u) => Stale(m, u)'
                                              /\ Pending(m, u) => Pending(m, u)'
  PROVE  Objects' /\ LibraryObjects'
<1>1. Objects'
  <2> SUFFICES ASSUME NEW m \in Module, NEW u \in Unit(m),
                      Obj(m, u) \in DOMAIN text', ~ Stale(m, u)'
               PROVE  /\ Src(m, u) \in DOMAIN text' /\ text'[Obj(m, u)] = text'[Src(m, u)]
                      /\ \/ Pending(m, u)'
                         \/ /\ Member(m, u) \in DOMAIN text'
                            /\ text'[Member(m, u)] = text'[Obj(m, u)]
    BY DEF Objects
  <2>1. /\ Src(m, u) \in DOMAIN text /\ text[Obj(m, u)] = text[Src(m, u)]
        /\ Pending(m, u) \/ (Member(m, u) \in DOMAIN text /\ text[Member(m, u)] = text[Obj(m, u)])
        /\ Obj(m, u) \in DOMAIN text
    BY DEF Clean, Objects
  <2> QED
    BY <2>1
<1>2. LibraryObjects'
  BY FilesOfUnits DEF Clean, LibraryObjects
<1> QED
  BY <1>1, <1>2

LEMMA QuietClean ==
  ASSUME Types, Clean, UNCHANGED text,
         UserRun \/ Tick \/ LibraryMade \/ Exec \/ Wait \/ Execute
  PROVE  Clean'
<1>1. \A m \in Module : \A u : \A x \in {Src(m, u), Obj(m, u), Member(m, u)} :
        /\ x \in DOMAIN text' <=> x \in DOMAIN text
        /\ x \in DOMAIN text => text'[x] = text[x]
  OBVIOUS
<1>2. \A m \in Module : \A u \in Unit(m) : u # none
  BY FilesOfUnits
<1>3. CASE UserRun
  <2>1. /\ phase = "idle" /\ phase' = "run" /\ unit' = none /\ UNCHANGED disk
    BY <1>3 DEF UserRun, StartMake
  <2>2. \A m \in Module : \A u \in Unit(m) : ~ Stale(m, u) /\ ~ Pending(m, u)
    BY <2>1 DEF Stale, Pending, Making
  <2>3. Sources' /\ Lists' /\ Objects' /\ LibraryObjects'
    BY <1>1, <2>1, <2>2, SameSources, SameObjects
  <2>4. Links'
    BY <2>1 DEF Clean, Links, Behind, Linked, disk
  <2>5. Knowledge' /\ Clock'
    BY <2>1 DEF Knowledge, Clock
  <2> QED
    BY <2>3, <2>4, <2>5 DEF Clean
<1>4. CASE Tick
  <2>1. /\ now' = {} /\ UNCHANGED <<phase, newer, known, want>> /\ UNCHANGED make
    BY <1>4 DEF Tick
  <2>2. \A m \in Module : \A u \in Unit(m) : Stale(m, u) = Stale(m, u)' /\ Pending(m, u) = Pending(m, u)'
    BY <2>1 DEF Stale, Pending, Making, make, ModuleOf
  <2>3. Sources' /\ Lists' /\ Objects' /\ LibraryObjects'
    BY <1>1, <2>1, <2>2, SameSources, SameObjects
  <2>4. Links'
    BY <2>1 DEF Clean, Links, Behind, Linked, make, ModuleOf
  <2>5. Knowledge' /\ Clock'
    BY <2>1 DEF Clean, Knowledge, Clock, Translated
  <2> QED
    BY <2>3, <2>4, <2>5 DEF Clean
<1>5. CASE LibraryMade
  <2>1. /\ UpToDate /\ unit = none /\ Head(todo) = "lib" /\ phase \in {"run", "make"}
        /\ unit' = none /\ UNCHANGED phase /\ UNCHANGED disk /\ UNCHANGED proc
    BY <1>5 DEF LibraryMade, StartMake, UpToDate, Making
  <2>2. \A m \in Module : \A u \in Unit(m) : ~ Stale(m, u) /\ ~ Pending(m, u)
    BY <1>2, <2>1, NothingStale DEF Pending
  <2>3. Sources' /\ Lists' /\ Objects' /\ LibraryObjects'
    BY <1>1, <2>1, <2>2, SameSources, SameObjects
  <2>4. phase = "make" /\ ModuleOf(want) = "lib"
    BY <2>1 DEF Types, Structure
  <2>5. Links'
    <3>1. Behind
      BY <2>1, <2>4, NothingStale DEF Clean, Links
    <3> QED
      BY <2>1, <2>4, <3>1 DEF Links, Behind, disk
  <2>6. Knowledge' /\ Clock'
    BY <2>1, <2>4 DEF Clean, Knowledge, Clock, disk
  <2> QED
    BY <2>3, <2>5, <2>6 DEF Clean
<1>6. CASE Exec \/ Wait \/ Execute
  <2>1. /\ phase \in {"exec", "wait", "execute"} /\ phase' \in {"wait", "execute", "source", "exited"}
        /\ UNCHANGED disk
    BY <1>6 DEF Exec, Wait, Execute
  <2>2. \A m \in Module : \A u \in Unit(m) : ~ Stale(m, u) /\ ~ Pending(m, u)
    BY <2>1 DEF Stale, Pending, Making
  <2>3. /\ Sources' /\ Lists' /\ Objects' /\ LibraryObjects'
        /\ \A m \in Module : text'[Src(m, Table)] = text[Src(m, Table)]
    BY <1>1, <2>1, <2>2, SameSources, SameObjects
  <2>4. Links'
    BY <2>1 DEF Links
  <2>5. Knowledge'
    <3>1. CASE Exec
      <4>1. phase = "exec" /\ \A m \in Module : known'[m] = text[App(m)]
        BY <3>1 DEF Exec
      <4> QED
        BY <2>1, <2>3, <4>1 DEF Clean, Links, Linked, Knowledge
    <3>2. CASE Wait \/ Execute
      <4>1. phase \in {"wait", "execute"} /\ UNCHANGED known
        BY <3>2 DEF Wait, Execute, proc
      <4> QED
        BY <2>1, <2>3, <4>1 DEF Clean, Knowledge
    <3> QED
      BY <1>6, <3>1, <3>2
  <2>6. Clock'
    <3>1. CASE Exec
      BY <3>1 DEF Exec, Clock
    <3>2. CASE Wait
      BY <2>1, <3>2 DEF Wait, NewTimestamp, Clean, Clock, disk
    <3>3. CASE Execute
      BY <2>1, <3>3 DEF Execute, Clean, Clock, disk
    <3> QED
      BY <1>6, <3>1, <3>2, <3>3
  <2> QED
    BY <2>3, <2>4, <2>5, <2>6 DEF Clean
<1> QED
  BY <1>3, <1>4, <1>5, <1>6

\* A file that is not the program is written.
LEMMA TouchOther ==
  ASSUME NEW x, x # Program, Touch(x)
  PROVE  /\ now' = now \union {x} /\ (Behind => Behind')
         /\ Program \notin now => Program \notin now'
<1>1. Behind => Behind'
  BY DEF Touch, Behind
<1> QED
  BY <1>1 DEF Touch

LEMMA CompileClean ==
  ASSUME Types, Clean, Compile
  PROVE  Clean'
<1> DEFINE m == Head(todo)
<1>1. PICK u \in Unit(m) : /\ Src(m, u) \in DOMAIN text
                           /\ DOMAIN text' = DOMAIN text \union {Obj(m, u)}
                           /\ text'[Obj(m, u)] = text[Src(m, u)]
                           /\ \A y \in DOMAIN text : y # Obj(m, u) => text'[y] = text[y]
                           /\ Touch(Obj(m, u))
                           /\ made' = made \union {u} /\ unit' = u
  BY CompileTypes
<1>2. /\ Making /\ unit = none /\ UNCHANGED phase /\ UNCHANGED want /\ UNCHANGED todo
      /\ m \in Module /\ phase \in {"run", "make"} /\ u # none
  BY MakingModule, FilesOfUnits DEF Compile, proc
<1> HIDE DEF m
<1>3. \A n \in Module : \A v : /\ Src(n, v) \in DOMAIN text' <=> Src(n, v) \in DOMAIN text
                               /\ Src(n, v) \in DOMAIN text => text'[Src(n, v)] = text[Src(n, v)]
  BY <1>1, Names
<1>4. /\ Sources' /\ Lists' /\ \A n \in Module : text'[Src(n, Table)] = text[Src(n, Table)]
  BY <1>2, <1>3, SameSources
<1>5. \A n \in Module : \A v \in Unit(n) :
        ~ (n = m /\ v = u) =>
          /\ ~ Stale(n, v)' => ~ Stale(n, v)
          /\ ~ Pending(n, v)
          /\ Obj(n, v) \in DOMAIN text' => Obj(n, v) \in DOMAIN text
          /\ Obj(n, v) \in DOMAIN text => /\ Obj(n, v) \in DOMAIN text'
                                          /\ text'[Obj(n, v)] = text[Obj(n, v)]
  <2> SUFFICES ASSUME NEW n \in Module, NEW v \in Unit(n), ~ (n = m /\ v = u)
               PROVE  /\ ~ Stale(n, v)' => ~ Stale(n, v)
                      /\ ~ Pending(n, v)
                      /\ Obj(n, v) \in DOMAIN text' => Obj(n, v) \in DOMAIN text
                      /\ Obj(n, v) \in DOMAIN text => /\ Obj(n, v) \in DOMAIN text'
                                                      /\ text'[Obj(n, v)] = text[Obj(n, v)]
    OBVIOUS
  <2>1. Stale(n, v) => Stale(n, v)'
    BY <1>1, <1>2 DEF Stale, ModuleOf, m
  <2>2. ~ Pending(n, v)
    BY <1>2, FilesOfUnits DEF Pending
  <2>3. Obj(n, v) # Obj(m, u)
    BY Names
  <2> QED
    BY <1>1, <2>1, <2>2, <2>3
<1>6. \A n \in Module : \A v \in Unit(n) :
        Member(n, v) \in DOMAIN text => /\ Member(n, v) \in DOMAIN text'
                                        /\ text'[Member(n, v)] = text[Member(n, v)]
  BY <1>1, Names
<1>7. \A n, v : n = m /\ v = u => Pending(n, v)'
  BY <1>1, <1>2 DEF Pending, Making, m
<1>8. Objects'
  <2> SUFFICES ASSUME NEW n \in Module, NEW v \in Unit(n),
                      Obj(n, v) \in DOMAIN text', ~ Stale(n, v)'
               PROVE  /\ Src(n, v) \in DOMAIN text' /\ text'[Obj(n, v)] = text'[Src(n, v)]
                      /\ \/ Pending(n, v)'
                         \/ /\ Member(n, v) \in DOMAIN text'
                            /\ text'[Member(n, v)] = text'[Obj(n, v)]
    BY DEF Objects
  <2>1. CASE n = m /\ v = u
    BY <1>1, <1>3, <1>7, <2>1
  <2>2. CASE ~ (n = m /\ v = u)
    <3>1. /\ Obj(n, v) \in DOMAIN text /\ ~ Stale(n, v) /\ ~ Pending(n, v)
          /\ text'[Obj(n, v)] = text[Obj(n, v)]
      BY <1>5, <2>2
    <3>2. /\ Src(n, v) \in DOMAIN text /\ text[Obj(n, v)] = text[Src(n, v)]
          /\ Member(n, v) \in DOMAIN text /\ text[Member(n, v)] = text[Obj(n, v)]
      BY <3>1 DEF Clean, Objects
    <3> QED
      BY <1>3, <1>6, <3>1, <3>2
  <2> QED
    BY <2>1, <2>2
<1>9. LibraryObjects'
  BY <1>1, <1>3, <1>5, FilesOfUnits DEF Clean, LibraryObjects
<1>10. Obj(m, u) # Program
  BY NamesOfPrograms DEF Program
<1>11. Links'
  <2>1. Behind => Behind'
    BY <1>1, <1>10, TouchOther
  <2>2. phase = "make" /\ ModuleOf(want) = "lib" => Behind \/ Head(todo) = "lib"
    BY DEF Clean, Links
  <2>3. ModuleOf(want)' = ModuleOf(want)
    BY <1>2 DEF ModuleOf
  <2> QED
    BY <1>1, <1>2, <2>1, <2>2, <2>3 DEF Links
<1>12. Knowledge' /\ Clock'
  <2>1. phase = "make" => Program \notin now'
    BY <1>1, <1>10, TouchOther DEF Clean, Clock
  <2> QED
    BY <1>2, <2>1 DEF Knowledge, Clock
<1> QED
  BY <1>4, <1>8, <1>9, <1>11, <1>12 DEF Clean

LEMMA ArchivedClean ==
  ASSUME Types, Clean, Archived
  PROVE  Clean'
<1> DEFINE m == Head(todo)
           x == Member(m, unit)
<1>1. /\ Making /\ unit \in Unit(m) /\ Obj(m, unit) \in DOMAIN text
      /\ DOMAIN text' = DOMAIN text \union {x} /\ text'[x] = text[Obj(m, unit)]
      /\ \A y \in DOMAIN text : y # x => text'[y] = text[y]
  BY ArchivedTypes
<1>2. /\ unit # none /\ unit' = none /\ Touch(Archive(m))
      /\ UNCHANGED phase /\ UNCHANGED want /\ UNCHANGED <<todo, made>>
      /\ m \in Module /\ phase \in {"run", "make"}
  BY MakingModule DEF Archived, proc
<1> HIDE DEF m
<1>3. \A n \in Module : \A v :
        /\ Src(n, v) \in DOMAIN text' <=> Src(n, v) \in DOMAIN text
        /\ Src(n, v) \in DOMAIN text => text'[Src(n, v)] = text[Src(n, v)]
        /\ Obj(n, v) \in DOMAIN text' <=> Obj(n, v) \in DOMAIN text
        /\ Obj(n, v) \in DOMAIN text => text'[Obj(n, v)] = text[Obj(n, v)]
  BY <1>1, Names
<1>4. /\ Sources' /\ Lists' /\ \A n \in Module : text'[Src(n, Table)] = text[Src(n, Table)]
  BY <1>2, <1>3, SameSources
<1>5. \A n \in Module : \A v : Stale(n, v)' = Stale(n, v)
  BY <1>2 DEF Stale, ModuleOf
<1>6. Objects'
  <2> SUFFICES ASSUME NEW n \in Module, NEW v \in Unit(n),
                      Obj(n, v) \in DOMAIN text', ~ Stale(n, v)'
               PROVE  /\ Src(n, v) \in DOMAIN text' /\ text'[Obj(n, v)] = text'[Src(n, v)]
                      /\ Member(n, v) \in DOMAIN text'
                      /\ text'[Member(n, v)] = text'[Obj(n, v)]
    BY DEF Objects
  <2>1. /\ Obj(n, v) \in DOMAIN text /\ ~ Stale(n, v)
        /\ Src(n, v) \in DOMAIN text /\ text[Obj(n, v)] = text[Src(n, v)]
        /\ Pending(n, v) \/ (Member(n, v) \in DOMAIN text /\ text[Member(n, v)] = text[Obj(n, v)])
    BY <1>3, <1>5 DEF Clean, Objects
  <2>2. CASE n = m /\ v = unit
    BY <1>1, <1>3, <2>1, <2>2
  <2>3. CASE ~ (n = m /\ v = unit)
    <3>1. Member(n, v) # x
      BY <2>3, Names
    <3>2. ~ Pending(n, v)
      BY <2>3 DEF Pending, m
    <3> QED
      BY <1>1, <1>3, <2>1, <3>1, <3>2
  <2> QED
    BY <2>2, <2>3
<1>7. LibraryObjects'
  BY <1>3, <1>5, FilesOfUnits DEF Clean, LibraryObjects
<1>8. Archive(m) # Program /\ Program # x
  BY NamesOfPrograms DEF Program
<1>9. Links'
  <2>1. Behind => Behind'
    BY <1>2, <1>8, TouchOther
  <2>2. ModuleOf(want)' = ModuleOf(want)
    BY <1>2 DEF ModuleOf
  <2>3. CASE phase = "run"
    <3>1. Linked => Linked'
      <4>1. \A n \in Module : App(n) # x
        BY NamesOfPrograms
      <4> QED
        BY <1>1, <1>4, <4>1 DEF Linked
    <3>2. Program \notin DOMAIN text => Program \notin DOMAIN text'
      BY <1>1, <1>8
    <3> QED
      BY <1>2, <2>1, <2>3, <3>1, <3>2 DEF Clean, Links
  <2>4. CASE phase = "make" /\ ModuleOf(want) = "lib"
    <3>1. CASE Behind
      BY <1>2, <2>1, <2>4, <3>1 DEF Links
    <3>2. CASE m = "lib"
      <4>1. Program \notin now
        BY <2>4 DEF Clean, Clock
      <4>2. Program \in Targets(Archive("lib"))
        BY DEF Targets, Archive
      <4>3. <<Archive("lib"), Program>> \in newer'
        BY <1>2, <3>2, <4>1, <4>2 DEF Touch
      <4>4. Behind'
        BY <4>3 DEF Behind
      <4> QED
        BY <1>2, <2>4, <4>4 DEF Links
    <3> QED
      BY <2>4, <3>1, <3>2 DEF Clean, Links, m
  <2>5. CASE phase = "make" /\ ModuleOf(want) # "lib"
    BY <1>2, <2>2, <2>5 DEF Links
  <2> QED
    BY <1>2, <2>3, <2>4, <2>5
<1>10. Knowledge' /\ Clock'
  <2>1. phase = "make" => Program \notin now'
    BY <1>2, <1>8, TouchOther DEF Clean, Clock
  <2> QED
    BY <1>2, <2>1 DEF Knowledge, Clock
<1> QED
  BY <1>4, <1>6, <1>7, <1>9, <1>10 DEF Clean

LEMMA ProgramMadeClean ==
  ASSUME Types, Clean, ProgramMade
  PROVE  Clean'
<1>1. /\ UpToDate /\ Making /\ unit = none /\ Head(todo) = "main" /\ phase \in {"run", "make"}
      /\ phase' \in {"idle", "exec"}
  BY DEF ProgramMade, UpToDate, Making
<1>2. \A m \in Module : \A u : \A x \in {Src(m, u), Obj(m, u), Member(m, u)} :
        /\ x \in DOMAIN text' <=> x \in DOMAIN text
        /\ x \in DOMAIN text => text'[x] = text[x]
  BY ProgramMadeTypes
<1>3. \A m \in Module : \A u \in Unit(m) : ~ Stale(m, u) /\ ~ Pending(m, u)
  BY <1>1, NothingStale, FilesOfUnits DEF Pending
<1>4. /\ Sources' /\ Lists' /\ Objects' /\ LibraryObjects'
      /\ \A m \in Module : text'[Src(m, Table)] = text[Src(m, Table)]
  BY <1>1, <1>2, <1>3, SameSources, SameObjects
<1>5. Linked'
  <2>1. CASE LinkNeeded
    <3>1. \A m \in Module : App(m) \in DOMAIN text' /\ text'[App(m)] = text[Member(m, Table)]
      BY <2>1, ProgramMadeTypes
    <3>2. \A m \in Module : text[Member(m, Table)] = text[Src(m, Table)]
      BY <1>1, Ready, FilesOfUnits DEF Types, Structure
    <3> QED
      BY <1>4, <3>1, <3>2 DEF Linked
  <2>2. CASE ~ LinkNeeded
    <3>1. UNCHANGED disk /\ Program \in DOMAIN text /\ made = {} /\ ~ Behind
      BY <2>2 DEF ProgramMade, LinkNeeded, Behind
    <3>2. CASE phase = "run"
      BY <3>1, <3>2 DEF Clean, Links, Linked, disk
    <3>3. CASE phase = "make" /\ ModuleOf(want) = "lib"
      BY <1>1, <3>1, <3>3 DEF Clean, Links
    <3>4. CASE phase = "make" /\ ModuleOf(want) # "lib"
      <4>1. ModuleOf(want) = "main"
        BY <3>4 DEF ModuleOf
      <4> QED
        BY <1>1, <3>1, <3>4, <4>1, NothingStale
    <3> QED
      BY <1>1, <3>2, <3>3, <3>4
  <2> QED
    BY <2>1, <2>2
<1>6. Links' /\ Knowledge' /\ Clock'
  BY <1>1, <1>5 DEF Links, Knowledge, Clock
<1> QED
  BY <1>4, <1>6 DEF Clean

\* A source or a list is written, and the units that are so are made next.
LEMMA WrittenClean ==
  ASSUME Types, Clean, phase \in {"source", "text", "list", "lines"},
         NEW x \in {Source, List}, NEW s \in SUBSET (Function \union {Error}), Write(x, s),
         \A m \in Module : \A u \in Unit(m) :
           Stale(m, u) \/ x = Src(m, u) => Stale(m, u)'
  PROVE  Objects' /\ LibraryObjects' /\ Program \notin now'
<1>1. /\ Program # x /\ DOMAIN text' = DOMAIN text \union {x} /\ text'[x] = s
      /\ \A y \in DOMAIN text : y # x => text'[y] = text[y]
  BY Written
<1>2. \A m, u : x # Obj(m, u) /\ x # Member(m, u)
  BY Names DEF Source, List
<1>3. \A m, u : ~ Pending(m, u)
  BY DEF Pending, Making
<1>4. Objects'
  <2> SUFFICES ASSUME NEW m \in Module, NEW u \in Unit(m),
                      Obj(m, u) \in DOMAIN text', ~ Stale(m, u)'
               PROVE  /\ Src(m, u) \in DOMAIN text' /\ text'[Obj(m, u)] = text'[Src(m, u)]
                      /\ Member(m, u) \in DOMAIN text'
                      /\ text'[Member(m, u)] = text'[Obj(m, u)]
    BY DEF Objects
  <2>1. Obj(m, u) \in DOMAIN text /\ ~ Stale(m, u) /\ x # Src(m, u)
    BY <1>1, <1>2
  <2>2. /\ Src(m, u) \in DOMAIN text /\ text[Obj(m, u)] = text[Src(m, u)]
        /\ Member(m, u) \in DOMAIN text /\ text[Member(m, u)] = text[Obj(m, u)]
    BY <1>3, <2>1 DEF Clean, Objects
  <2> QED
    BY <1>1, <1>2, <2>1, <2>2
<1>5. LibraryObjects'
  BY <1>1, FilesOfUnits DEF Clean, LibraryObjects
<1>6. Program \notin now'
  BY <1>1, TouchOther DEF Write, Clean, Clock
<1> QED
  BY <1>4, <1>5, <1>6

LEMMA TransmulateClean ==
  ASSUME Types, Clean, Transmulate
  PROVE  Clean'
<1>1. phase \in {"source", "text", "list", "lines"}
  BY DEF Transmulate, OpenSource, FlushSource, CloseSource, OpenList, FlushList, CloseList
<1> DEFINE M == ModuleOf(want)
<1>2. /\ want \in Function /\ List \in DOMAIN text /\ known[M] \subseteq Function
      /\ M \in Module /\ M' = M /\ want # Table /\ want \in Unit(M)
  <2>1. want' = want
    BY DEF Transmulate, OpenSource, FlushSource, CloseSource, OpenList, FlushList, CloseList, proc
  <2>2. want \in Function /\ List \in DOMAIN text /\ known[M] \subseteq Function /\ M \in Module
    BY <1>1, Writing
  <2> QED
    BY <2>1, <2>2, NamesAssumption, FilesOfUnits DEF ModuleOf
<1>3. UNCHANGED want
  BY DEF Transmulate, OpenSource, FlushSource, CloseSource, OpenList, FlushList, CloseList, proc
<1>4. Source = Src(M, want) /\ List = Src(M, Table) /\ Source # List
  BY <1>2, Names DEF Source, List
<1> HIDE DEF M
<1>5. CASE OpenSource \/ FlushSource
  <2>1. PICK s \in {{}, {Error}} : Write(Source, s)
    BY <1>5 DEF OpenSource, FlushSource
  <2>2. /\ phase \in {"source", "text"} /\ phase' = "text" /\ UNCHANGED known
    BY <1>5 DEF OpenSource, FlushSource, proc
  <2>3. s \in SUBSET (Function \union {Error})
    OBVIOUS
  <2>4. /\ DOMAIN text' = DOMAIN text \union {Source}
        /\ \A y \in DOMAIN text : y # Source => text'[y] = text[y]
    BY <1>1, <2>1, <2>3, Written
  <2>5. \A m, u : Stale(m, u) \/ Source = Src(m, u) => Stale(m, u)'
    BY <1>2, <1>3, <1>4, <2>2, Names DEF Stale, M
  <2>6. Objects' /\ LibraryObjects' /\ Program \notin now'
    BY <1>1, <2>1, <2>3, <2>5, WrittenClean
  <2>7. Sources'
    <3>1. \A f \in Function : f # want => Src(ModuleOf(f), f) # Source
      BY <1>4, Names
    <3> QED
      BY <1>3, <2>2, <2>4, <3>1 DEF Clean, Sources, Translation
  <2>8. \A m \in Module : text'[Src(m, Table)] = text[Src(m, Table)]
    <3>1. \A m \in Module : Src(m, Table) # Source
      BY <1>2, <1>4, Names
    <3> QED
      BY <2>4, <3>1 DEF Types, Structure
  <2>9. \A m \in Module : Translated(m) \subseteq Translated(m)'
    BY <2>4 DEF Translated
  <2>10. Lists' /\ Knowledge'
    BY <2>2, <2>8, <2>9 DEF Clean, Lists, Knowledge
  <2>11. Links' /\ Clock'
    BY <2>2, <2>6 DEF Links, Clock
  <2> QED
    BY <2>6, <2>7, <2>10, <2>11 DEF Clean
<1>6. CASE CloseSource
  <2>1. /\ phase = "text" /\ phase' = "list" /\ Write(Source, Translation(want))
        /\ known' = [known EXCEPT ![M] = @ \union {want}]
    BY <1>6 DEF CloseSource, M
  <2>2. Translation(want) \in SUBSET (Function \union {Error})
    BY <1>2 DEF Translation
  <2>3. /\ DOMAIN text' = DOMAIN text \union {Source} /\ text'[Source] = Translation(want)
        /\ \A y \in DOMAIN text : y # Source => text'[y] = text[y]
    BY <1>1, <2>1, <2>2, Written
  <2>4. \A m, u : Stale(m, u) \/ Source = Src(m, u) => Stale(m, u)'
    BY <1>2, <1>3, <1>4, <2>1, Names DEF Stale, M
  <2>5. Objects' /\ LibraryObjects' /\ Program \notin now'
    BY <1>1, <2>1, <2>2, <2>4, WrittenClean
  <2>6. Sources'
    <3> SUFFICES ASSUME NEW f \in Function, Src(ModuleOf(f), f) \in DOMAIN text'
                 PROVE  text'[Src(ModuleOf(f), f)] = Translation(f)
      BY DEF Sources, ModuleOf, Translation
    <3>1. CASE f = want
      BY <1>4, <2>3, <3>1 DEF M
    <3>2. CASE f # want
      <4>1. Src(ModuleOf(f), f) # Source
        BY <1>4, <3>2, Names
      <4> QED
        BY <2>3, <3>2, <4>1 DEF Clean, Sources
    <3> QED
      BY <3>1, <3>2
  <2>7. \A m \in Module : text'[Src(m, Table)] = text[Src(m, Table)]
    <3>1. \A m \in Module : Src(m, Table) # Source
      BY <1>2, <1>4, Names
    <3> QED
      BY <2>3, <3>1 DEF Types, Structure
  <2>8. \A m \in Module : Translated(m) \subseteq Translated(m)'
    BY <2>3 DEF Translated
  <2>9. \A m \in Module : m = M => want \in Translated(m)'
    BY <1>2, <1>4, <2>3 DEF Translated, M, ModuleOf
  <2>10. Lists'
    BY <2>1, <2>7, <2>8 DEF Clean, Lists
  <2>11. Knowledge'
    <3>1. \A m \in Module : known[m] \subseteq Translated(m)
      BY <2>1 DEF Clean, Knowledge, Lists
    <3>2. \A m \in Module : known'[m] \subseteq known[m] \union (IF m = M THEN {want} ELSE {})
      BY <2>1 DEF Types, Processes
    <3>3. ASSUME NEW m \in Module PROVE known'[m] \subseteq Translated(m)'
      <4>1. known[m] \subseteq Translated(m)'
        BY <2>8, <3>1
      <4>2. m = M => want \in Translated(m)'
        BY <2>9
      <4> QED
        BY <3>2, <4>1, <4>2
    <3> QED
      BY <2>1, <3>3 DEF Knowledge
  <2>12. Links' /\ Clock'
    BY <2>1, <2>5 DEF Links, Clock
  <2> QED
    BY <2>5, <2>6, <2>10, <2>11, <2>12 DEF Clean
<1>7. CASE OpenList \/ FlushList \/ CloseList
  <2>1. /\ phase \in {"list", "lines"} /\ phase' \in {"lines", "make"} /\ UNCHANGED known
        /\ \E s \in SUBSET (Function \union {Error}) : Write(List, s)
    <3>1. CASE OpenList
      BY <3>1 DEF OpenList, proc
    <3>2. CASE FlushList
      <4>1. PICK part \in SUBSET (known[M] \union {Error}) : Write(List, part)
        BY <3>2 DEF FlushList, M
      <4>2. part \in SUBSET (Function \union {Error})
        BY <1>2
      <4> QED
        BY <3>2, <4>1, <4>2 DEF FlushList, proc
    <3>3. CASE CloseList
      BY <1>2, <3>3 DEF CloseList, proc, M
    <3> QED
      BY <1>7, <3>1, <3>2, <3>3
  <2>2. PICK s \in SUBSET (Function \union {Error}) : Write(List, s)
    BY <2>1
  <2>3. /\ DOMAIN text' = DOMAIN text \union {List} /\ text'[List] = s
        /\ \A y \in DOMAIN text : y # List => text'[y] = text[y]
    BY <1>1, <2>2, Written
  <2>4. phase' = "make" => /\ CloseList /\ Head(todo') = M /\ made' = {} /\ unit' = none
                           /\ text'[List] = known[M]
    <3>1. ASSUME phase' = "make" PROVE CloseList
      BY <1>7, <3>1 DEF OpenList, FlushList
    <3>2. ASSUME CloseList
          PROVE  /\ Head(todo') = M /\ made' = {} /\ unit' = none /\ text'[List] = known[M]
      <4>1. /\ Write(List, known[M]) /\ made' = {} /\ unit' = none /\ todo' = ToMake(M)
        BY <3>2 DEF CloseList, StartMake, M
      <4>2. text'[List] = known[M]
        BY <1>1, <1>2, <4>1, Written
      <4>3. Head(todo') = M
        BY <1>2, <4>1 DEF ToMake
      <4> QED
        BY <4>1, <4>2, <4>3
    <3> QED
      BY <3>1, <3>2
  <2>5. \A m, u : Stale(m, u) \/ List = Src(m, u) => Stale(m, u)'
    <3>1. CASE phase' = "lines"
      BY <1>2, <1>3, <1>4, <2>1, <3>1, Names DEF Stale, M
    <3>2. CASE phase' = "make"
      BY <1>2, <1>3, <1>4, <2>1, <2>4, <3>2, Names DEF Stale, M
    <3> QED
      BY <2>1, <3>1, <3>2
  <2>6. Objects' /\ LibraryObjects' /\ Program \notin now'
    BY <1>1, <2>2, <2>5, WrittenClean
  <2>7. \A f \in Function : Src(ModuleOf(f), f) # List
    BY <1>4, Names, NamesAssumption
  <2>8. Sources'
    BY <1>3, <2>1, <2>3, <2>7 DEF Clean, Sources, Translation
  <2>9. \A m \in Module : Translated(m) \subseteq Translated(m)'
    BY <2>3 DEF Translated
  <2>10. Knowledge'
    BY <2>1, <2>9 DEF Clean, Knowledge
  <2>11. Lists'
    <3> SUFFICES ASSUME NEW m \in Module, ~ (phase' = "lines" /\ M = m)
                 PROVE  text'[Src(m, Table)] \subseteq Translated(m)'
      BY <1>2 DEF Lists, M
    <3>1. CASE m = M
      <4>1. text'[Src(m, Table)] = known[m]
        BY <1>4, <2>1, <2>4, <3>1
      <4>2. known[m] \subseteq Translated(m)
        BY <2>1 DEF Clean, Knowledge
      <4> QED
        BY <2>9, <4>1, <4>2
    <3>2. CASE m # M
      <4>1. Src(m, Table) # List
        BY <1>4, <3>2, Names
      <4>2. text'[Src(m, Table)] = text[Src(m, Table)]
        BY <2>3, <4>1 DEF Types, Structure
      <4>3. text[Src(m, Table)] \subseteq Translated(m)
        BY <3>2 DEF Clean, Lists, M
      <4> QED
        BY <2>9, <4>2, <4>3
    <3> QED
      BY <3>1, <3>2
  <2>12. Links'
    <3>1. phase' \notin {"exec", "idle", "run"}
      BY <2>1
    <3>2. M = ModuleOf(want)'
      BY <1>2 DEF M
    <3> QED
      BY <2>4, <3>1, <3>2 DEF Links
  <2>13. Clock'
    BY <2>6 DEF Clock
  <2> QED
    BY <2>6, <2>8, <2>10, <2>11, <2>12, <2>13 DEF Clean
<1> QED
  BY <1>5, <1>6, <1>7 DEF Transmulate

-----------------------------------------------------------------------------
(* The invariant.                                                          *)

\* A fault is counted.
LEMMA FaultsGrow ==
  ASSUME Types, [Next]_vars, faults' = 0
  PROVE  /\ faults = 0
         /\ \/ UserRun \/ Make \/ Exec \/ Wait \/ Execute \/ Transmulate \/ Tick
            \/ UNCHANGED vars
<1>1. faults \in Nat
  BY BoundsAssumption DEF Types
<1>2. ~ Kill /\ ~ TranslateThrows
  BY <1>1 DEF Kill, TranslateThrows
<1>3. faults' = faults
  BY <1>2 DEF Next, Progress, UserRun, Make, Compile, Archived, LibraryMade, ProgramMade, MakeFails,
       Exec, Wait, Execute, Transmulate, OpenSource, FlushSource, CloseSource, OpenList, FlushList,
       CloseList, Tick, vars
<1> QED
  BY <1>2, <1>3 DEF Next, Progress

LEMMA StepClean ==
  ASSUME Types, Clean, faults = 0, [Next]_vars, faults' = 0
  PROVE  Clean'
<1>1. ASSUME UserRun \/ Tick \/ LibraryMade \/ Exec \/ Wait \/ Execute
      PROVE  Clean'
  <2>1. UNCHANGED text
    BY <1>1 DEF UserRun, Tick, LibraryMade, Exec, Wait, Execute, disk
  <2> QED
    BY <1>1, <2>1, QuietClean
<1>2. CASE UNCHANGED vars
  <2>1. /\ UNCHANGED phase /\ UNCHANGED text /\ UNCHANGED <<now, newer>>
        /\ UNCHANGED <<known, want, waited>> /\ UNCHANGED <<todo, new, made, unit>>
    BY <1>2 DEF vars, disk, proc, make
  <2>2. \A m, u : Stale(m, u)' = Stale(m, u) /\ Pending(m, u)' = Pending(m, u)
    BY <2>1 DEF Stale, Pending, Making, ModuleOf
  <2>3. Sources' /\ Lists' /\ Objects' /\ LibraryObjects' /\ \A m \in Module : Translated(m)' = Translated(m)
    BY <2>1, <2>2, SameSources, SameObjects
  <2>4. Knowledge' /\ Links' /\ Clock'
    BY <2>1, <2>3 DEF Clean, Knowledge, Links, Behind, Linked, Clock, ModuleOf
  <2> QED
    BY <2>3, <2>4 DEF Clean
<1> QED
  BY <1>1, <1>2, FaultsGrow, NoFailure, CompileClean, ArchivedClean, ProgramMadeClean, TransmulateClean
  DEF Make

Inv == Types /\ (faults = 0 => Clean)

LEMMA Invariance == Spec => []Inv
<1>1. Init => Inv
  BY InitTypes, InitClean DEF Inv
<1>2. Inv /\ [Next]_vars => Inv'
  BY StepTypes, StepClean, FaultsGrow DEF Inv
<1> QED
  BY <1>1, <1>2, PTL DEF Spec

\* As long as nothing goes wrong, a program that starts knows all the functions
\* that were translated before, of its modules and of the DLLs, whatever the
\* resolution of the times of files (IterBox::waitnewtimestamp, WinNT::trans).
THEOREM Freshness == Spec => []FreshProgram
<1>1. Inv => FreshProgram
  BY DEF Inv, Clean, Knowledge, FreshProgram
<1> QED
  BY <1>1, Invariance, PTL

\* As long as nothing goes wrong, make does not fail: what it compiles is whole,
\* and what it links is archived (Module::make, LibModule::make, UnWinTel::make).
THEOREM MakeSucceeds == Spec => [][faults = 0 => ~ MakeFails]_vars
<1>1. Inv => (faults = 0 => ~ MakeFails)
  BY NoFailure DEF Inv
<1> QED
  BY <1>1, Invariance, PTL

-----------------------------------------------------------------------------
(* Whatever goes wrong.                                                    *)

\* The module of the function that is translated, or was last.
Home == ModuleOf(want)

\* The program is about to run, or does.
Started == {"exec", "wait", "execute", "source", "text", "list", "lines"}

\* make sees that a unit need not be compiled.
Fresh(m, u) == Src(m, u) \in DOMAIN text =>
  Obj(m, u) \in DOMAIN text /\ <<Src(m, u), Obj(m, u)>> \notin newer
MainFresh == \A u \in Unit("main") : Fresh("main", u)

\* It is right: no source is changed in the second of its object.
Compiled == \A m \in Module : \A u \in Unit(m) :
  Src(m, u) \in DOMAIN text /\ Obj(m, u) \in DOMAIN text /\ <<Src(m, u), Obj(m, u)>> \notin newer
    => text[Obj(m, u)] = text[Src(m, u)]

\* What make has compiled; in main_exe, only what was written before it.
Made ==
  /\ Making => \A u \in made : /\ Src(Head(todo), u) \in DOMAIN text
                               /\ <<Src(Head(todo), u), Obj(Head(todo), u)>> \notin newer
  /\ phase = "make" /\ Head(todo) = "main" =>
       \A u \in made : Home = "main" /\ u \in {want, Table}

\* Once the process has waited, only the sources that it writes are of the
\* current second; and nothing is left to compile in the second of a link.
Seconds ==
  /\ phase \in {"execute", "source", "text", "list", "lines"} \/ (phase = "wait" /\ waited)
       => \A x \in now : x[1] = "src"
  /\ phase = "make" => Program \notin now
  /\ Program \in now => MainFresh

\* The program has the tables of the archives, and their functions are there.
Settled == \A m \in Module :
  /\ Member(m, Table) \in DOMAIN text /\ text[App(m)] = text[Member(m, Table)]
  /\ \A f \in text[App(m)] : Holds(Member(m, f), f)
Linking ==
  /\ Program \in DOMAIN text /\ ~ Behind => Settled
  /\ phase \in Started => Program \in DOMAIN text /\ ~ Behind
  /\ Making /\ Head(todo) = "main" /\ made # {} => Behind

\* A program starts when nothing is left to make in main_exe.
MainDone == phase \in Started \union {"make"} =>
  \A u \in Unit("main") : Fresh("main", u) \/ Stale("main", u)

\* The first function that the program as it is linked calls and does not know.
IsNext(f) == \E i \in DOMAIN calls :
  /\ calls[i] = f /\ f \notin text[App(ModuleOf(f))]
  /\ \A j \in DOMAIN calls : j < i => calls[j] \in text[App(ModuleOf(calls[j]))]
Knowing ==
  /\ phase \in {"wait", "execute", "source", "text"} => \A m \in Module : known[m] = text[App(m)]
  /\ phase \in {"source", "text", "list", "lines"} => IsNext(want)
  /\ phase \in {"list", "lines"} => known[Home] = text[App(Home)] \union {want}

\* A source of the DLL that a fault has cut is the next one to be translated:
\* nothing can have been linked since.
Broken == {f \in Function : /\ ModuleOf(f) = "lib" /\ Src("lib", f) \in DOMAIN text
                            /\ Error \in text[Src("lib", f)]}
Damage == \A f \in Broken : /\ IsNext(f) /\ Program \in DOMAIN text /\ ~ Behind /\ MainFresh
                            /\ phase \notin {"list", "lines", "make"}

\* What the table of the DLL lists has a whole source.
Whole == \A f \in Function :
  \/ Member("lib", Table) \in DOMAIN text /\ f \in text[Member("lib", Table)]
  \/ Program \in DOMAIN text /\ f \in text[App("lib")]
  => Src("lib", f) \in DOMAIN text /\ text[Src("lib", f)] = {f}

\* The make after a translation: the archives have what the program knew, and
\* the new function once it is archived.
Remaking ==
  /\ phase \in {"list", "lines", "make"} => text[Source] = {want}
  /\ phase = "make" =>
       /\ Program \in DOMAIN text
       /\ text[List] = text[App(Home)] \union {want}
       /\ \A m \in Module :
            /\ \A f \in text[App(m)] : Holds(Member(m, f), f)
            /\ Member(m, Table) \in DOMAIN text
            /\ \A f \in text[Member(m, Table)] : f \in text[App(m)] \/ (m = Home /\ f = want)
       /\ Head(todo) # Home \/ (want \in made /\ unit # want) => Holds(Member(Home, want), want)

Sound == /\ Compiled /\ Made /\ Seconds /\ Linking /\ MainDone /\ Knowing /\ Damage /\ Whole
         /\ Remaking

LEMMA InitSound == Init => Sound
<1> SUFFICES ASSUME Init PROVE Sound
  OBVIOUS
<1>1. /\ phase = "idle" /\ now = {} /\ newer = {}
      /\ DOMAIN text = {Src("main", Table), Src("lib", Table), Obj("lib", Table), Member("lib", Table)}
      /\ \A x \in DOMAIN text : text[x] = {}
  BY DEF Init
<1>2. Program \notin DOMAIN text
  BY <1>1, NamesOfPrograms DEF Program
<1>3. Compiled /\ Whole
  BY <1>1, <1>2 DEF Compiled, Whole
<1>4. Made /\ Seconds /\ Linking /\ MainDone /\ Knowing /\ Remaking
  BY <1>1, <1>2 DEF Made, Seconds, Linking, MainDone, Knowing, Remaking, Making, Started
<1>5. Damage
  BY <1>1 DEF Damage, Broken
<1> QED
  BY <1>3, <1>4, <1>5 DEF Sound

\* What depends on the files only.
LEMMA SameFiles ==
  ASSUME UNCHANGED text, UNCHANGED newer, UNCHANGED calls
  PROVE  /\ \A m, u : Fresh(m, u)' = Fresh(m, u)
         /\ MainFresh' = MainFresh /\ Compiled' = Compiled /\ Behind' = Behind
         /\ Settled' = Settled /\ Whole' = Whole /\ Broken' = Broken
         /\ \A f : IsNext(f)' = IsNext(f)
BY DEF Fresh, MainFresh, Compiled, Behind, Settled, Holds, Whole, Broken, IsNext

LEMMA QuietSound ==
  ASSUME Types, Sound, UNCHANGED text,
         UserRun \/ Tick \/ LibraryMade \/ MakeFails \/ Exec \/ Wait \/ Execute \/ Kill
  PROVE  Sound'
<1>1. UNCHANGED newer /\ UNCHANGED calls /\ now' \in {now, {}}
  BY DEF UserRun, Tick, LibraryMade, MakeFails, Exec, Wait, Execute, Kill, disk
<1>2. /\ \A m, u : Fresh(m, u)' = Fresh(m, u)
      /\ MainFresh' = MainFresh /\ Behind' = Behind /\ Settled' = Settled /\ Broken' = Broken
      /\ \A f : IsNext(f)' = IsNext(f)
      /\ Compiled' /\ Whole'
  BY <1>1, SameFiles DEF Sound
<1>3. Damage' \/ phase' \in {"list", "lines", "make"}
  BY <1>2 DEF Sound, Damage
<1>4. CASE UserRun \/ MakeFails \/ Kill
  <2>1. /\ phase' \in {"run", "idle"} /\ UNCHANGED now
        /\ phase' = "run" => made' = {}
    BY <1>4 DEF UserRun, MakeFails, Kill, StartMake, disk
  <2>2. Made' /\ MainDone' /\ Knowing' /\ Remaking'
    BY <2>1 DEF Made, MainDone, Knowing, Remaking, Making, Started
  <2>3. Seconds'
    BY <1>2, <2>1 DEF Sound, Seconds
  <2>4. Linking'
    BY <1>2, <2>1 DEF Sound, Linking, Making, Started
  <2> QED
    BY <1>2, <1>3, <2>1, <2>2, <2>3, <2>4 DEF Sound
<1>5. CASE Tick
  <2>1. now' = {} /\ UNCHANGED <<phase, known, want, todo, made, unit>>
    BY <1>5 DEF Tick, make
  <2>2. \A m, u : Stale(m, u)' = Stale(m, u)
    BY <2>1 DEF Stale, ModuleOf
  <2>3. Home' = Home /\ Source' = Source /\ List' = List
    BY <2>1 DEF Home, ModuleOf, Source, List
  <2>4. Made' /\ Linking' /\ MainDone' /\ Knowing'
    <3>1. Made'
      BY <1>1, <2>1, <2>3 DEF Sound, Made, Making
    <3>2. Linking'
      BY <1>2, <2>1 DEF Sound, Linking, Making
    <3>3. MainDone' /\ Knowing'
      BY <1>2, <2>1, <2>2, <2>3 DEF Sound, MainDone, Knowing
    <3> QED
      BY <3>1, <3>2, <3>3
  <2>5. Remaking'
    BY <2>1, <2>3 DEF Sound, Remaking, Holds
  <2>6. Seconds'
    BY <2>1 DEF Seconds
  <2>7. Damage'
    BY <1>2, <2>1 DEF Sound, Damage
  <2> QED
    BY <1>2, <2>4, <2>5, <2>6, <2>7 DEF Sound
<1>6. CASE LibraryMade
  <2>1. /\ UpToDate /\ unit = none /\ Head(todo) = "lib" /\ made' = {} /\ unit' = none
        /\ UNCHANGED <<phase, now, known, want>>
    BY <1>6 DEF LibraryMade, StartMake, UpToDate, disk, proc
  <2>2. /\ phase = "make" /\ Home = "lib" /\ todo = <<"lib", "main">> /\ new = {Source, List}
        /\ want \in Function
    BY <2>1 DEF Types, Structure, UpToDate, Making, Home
  <2>3. todo' = <<"main">>
    BY <1>6, <2>2 DEF LibraryMade, StartMake
  <2>4. Home' = Home /\ Source' = Source /\ List' = List
    BY <2>1 DEF Home, ModuleOf, Source, List
  <2>5. Holds(Member(Home, want), want)
    <3>1. Source \in new /\ Source = Src("lib", want) /\ Source \in DOMAIN text
      BY <2>2 DEF Types, Makes, Source, Home
    <3>2. want \in Unit("lib") /\ want # none
      BY <2>2, NamesAssumption DEF Home, Unit
    <3>3. want \in made
      BY <2>1, <3>1, <3>2 DEF UpToDate, Outdated
    <3> QED
      BY <2>1, <2>2, <3>2, <3>3 DEF Sound, Remaking
  <2>6. \A u : ~ Stale("main", u)
    BY <2>2 DEF Stale, Home
  <2>7. Made' /\ MainDone' /\ Knowing' /\ Linking'
    BY <1>2, <2>1, <2>2, <2>6 DEF Sound, Made, MainDone, Knowing, Linking, Making, Started
  <2>8. Remaking'
    BY <2>1, <2>2, <2>4, <2>5 DEF Sound, Remaking, Holds
  <2>9. Seconds'
    BY <1>2, <2>1, <2>2 DEF Sound, Seconds
  <2>10. Damage'
    BY <1>2, <2>1 DEF Sound, Damage
  <2> QED
    BY <1>2, <2>7, <2>8, <2>9, <2>10 DEF Sound
<1>7. CASE Exec \/ Wait \/ Execute
  <2>1. /\ phase \in {"exec", "wait", "execute"}
        /\ phase' \in {"wait", "execute", "source", "exited"}
        /\ UNCHANGED now
    BY <1>7 DEF Exec, Wait, Execute, disk
  <2>2. \A u : ~ Stale("main", u)
    BY <2>1 DEF Stale
  <2>3. Made' /\ MainDone' /\ Linking' /\ Remaking'
    BY <1>2, <2>1, <2>2 DEF Sound, Made, MainDone, Linking, Remaking, Making, Started
  <2>4. Seconds'
    <3>1. Program \in now' => MainFresh'
      BY <1>2, <2>1 DEF Sound, Seconds
    <3>2. CASE Exec
      BY <3>1, <3>2 DEF Exec, Seconds
    <3>3. CASE Wait
      BY <2>1, <3>1, <3>3 DEF Wait, NewTimestamp, Sound, Seconds
    <3>4. CASE Execute
      BY <2>1, <3>1, <3>4 DEF Execute, Sound, Seconds
    <3> QED
      BY <1>7, <3>2, <3>3, <3>4
  <2>5. Knowing'
    <3>1. CASE Exec
      <4>1. phase' = "wait" /\ \A m \in Module : known'[m] = text[App(m)]
        BY <3>1 DEF Exec
      <4> QED
        BY <4>1 DEF Knowing
    <3>2. CASE Wait
      BY <3>2 DEF Wait, proc, Sound, Knowing
    <3>3. CASE Execute
      <4>1. /\ phase = "execute" /\ UNCHANGED known /\ phase' \in {"exited", "source"}
            /\ \A m \in Module : known[m] = text[App(m)]
        BY <3>3 DEF Execute, Sound, Knowing
      <4>2. phase' = "source" => IsNext(want')
        <5> SUFFICES ASSUME phase' = "source" PROVE IsNext(want')
          OBVIOUS
        <5>1. PICK i \in Unknown : (\A j \in Unknown : i <= j) /\ want' = calls[i]
          BY <3>3 DEF Execute
        <5>2. PICK n \in 0 .. MaxCalls : calls \in [1 .. n -> Function]
          BY DEF Types, Structure
        <5>3. \A j \in DOMAIN calls : ModuleOf(calls[j]) \in Module
          BY <5>2, FilesOfUnits
        <5>4. ASSUME NEW j \in DOMAIN calls, j < i
              PROVE  calls[j] \in text[App(ModuleOf(calls[j]))]
          BY <4>1, <5>1, <5>2, <5>3, <5>4, BoundsAssumption DEF Unknown
        <5>5. i \in DOMAIN calls /\ calls[i] \notin text[App(ModuleOf(calls[i]))]
          BY <4>1, <5>1, <5>3 DEF Unknown
        <5> QED
          BY <5>1, <5>4, <5>5 DEF IsNext
      <4>3. phase' = "source" => IsNext(want)'
        BY <1>1, <4>2 DEF IsNext
      <4> QED
        BY <4>1, <4>3 DEF Knowing
    <3> QED
      BY <1>7, <3>1, <3>2, <3>3
  <2> QED
    BY <1>2, <1>3, <2>1, <2>3, <2>4, <2>5 DEF Sound
<1> QED
  BY <1>4, <1>5, <1>6, <1>7

\* The times that a write changes.
LEMMA Touched ==
  ASSUME NEW x, Touch(x)
  PROVE  /\ now' = now \union {x}
         /\ \A e : e \in newer' <=> \/ e \in newer /\ e[2] # x
                                    \/ \E t \in Targets(x) \ now : e = <<x, t>>
BY DEF Touch

LEMMA TargetsOf ==
  /\ \A m, u : Targets(Src(m, u)) = {Obj(m, u)}
  /\ \A u : Targets(Obj("main", u)) = {Program} /\ Targets(Obj("lib", u)) = {}
  /\ Targets(Archive("lib")) = {Program} /\ Targets(Archive("main")) = {}
  /\ \A m : Targets(App(m)) = {}
BY DEF Targets, Src, Obj, Archive, App

\* A file that is no source does not make a source newer than its object, and
\* but for the program it leaves the program out of date if it was.
LEMMA TouchedMade ==
  ASSUME NEW x, Touch(x), \A m, u : x # Src(m, u)
  PROVE  /\ \A m, u : <<Src(m, u), Obj(m, u)>> \in newer' <=>
                        <<Src(m, u), Obj(m, u)>> \in newer /\ Obj(m, u) # x
         /\ Program \in now' => Program \in now \/ Program = x
         /\ x # Program => (Behind => Behind')
         /\ x # Program /\ Program \notin now /\ Program \in Targets(x) => Behind'
         /\ Program \notin Targets(x) => (Behind' => Behind)
<1>1. \A m, u : <<Src(m, u), Obj(m, u)>> \in newer' <=>
                  <<Src(m, u), Obj(m, u)>> \in newer /\ Obj(m, u) # x
  <2> SUFFICES ASSUME NEW m, NEW u
               PROVE  <<Src(m, u), Obj(m, u)>> \in newer' <=>
                        <<Src(m, u), Obj(m, u)>> \in newer /\ Obj(m, u) # x
    OBVIOUS
  <2>1. \A t : <<Src(m, u), Obj(m, u)>> # <<x, t>>
    OBVIOUS
  <2> QED
    BY <2>1, Touched
<1>2. Program \in now' => Program \in now \/ Program = x
  BY Touched
<1>3. x # Program => (Behind => Behind')
  BY Touched DEF Behind
<1>4. x # Program /\ Program \notin now /\ Program \in Targets(x) => Behind'
  <2>1. ASSUME Program \notin now, Program \in Targets(x) PROVE <<x, Program>> \in newer'
    BY <2>1, Touched
  <2> QED
    BY <2>1 DEF Behind
<1>5. Program \notin Targets(x) => (Behind' => Behind)
  BY Touched DEF Behind
<1> QED
  BY <1>1, <1>2, <1>3, <1>4, <1>5

LEMMA CompileSound ==
  ASSUME Types, Sound, Compile
  PROVE  Sound'
<1> DEFINE m == Head(todo)
<1>1. PICK u \in Unit(m) : /\ Outdated(m, u) /\ Src(m, u) \in DOMAIN text
                           /\ DOMAIN text' = DOMAIN text \union {Obj(m, u)}
                           /\ text'[Obj(m, u)] = text[Src(m, u)]
                           /\ \A y \in DOMAIN text : y # Obj(m, u) => text'[y] = text[y]
                           /\ Touch(Obj(m, u))
                           /\ made' = made \union {u} /\ unit' = u
  BY CompileTypes
<1>2. /\ Making /\ unit = none /\ UNCHANGED <<phase, calls>> /\ UNCHANGED <<known, want>>
      /\ UNCHANGED todo
      /\ m \in Module /\ phase \in {"run", "make"} /\ u # none /\ m' = m
  BY MakingModule, FilesOfUnits DEF Compile, proc
<1> HIDE DEF m
<1>3. /\ \A n, v : Obj(m, u) # Src(n, v) /\ Obj(m, u) # Member(n, v) /\ Obj(m, u) # App(n)
      /\ Obj(m, u) # Program
  BY Names, NamesOfPrograms DEF Program
<1>4. /\ \A n, v : /\ Src(n, v) \in DOMAIN text' <=> Src(n, v) \in DOMAIN text
                   /\ Src(n, v) \in DOMAIN text => text'[Src(n, v)] = text[Src(n, v)]
                   /\ Member(n, v) \in DOMAIN text' <=> Member(n, v) \in DOMAIN text
                   /\ Member(n, v) \in DOMAIN text => text'[Member(n, v)] = text[Member(n, v)]
                   /\ App(n) \in DOMAIN text' <=> App(n) \in DOMAIN text
                   /\ App(n) \in DOMAIN text => text'[App(n)] = text[App(n)]
                   /\ ~ (n = m /\ v = u) =>
                        /\ Obj(n, v) \in DOMAIN text' <=> Obj(n, v) \in DOMAIN text
                        /\ Obj(n, v) \in DOMAIN text => text'[Obj(n, v)] = text[Obj(n, v)]
      /\ Program \in DOMAIN text' <=> Program \in DOMAIN text
  <2>1. \A n, v : ~ (n = m /\ v = u) => Obj(n, v) # Obj(m, u)
    BY Names
  <2> QED
    BY <1>1, <1>3, <2>1
<1>5. /\ \A n, v : <<Src(n, v), Obj(n, v)>> \in newer' <=>
                     <<Src(n, v), Obj(n, v)>> \in newer /\ ~ (n = m /\ v = u)
      /\ Program \in now' => Program \in now
      /\ Behind => Behind'
      /\ m = "main" /\ Program \notin now => Behind'
      /\ m = "lib" => (Behind' => Behind)
  BY <1>1, <1>3, TouchedMade, TargetsOf, Names
<1>6. \A n, v : Fresh(n, v) => Fresh(n, v)'
  BY <1>1, <1>4, <1>5 DEF Fresh
<1>7. Fresh(m, u)'
  BY <1>1, <1>2, <1>5 DEF Fresh
<1>8. MainFresh => MainFresh'
  BY <1>6 DEF MainFresh
<1>9. phase = "run" => m = "main" /\ new = {}
  BY DEF Types, Structure, m
<1>10. phase = "run" => ~ MainFresh
  BY <1>1, <1>9 DEF Outdated, MainFresh, Fresh
<1>11. Program \notin now
  BY <1>2, <1>10 DEF Sound, Seconds
<1>12. Home' = Home /\ Source' = Source /\ List' = List
  BY <1>2 DEF Home, ModuleOf, Source, List
<1>13. Compiled'
  <2> SUFFICES ASSUME NEW n \in Module, NEW v \in Unit(n),
                      Src(n, v) \in DOMAIN text', Obj(n, v) \in DOMAIN text',
                      <<Src(n, v), Obj(n, v)>> \notin newer'
               PROVE  text'[Obj(n, v)] = text'[Src(n, v)]
    BY DEF Compiled
  <2>1. CASE n = m /\ v = u
    BY <1>1, <1>4, <2>1
  <2>2. CASE ~ (n = m /\ v = u)
    BY <1>4, <1>5, <2>2 DEF Sound, Compiled
  <2> QED
    BY <2>1, <2>2
<1>14. Made'
  <2>1. ASSUME NEW v \in made'
        PROVE  Src(m, v) \in DOMAIN text' /\ <<Src(m, v), Obj(m, v)>> \notin newer'
    <3>1. CASE v = u
      BY <1>1, <1>4, <1>5, <3>1
    <3>2. CASE v \in made
      BY <1>2, <1>4, <1>5, <3>2 DEF Sound, Made, m
    <3> QED
      BY <1>1, <3>1, <3>2
  <2>2. ASSUME phase = "make", m = "main" PROVE Home = "main" /\ u \in {want, Table}
    <3>1. CASE Src(m, u) \in new
      BY <2>2, <3>1, Names DEF Types, Structure, Source, List, Home
    <3>2. CASE Src(m, u) \notin new
      <4>1. ~ Fresh("main", u)
        BY <1>1, <2>2, <3>2 DEF Outdated, Fresh
      <4>2. Stale("main", u)
        BY <1>1, <2>2, <4>1 DEF Sound, MainDone
      <4> QED
        BY <4>2 DEF Stale, Home
    <3> QED
      BY <3>1, <3>2
  <2> QED
    BY <1>1, <1>2, <1>12, <2>1, <2>2 DEF Sound, Made, m
<1>15. Seconds'
  BY <1>2, <1>5, <1>8, <1>11 DEF Seconds
<1>16. Program \in DOMAIN text /\ Settled => Settled'
  BY <1>4, FilesOfUnits DEF Settled, Holds, Types, Structure
<1>17. Linking'
  <2>1. m = "main" => Behind'
    BY <1>5, <1>11
  <2>2. Program \in DOMAIN text' /\ ~ Behind' => Settled'
    BY <1>2, <1>4, <1>5, <1>16, <2>1, FilesOfUnits DEF Sound, Linking
  <2> QED
    BY <1>2, <2>1, <2>2 DEF Linking, Started, m
<1>18. MainDone'
  <2> SUFFICES ASSUME phase = "make", NEW v \in Unit("main")
               PROVE  Fresh("main", v)' \/ Stale("main", v)'
    BY <1>2 DEF MainDone, Started
  <2>1. Fresh("main", v) \/ Stale("main", v)
    BY DEF Sound, MainDone
  <2>2. CASE m = "main" /\ v = u
    BY <1>2, <1>7, <2>2
  <2>3. CASE ~ (m = "main" /\ v = u)
    <3>1. Stale("main", v) => Stale("main", v)'
      BY <1>1, <1>2, <2>3 DEF Stale, ModuleOf, m
    <3> QED
      BY <1>6, <2>1, <3>1
  <2> QED
    BY <2>2, <2>3
<1>19. Knowing'
  BY <1>2 DEF Knowing
<1>20. Damage'
  <2>1. Broken = {}
    BY <1>2, <1>10 DEF Sound, Damage
  <2>2. Broken' = Broken
    BY <1>4 DEF Broken
  <2> QED
    BY <2>1, <2>2 DEF Damage
<1>21. Whole'
  BY <1>4, FilesOfUnits DEF Sound, Whole, Types, Structure
<1>22. Remaking'
  <2> SUFFICES ASSUME phase = "make"
               PROVE  /\ text'[Source] = {want} /\ Program \in DOMAIN text'
                      /\ text'[List] = text'[App(Home)] \union {want}
                      /\ \A n \in Module :
                           /\ \A f \in text'[App(n)] : Holds(Member(n, f), f)'
                           /\ Member(n, Table) \in DOMAIN text'
                           /\ \A f \in text'[Member(n, Table)] :
                                f \in text'[App(n)] \/ (n = Home /\ f = want)
                      /\ m # Home \/ (want \in made' /\ unit' # want) =>
                           Holds(Member(Home, want), want)'
    BY <1>2, <1>12 DEF Remaking, m
  <2>1. /\ Source = Src(Home, want) /\ List = Src(Home, Table) /\ Home \in Module
        /\ Source \in DOMAIN text /\ List \in DOMAIN text
    BY FilesOfUnits DEF Types, Structure, Makes, Source, List, Home
  <2>2. \A n \in Module : App(n) \in DOMAIN text
    BY FilesOfUnits DEF Sound, Remaking, Types, Structure
  <2>3. \A n, f : Holds(Member(n, f), f) => Holds(Member(n, f), f)'
    BY <1>4 DEF Holds
  <2>4. want \in made' /\ unit' # want => want \in made /\ unit # want
    BY <1>1, <1>2, NamesAssumption DEF Types, Structure
  <2>5. /\ text[Source] = {want} /\ Program \in DOMAIN text
        /\ text[List] = text[App(Home)] \union {want}
        /\ \A n \in Module :
             /\ \A f \in text[App(n)] : Holds(Member(n, f), f)
             /\ Member(n, Table) \in DOMAIN text
             /\ \A f \in text[Member(n, Table)] : f \in text[App(n)] \/ (n = Home /\ f = want)
        /\ m # Home \/ (want \in made /\ unit # want) => Holds(Member(Home, want), want)
    BY DEF Sound, Remaking, m
  <2>6. Holds(Member(Home, want), want) => Holds(Member(Home, want), want)'
    BY <1>2, <1>4, <1>12 DEF Holds
  <2>7. \A n \in Module : text'[App(n)] = text[App(n)]
    BY <1>4, <2>2
  <2>8. /\ text'[Source] = {want} /\ Program \in DOMAIN text'
        /\ text'[List] = text'[App(Home)] \union {want}
    BY <1>4, <2>1, <2>5, <2>7
  <2>9. ASSUME NEW n \in Module
        PROVE  /\ \A f \in text'[App(n)] : Holds(Member(n, f), f)'
               /\ Member(n, Table) \in DOMAIN text'
               /\ text'[Member(n, Table)] = text[Member(n, Table)]
    BY <1>4, <2>3, <2>5, <2>7
  <2> QED
    BY <2>4, <2>5, <2>6, <2>7, <2>8, <2>9
<1> QED
  BY <1>13, <1>14, <1>15, <1>17, <1>18, <1>19, <1>20, <1>21, <1>22 DEF Sound

LEMMA ArchivedSound ==
  ASSUME Types, Sound, Archived
  PROVE  Sound'
<1> DEFINE m == Head(todo)
           x == Member(m, unit)
<1>1. /\ Making /\ unit \in Unit(m) /\ Obj(m, unit) \in DOMAIN text
      /\ DOMAIN text' = DOMAIN text \union {x} /\ text'[x] = text[Obj(m, unit)]
      /\ \A y \in DOMAIN text : y # x => text'[y] = text[y]
  BY ArchivedTypes
<1>2. /\ unit # none /\ unit' = none /\ Touch(Archive(m))
      /\ UNCHANGED <<phase, calls>> /\ UNCHANGED <<known, want>> /\ UNCHANGED <<todo, made>>
      /\ m \in Module /\ phase \in {"run", "make"} /\ m' = m /\ unit \in made
  BY MakingModule DEF Archived, proc, Types, Makes
<1> HIDE DEF m
<1>3. /\ \A n, v : x # Src(n, v) /\ x # Obj(n, v) /\ x # App(n)
      /\ x # Program /\ Archive(m) # Program
      /\ \A n, v : Archive(m) # Src(n, v) /\ Archive(m) # Obj(n, v)
  BY Names, NamesOfPrograms DEF Program
<1> HIDE DEF x
<1>4. /\ \A n, v : /\ Src(n, v) \in DOMAIN text' <=> Src(n, v) \in DOMAIN text
                   /\ Src(n, v) \in DOMAIN text => text'[Src(n, v)] = text[Src(n, v)]
                   /\ Obj(n, v) \in DOMAIN text' <=> Obj(n, v) \in DOMAIN text
                   /\ Obj(n, v) \in DOMAIN text => text'[Obj(n, v)] = text[Obj(n, v)]
                   /\ App(n) \in DOMAIN text' <=> App(n) \in DOMAIN text
                   /\ App(n) \in DOMAIN text => text'[App(n)] = text[App(n)]
                   /\ ~ (n = m /\ v = unit) =>
                        /\ Member(n, v) \in DOMAIN text' <=> Member(n, v) \in DOMAIN text
                        /\ Member(n, v) \in DOMAIN text => text'[Member(n, v)] = text[Member(n, v)]
      /\ Program \in DOMAIN text' <=> Program \in DOMAIN text
  <2>1. \A n, v : ~ (n = m /\ v = unit) => Member(n, v) # x
    BY Names DEF x
  <2> QED
    BY <1>1, <1>3, <2>1
<1>5. /\ \A n, v : <<Src(n, v), Obj(n, v)>> \in newer' <=> <<Src(n, v), Obj(n, v)>> \in newer
      /\ Program \in now' => Program \in now
      /\ Behind => Behind'
      /\ m = "lib" /\ Program \notin now => Behind'
  BY <1>2, <1>3, TouchedMade, TargetsOf
<1>6. \A n, v : Fresh(n, v)' = Fresh(n, v)
  BY <1>4, <1>5 DEF Fresh
<1>7. MainFresh' = MainFresh
  BY <1>6 DEF MainFresh
<1>8. Home' = Home /\ Source' = Source /\ List' = List /\ \A n, v : Stale(n, v)' = Stale(n, v)
  BY <1>2 DEF Home, ModuleOf, Source, List, Stale
<1>9. phase = "run" => m = "main"
  BY DEF Types, Structure, m
<1>10. /\ Src(m, unit) \in DOMAIN text
       /\ text'[x] = text[Src(m, unit)]
  BY <1>1, <1>2 DEF Sound, Made, Compiled, m
<1>11. Behind'
  <2>1. CASE m = "main"
    BY <1>1, <1>2, <1>5, <2>1 DEF Sound, Linking, m
  <2>2. CASE m = "lib"
    BY <1>2, <1>5, <1>9, <2>2 DEF Sound, Seconds
  <2> QED
    BY <1>2, <2>1, <2>2, FilesOfUnits
<1>12. Compiled' /\ Made'
  <2>1. Compiled'
    BY <1>4, <1>5 DEF Sound, Compiled
  <2>2. Made'
    BY <1>2, <1>4, <1>5, <1>8 DEF Sound, Made, Making, m
  <2> QED
    BY <2>1, <2>2
<1>13. Seconds'
  BY <1>2, <1>5, <1>7 DEF Sound, Seconds
<1>14. Linking' /\ MainDone' /\ Knowing'
  <2>1. Linking'
    BY <1>2, <1>11 DEF Linking, Started
  <2>2. MainDone'
    BY <1>2, <1>6, <1>8 DEF Sound, MainDone
  <2>3. Knowing'
    BY <1>2 DEF Knowing
  <2> QED
    BY <2>1, <2>2, <2>3
<1>15. Damage'
  <2>1. Broken = {}
    BY <1>2, <1>9, <1>1 DEF Sound, Damage, Linking, m
  <2>2. Broken' = Broken
    BY <1>4 DEF Broken
  <2> QED
    BY <2>1, <2>2 DEF Damage
<1>16. ASSUME phase = "make"
       PROVE  /\ Source = Src(Home, want) /\ List = Src(Home, Table) /\ Home \in Module
              /\ text[Source] = {want} /\ Program \in DOMAIN text
              /\ text[List] = text[App(Home)] \union {want}
              /\ \A n \in Module : App(n) \in DOMAIN text
              /\ want \in Function /\ want # Table
              /\ m = "lib" => Home = "lib"
  BY <1>16, FilesOfUnits, NamesAssumption
  DEF Sound, Remaking, Types, Structure, Source, List, Home, m
<1>17. Whole'
  <2> SUFFICES ASSUME NEW f \in Function,
                      \/ Member("lib", Table) \in DOMAIN text' /\ f \in text'[Member("lib", Table)]
                      \/ Program \in DOMAIN text' /\ f \in text'[App("lib")]
               PROVE  Src("lib", f) \in DOMAIN text' /\ text'[Src("lib", f)] = {f}
    BY DEF Whole
  <2>1. Program \in DOMAIN text => App("lib") \in DOMAIN text
    BY DEF Types, Structure
  <2>2. CASE Program \in DOMAIN text /\ f \in text[App("lib")]
    BY <1>4, <2>2 DEF Sound, Whole
  <2>3. CASE m = "lib" /\ unit = Table /\ f \in text'[Member("lib", Table)]
    <3>1. phase = "make"
      BY <1>2, <1>9, <2>3
    <3>2. f \in text[App("lib")] \/ f = want
      BY <1>10, <1>16, <2>3, <3>1 DEF x
    <3>3. Src("lib", want) \in DOMAIN text /\ text[Src("lib", want)] = {want}
      BY <1>16, <2>3, <3>1 DEF Types, Structure, Makes
    <3> QED
      BY <1>4, <1>16, <2>2, <3>1, <3>2, <3>3
  <2>4. CASE ~ (m = "lib" /\ unit = Table)
    BY <1>4, <2>1, <2>2, <2>4 DEF Sound, Whole
  <2> QED
    BY <1>4, <2>1, <2>2, <2>3, <2>4
<1>18. Remaking'
  <2> SUFFICES ASSUME phase = "make"
               PROVE  /\ text'[Source] = {want} /\ Program \in DOMAIN text'
                      /\ text'[List] = text'[App(Home)] \union {want}
                      /\ \A n \in Module :
                           /\ \A f \in text'[App(n)] : Holds(Member(n, f), f)'
                           /\ Member(n, Table) \in DOMAIN text'
                           /\ \A f \in text'[Member(n, Table)] :
                                f \in text'[App(n)] \/ (n = Home /\ f = want)
                      /\ m # Home \/ want \in made => Holds(Member(Home, want), want)'
    BY <1>2, <1>8 DEF Remaking, m
  <2>1. /\ Source = Src(Home, want) /\ List = Src(Home, Table) /\ Home \in Module
        /\ text[Source] = {want} /\ Program \in DOMAIN text
        /\ text[List] = text[App(Home)] \union {want}
        /\ \A n \in Module : App(n) \in DOMAIN text
        /\ want \in Function /\ want # Table
        /\ Source \in DOMAIN text /\ List \in DOMAIN text
    BY <1>16 DEF Types, Structure, Makes
  <2>2. /\ \A n \in Module :
             /\ \A f \in text[App(n)] : Holds(Member(n, f), f)
             /\ Member(n, Table) \in DOMAIN text
             /\ \A f \in text[Member(n, Table)] : f \in text[App(n)] \/ (n = Home /\ f = want)
        /\ m # Home \/ (want \in made /\ unit # want) => Holds(Member(Home, want), want)
    BY DEF Sound, Remaking, m
  <2>3. \A n \in Module : text'[App(n)] = text[App(n)]
    BY <1>4, <2>1
  <2>4. /\ text'[Source] = {want} /\ Program \in DOMAIN text'
        /\ text'[List] = text'[App(Home)] \union {want}
    BY <1>4, <2>1, <2>3
  <2>5. \A n, f : ~ (n = m /\ f = unit) /\ Holds(Member(n, f), f) => Holds(Member(n, f), f)'
    BY <1>4 DEF Holds
  \* what was archived
  <2>6. \/ unit = Table /\ m = Home
        \/ unit = want /\ m = Home
        \/ m = "lib" /\ Home = "lib" /\ unit # Table /\ unit # want
    <3>1. m = "main" => Home = "main" /\ unit \in {want, Table}
      BY <1>2 DEF Sound, Made, m
    <3>2. m = "lib" => Home = "lib"
      BY <1>16
    <3> QED
      BY <1>2, <3>1, <3>2, FilesOfUnits
  <2>7. ASSUME NEW n \in Module, NEW f \in text'[App(n)] PROVE Holds(Member(n, f), f)'
    <3>1. Holds(Member(n, f), f)
      BY <2>2, <2>3, <2>7
    <3>2. CASE n = m /\ f = unit
      <4>1. f # Table
        BY <2>3, <2>1, <2>7, Names, NamesAssumption DEF Types, Texts
      <4>2. CASE unit = want /\ m = Home
        <5>1. x \in DOMAIN text' /\ f \in text'[x]
          BY <1>1, <1>10, <2>1, <3>2, <4>2
        <5> QED
          BY <3>2, <5>1 DEF Holds, x
      <4>3. CASE m = "lib" /\ Home = "lib" /\ unit # Table /\ unit # want
        <5>1. f \in Function /\ text[Src("lib", f)] = {f}
          BY <1>1, <2>1, <2>3, <2>7, <3>2, <4>1, <4>3, FilesOfUnits DEF Sound, Whole
        <5>2. x \in DOMAIN text' /\ f \in text'[x]
          BY <1>1, <1>10, <3>2, <4>3, <5>1
        <5> QED
          BY <3>2, <5>2 DEF Holds, x
      <4> QED
        BY <2>6, <3>2, <4>1, <4>2, <4>3
    <3>3. CASE ~ (n = m /\ f = unit)
      BY <2>5, <3>1, <3>3
    <3> QED
      BY <3>2, <3>3
  <2>8. ASSUME NEW n \in Module
        PROVE  /\ Member(n, Table) \in DOMAIN text'
               /\ \A f \in text'[Member(n, Table)] : f \in text'[App(n)] \/ (n = Home /\ f = want)
    <3>1. CASE n = m /\ unit = Table
      <4>1. m = Home
        BY <2>1, <2>6, <3>1
      <4>2. x = Member(n, Table)
        BY <3>1 DEF x
      <4> QED
        BY <1>1, <1>10, <2>1, <2>3, <3>1, <4>1, <4>2
    <3>2. CASE ~ (n = m /\ unit = Table)
      BY <1>4, <2>2, <2>3, <3>2
    <3> QED
      BY <3>1, <3>2
  <2>9. m # Home \/ want \in made => Holds(Member(Home, want), want)'
    <3>1. CASE Home = m /\ unit = want
      <4>1. x \in DOMAIN text' /\ want \in text'[x] /\ x = Member(Home, want)
        BY <1>1, <1>10, <2>1, <3>1 DEF x
      <4> QED
        BY <1>2, <1>8, <4>1 DEF Holds
    <3>2. CASE ~ (Home = m /\ unit = want)
      <4>1. m # Home \/ want \in made => Holds(Member(Home, want), want)
        BY <2>2, <3>2
      <4>2. ~ (Home = m /\ want = unit)
        BY <3>2
      <4>3. Holds(Member(Home, want), want) => Holds(Member(Home, want), want)'
        BY <1>2, <1>4, <1>8, <4>2 DEF Holds
      <4> QED
        BY <4>1, <4>3
    <3> QED
      BY <3>1, <3>2
  <2> QED
    BY <2>4, <2>7, <2>8, <2>9
<1> QED
  BY <1>12, <1>13, <1>14, <1>15, <1>17, <1>18 DEF Sound

LEMMA ProgramMadeSound ==
  ASSUME Types, Sound, ProgramMade
  PROVE  Sound'
<1>1. /\ UpToDate /\ Making /\ unit = none /\ Head(todo) = "main" /\ phase \in {"run", "make"}
      /\ phase' \in {"idle", "exec"} /\ UNCHANGED calls
  BY DEF ProgramMade, UpToDate, Making
<1>2. MainFresh
  <2> SUFFICES ASSUME NEW u \in Unit("main"), Src("main", u) \in DOMAIN text
               PROVE  Obj("main", u) \in DOMAIN text /\ <<Src("main", u), Obj("main", u)>> \notin newer
    BY DEF MainFresh, Fresh
  <2>1. CASE u \in made
    BY <1>1, <2>1 DEF Sound, Made, Types, Structure
  <2>2. CASE u \notin made
    BY <1>1, <2>2 DEF UpToDate, Outdated
  <2> QED
    BY <2>1, <2>2
<1>3. Made' /\ Knowing' /\ Remaking'
  BY <1>1 DEF Made, Knowing, Remaking, Making
<1>4. CASE ~ LinkNeeded
  <2>1. UNCHANGED disk /\ Program \in DOMAIN text /\ ~ Behind
    BY <1>4 DEF ProgramMade, LinkNeeded, Behind
  <2>2. UNCHANGED text /\ UNCHANGED newer /\ UNCHANGED now
    BY <2>1 DEF disk
  <2>3. /\ \A m, u : Fresh(m, u)' = Fresh(m, u)
        /\ MainFresh' = MainFresh /\ Behind' = Behind /\ Settled' = Settled /\ Broken' = Broken
        /\ \A f : IsNext(f)' = IsNext(f)
        /\ Compiled' /\ Whole'
    BY <1>1, <2>2, SameFiles DEF Sound
  <2>4. Seconds' /\ MainDone'
    BY <1>1, <1>2, <2>3 DEF Seconds, MainDone, MainFresh
  <2>5. Linking' /\ Damage'
    BY <1>1, <2>1, <2>2, <2>3 DEF Sound, Linking, Damage, Making
  <2> QED
    BY <1>3, <2>3, <2>4, <2>5 DEF Sound
<1>5. CASE LinkNeeded
  <2>1. /\ Resolved /\ Touch(Program)
        /\ \A m \in Module : App(m) \in DOMAIN text' /\ text'[App(m)] = text[Member(m, Table)]
        /\ Program \in DOMAIN text'
    BY <1>5, ProgramMadeTypes, FilesOfUnits DEF ProgramMade
  <2>2. \A m \in Module : \A u : \A x \in {Src(m, u), Obj(m, u), Member(m, u)} :
          /\ x \in DOMAIN text' <=> x \in DOMAIN text
          /\ x \in DOMAIN text => text'[x] = text[x]
    BY ProgramMadeTypes
  <2>3. \A m, u : Program # Src(m, u) /\ Program # Obj(m, u)
    BY NamesOfPrograms DEF Program
  <2>4. \A m, u : <<Src(m, u), Obj(m, u)>> \in newer' <=> <<Src(m, u), Obj(m, u)>> \in newer
    BY <2>1, <2>3, TouchedMade
  <2>5. ~ Behind'
    <3>1. Targets(Program) = {}
      BY TargetsOf DEF Program
    <3> QED
      BY <2>1, <3>1, Touched DEF Behind
  <2>6. \A m \in Module : \A u : Fresh(m, u)' = Fresh(m, u)
    BY <2>2, <2>4 DEF Fresh
  <2>7. MainFresh'
    BY <1>2, <2>6, FilesOfUnits DEF MainFresh
  <2>8. Compiled'
    BY <2>2, <2>4 DEF Sound, Compiled
  <2>9. Seconds' /\ MainDone'
    BY <1>1, <2>7 DEF Seconds, MainDone, MainFresh
  <2>10. Settled'
    <3> SUFFICES ASSUME NEW m \in Module
                 PROVE  /\ Member(m, Table) \in DOMAIN text'
                        /\ text'[App(m)] = text'[Member(m, Table)]
                        /\ \A f \in text'[App(m)] : Holds(Member(m, f), f)'
      BY DEF Settled
    <3>1. /\ Member(m, Table) \in DOMAIN text
          /\ \A f \in text[Member(m, Table)] : Holds(Member(m, f), f)
      BY <2>1 DEF Resolved
    <3> QED
      BY <2>1, <2>2, <3>1 DEF Holds
  <2>11. Linking'
    BY <1>1, <2>1, <2>5, <2>10 DEF Linking, Making
  <2>12. Damage'
    <3>1. ASSUME NEW f \in Broken PROVE FALSE
      <4>1. Program \in DOMAIN text /\ ~ Behind
        BY <3>1 DEF Sound, Damage
      <4> QED
        BY <1>1, <1>5, <4>1 DEF Sound, Linking, LinkNeeded, Behind
    <3>2. Broken' = Broken
      BY <2>2, FilesOfUnits DEF Broken
    <3> QED
      BY <3>1, <3>2 DEF Damage
  <2>13. Whole'
    BY <2>1, <2>2, FilesOfUnits DEF Sound, Whole, Resolved
  <2> QED
    BY <1>3, <2>8, <2>9, <2>11, <2>12, <2>13 DEF Sound
<1> QED
  BY <1>4, <1>5

\* The next function is one, and it is not known.
LEMMA NextOnce ==
  ASSUME Types, NEW f, IsNext(f), NEW g, IsNext(g)
  PROVE  f = g /\ f \notin text[App(ModuleOf(f))]
<1>1. PICK n \in 0 .. MaxCalls : calls \in [1 .. n -> Function]
  BY DEF Types, Structure
<1>2. PICK i \in DOMAIN calls :
        /\ calls[i] = f /\ f \notin text[App(ModuleOf(f))]
        /\ \A j \in DOMAIN calls : j < i => calls[j] \in text[App(ModuleOf(calls[j]))]
  BY DEF IsNext
<1>3. PICK k \in DOMAIN calls :
        /\ calls[k] = g /\ g \notin text[App(ModuleOf(g))]
        /\ \A j \in DOMAIN calls : j < k => calls[j] \in text[App(ModuleOf(calls[j]))]
  BY DEF IsNext
<1>4. ~ (i < k) /\ ~ (k < i)
  BY <1>2, <1>3
<1>5. i \in Int /\ k \in Int
  BY <1>1, BoundsAssumption
<1> QED
  BY <1>2, <1>3, <1>4, <1>5

\* The program writes a source or a list, in a second of its own.
LEMMA SourceWritten ==
  ASSUME Types, Sound, phase \in {"source", "text", "list", "lines"}, UNCHANGED calls,
         NEW x \in {Source, List}, NEW s \in SUBSET (Function \union {Error}), Write(x, s)
  PROVE  /\ \A m, u : Src(m, u) # x => Fresh(m, u)' = Fresh(m, u)
         /\ Compiled' /\ Behind' = Behind
         /\ (\A y \in now' : y[1] = "src") /\ Program \notin now'
         /\ Program \in DOMAIN text' /\ ~ Behind' /\ Settled' /\ Settled
         /\ \A m \in Module : /\ App(m) \in DOMAIN text' /\ text'[App(m)] = text[App(m)]
                              /\ Member(m, Table) \in DOMAIN text
                              /\ text'[Member(m, Table)] = text[Member(m, Table)]
         /\ \A f \in Function : IsNext(f) => IsNext(f)'
<1>1. /\ Program # x /\ DOMAIN text' = DOMAIN text \union {x} /\ text'[x] = s
      /\ \A y \in DOMAIN text : y # x => text'[y] = text[y]
  BY Written
<1>2. PICK n, w : x = Src(n, w)
  BY DEF Source, List
<1>3. \A m, u : x # Obj(m, u) /\ x # Member(m, u) /\ x # App(m)
  BY <1>2, Names, NamesOfPrograms
<1>4. \A y \in now : y[1] = "src"
  BY DEF Sound, Seconds
<1>5. Touch(x) /\ Targets(x) = {Obj(n, w)} /\ Obj(n, w) \notin now /\ Obj(n, w) # Program
  BY <1>2, <1>4, TargetsOf, Names, NamesOfPrograms DEF Write, Program
<1>6. \A m, u : <<Src(m, u), Obj(m, u)>> \in newer' <=>
                  <<Src(m, u), Obj(m, u)>> \in newer \/ Src(m, u) = x
  <2> SUFFICES ASSUME NEW m, NEW u
               PROVE  <<Src(m, u), Obj(m, u)>> \in newer' <=>
                        <<Src(m, u), Obj(m, u)>> \in newer \/ Src(m, u) = x
    OBVIOUS
  <2>1. Src(m, u) = x => Obj(m, u) = Obj(n, w)
    BY <1>2, Names
  <2>2. Obj(m, u) # x
    BY <1>3
  <2> QED
    BY <1>5, <2>1, <2>2, Touched
<1>7. Behind' = Behind
  BY <1>1, <1>5, Touched DEF Behind
<1>8. (\A y \in now' : y[1] = "src") /\ Program \notin now'
  <2>1. Program[1] # "src" /\ x[1] = "src"
    BY <1>2, Names DEF Program
  <2> QED
    BY <1>4, <1>5, <2>1, Touched
<1>9. \A m, u : Src(m, u) # x => Fresh(m, u)' = Fresh(m, u)
  BY <1>1, <1>3, <1>6 DEF Fresh
<1>10. Compiled'
  <2> SUFFICES ASSUME NEW m \in Module, NEW u \in Unit(m),
                      Src(m, u) \in DOMAIN text', Obj(m, u) \in DOMAIN text',
                      <<Src(m, u), Obj(m, u)>> \notin newer'
               PROVE  text'[Obj(m, u)] = text'[Src(m, u)]
    BY DEF Compiled
  <2>1. Src(m, u) # x /\ <<Src(m, u), Obj(m, u)>> \notin newer
    BY <1>6
  <2> QED
    BY <1>1, <1>3, <2>1 DEF Sound, Compiled
<1>11. Program \in DOMAIN text /\ ~ Behind /\ Settled
  BY DEF Sound, Linking, Started
<1>12. \A m \in Module : /\ App(m) \in DOMAIN text' /\ text'[App(m)] = text[App(m)]
                         /\ Member(m, Table) \in DOMAIN text
                         /\ text'[Member(m, Table)] = text[Member(m, Table)]
  BY <1>1, <1>3, <1>11, FilesOfUnits DEF Settled, Types, Structure
<1>13. Settled'
  <2>1. \A m, f : Holds(Member(m, f), f) => Holds(Member(m, f), f)'
    BY <1>1, <1>3 DEF Holds
  <2> QED
    BY <1>1, <1>11, <1>12, <2>1 DEF Settled
<1>14. \A f \in Function : IsNext(f) => IsNext(f)'
  <2>1. PICK k \in 0 .. MaxCalls : calls \in [1 .. k -> Function]
    BY DEF Types, Structure
  <2>2. \A f \in Function : text'[App(ModuleOf(f))] = text[App(ModuleOf(f))]
    BY <1>12, FilesOfUnits
  <2> QED
    BY <2>1, <2>2 DEF IsNext
<1> QED
  BY <1>1, <1>7, <1>8, <1>9, <1>10, <1>11, <1>12, <1>13, <1>14

LEMMA TransmulateSound ==
  ASSUME Types, Sound, Transmulate \/ TranslateThrows
  PROVE  Sound'
<1>1. phase \in {"source", "text", "list", "lines"} /\ UNCHANGED calls /\ UNCHANGED want
  BY DEF Transmulate, OpenSource, FlushSource, CloseSource, OpenList, FlushList, CloseList,
         TranslateThrows, proc
<1>2. /\ Source = Src(Home, want) /\ List = Src(Home, Table) /\ Source # List
      /\ want \in Function /\ want # Table /\ want # Error /\ Home \in Module
      /\ known[Home] \subseteq Function /\ known \in [Module -> SUBSET Function]
  BY <1>1, Writing, Names, NamesAssumption DEF Source, List, Home, Types, Processes
<1>3. Home' = Home /\ Source' = Source /\ List' = List
  BY <1>1 DEF Home, ModuleOf, Source, List
<1>4. IsNext(want) /\ want \notin text[App(Home)]
  BY <1>1, NextOnce DEF Sound, Knowing, Home
<1>5. \A m \in Module : \A u : Stale(m, u) => m = Home /\ u \in {want, Table}
  BY DEF Stale, Home
<1>6. CASE OpenSource \/ FlushSource \/ CloseSource \/ TranslateThrows
  <2>1. PICK s \in SUBSET (Function \union {Error}) :
          /\ Write(Source, s)
          /\ phase' = "list" => s = {want}
    BY <1>2, <1>6 DEF OpenSource, FlushSource, CloseSource, TranslateThrows, Translation
  <2>2. /\ phase \in {"source", "text"} /\ phase' \in {"text", "list", "idle"} /\ ~ Making'
        /\ phase' = "text" => UNCHANGED known
        /\ phase' = "list" => known' = [known EXCEPT ![Home] = @ \union {want}]
    BY <1>6 DEF OpenSource, FlushSource, CloseSource, TranslateThrows, Making, Home, proc
  <2>3. /\ DOMAIN text' = DOMAIN text \union {Source} /\ text'[Source] = s
        /\ \A y \in DOMAIN text : y # Source => text'[y] = text[y]
    BY <1>1, <2>1, Written
  <2>4. /\ \A m, u : Src(m, u) # Source => Fresh(m, u)' = Fresh(m, u)
        /\ Compiled' /\ (\A y \in now' : y[1] = "src") /\ Program \notin now'
        /\ Program \in DOMAIN text' /\ ~ Behind' /\ Settled' /\ Settled
        /\ \A m \in Module : text'[App(m)] = text[App(m)]
        /\ \A f \in Function : IsNext(f) => IsNext(f)'
    BY <1>1, <2>1, SourceWritten
  <2>5. Made' /\ Seconds' /\ Linking'
    BY <2>2, <2>4 DEF Made, Seconds, Linking
  <2>6. \A u \in Unit("main") : Src("main", u) # Source => Fresh("main", u)'
    <3> SUFFICES ASSUME NEW u \in Unit("main"), Src("main", u) # Source
                 PROVE  Fresh("main", u)
      BY <2>4
    <3>1. ~ Stale("main", u)
      BY <1>2, <2>2 DEF Stale, Home
    <3> QED
      BY <2>2, <3>1 DEF Sound, MainDone, Started
  <2>7. MainDone'
    <3>1. ASSUME NEW u \in Unit("main"), phase' \in Started \union {"make"}, Src("main", u) = Source
          PROVE  Stale("main", u)'
      <4>1. Home = "main" /\ u = want /\ phase' \in {"text", "list"}
        BY <1>2, <2>2, <3>1, Names DEF Started
      <4> QED
        BY <1>1, <4>1 DEF Stale, Home, ModuleOf
    <3> QED
      BY <2>6, <3>1 DEF MainDone
  <2>8. Knowing'
    <3>1. IsNext(want)'
      <4>1. PICK f \in Function : f = want
        BY <1>2
      <4>2. IsNext(f)'
        BY <1>4, <2>4, <4>1
      <4> QED
        BY <1>1, <4>1, <4>2 DEF IsNext
    <3>2. \A m \in Module : known[m] = text[App(m)]
      BY <2>2 DEF Sound, Knowing
    <3>3. phase' = "text" => \A m \in Module : known'[m] = text'[App(m)]
      BY <2>2, <2>4, <3>2
    <3>4. phase' = "list" => known'[Home] = text'[App(Home)] \union {want}
      BY <1>2, <2>2, <2>4, <3>2
    <3> QED
      BY <1>1, <1>3, <2>2, <3>1, <3>3, <3>4 DEF Knowing
  <2>9. Damage'
    <3> SUFFICES ASSUME NEW f \in Broken'
                 PROVE  IsNext(f)' /\ MainFresh' /\ phase' # "list"
      BY <2>2, <2>4 DEF Damage
    <3>1. f \in Function /\ ModuleOf(f) = "lib" /\ Error \in text'[Src("lib", f)]
          /\ Src("lib", f) \in DOMAIN text'
      BY DEF Broken
    <3>2. f = want
      <4>1. ASSUME Src("lib", f) # Source PROVE f \in Broken
        BY <2>3, <3>1, <4>1 DEF Broken
      <4>2. f \in Broken => f = want
        BY <1>4, NextOnce DEF Sound, Damage
      <4> QED
        BY <1>2, <4>1, <4>2, Names
    <3>3. Home = "lib" /\ Src("lib", f) = Source
      BY <1>2, <3>1, <3>2 DEF Home
    <3>4. MainFresh'
      BY <1>2, <2>6, <3>3, Names DEF MainFresh
    <3>5. phase' # "list"
      BY <1>2, <2>1, <2>3, <3>1, <3>3
    <3> QED
      BY <1>2, <1>4, <2>4, <3>2, <3>4, <3>5
  <2>10. Whole'
    <3> SUFFICES ASSUME NEW f \in Function,
                        \/ f \in text'[Member("lib", Table)]
                        \/ f \in text'[App("lib")]
                 PROVE  Src("lib", f) \in DOMAIN text' /\ text'[Src("lib", f)] = {f}
      BY DEF Whole
    <3>1. f \in text[App("lib")]
      BY <2>4, FilesOfUnits DEF Settled
    <3>2. Src("lib", f) \in DOMAIN text /\ text[Src("lib", f)] = {f}
      BY <1>1, <3>1 DEF Sound, Linking, Started, Whole
    <3>3. Src("lib", f) # Source
      BY <1>2, <1>4, <3>1, Names
    <3> QED
      BY <2>3, <3>2, <3>3
  <2>11. Remaking'
    BY <1>1, <1>3, <2>1, <2>2, <2>3 DEF Remaking
  <2> QED
    BY <2>4, <2>5, <2>7, <2>8, <2>9, <2>10, <2>11 DEF Sound
<1>7. CASE OpenList \/ FlushList \/ CloseList
  <2>1. /\ phase \in {"list", "lines"} /\ phase' \in {"lines", "make"} /\ UNCHANGED known
        /\ \E s \in SUBSET (Function \union {Error}) : Write(List, s)
    <3>1. CASE OpenList
      BY <3>1 DEF OpenList, proc
    <3>2. CASE FlushList
      <4>1. PICK part \in SUBSET (known[Home] \union {Error}) : Write(List, part)
        BY <3>2 DEF FlushList, Home
      <4>2. part \in SUBSET (Function \union {Error})
        BY <1>2
      <4> QED
        BY <3>2, <4>1, <4>2 DEF FlushList, proc
    <3>3. CASE CloseList
      BY <1>2, <3>3 DEF CloseList, proc, Home
    <3> QED
      BY <1>7, <3>1, <3>2, <3>3
  <2>2. PICK s \in SUBSET (Function \union {Error}) : Write(List, s)
    BY <2>1
  <2>3. /\ DOMAIN text' = DOMAIN text \union {List} /\ text'[List] = s
        /\ \A y \in DOMAIN text : y # List => text'[y] = text[y]
    BY <1>1, <2>2, Written
  <2>4. /\ \A m, u : Src(m, u) # List => Fresh(m, u)' = Fresh(m, u)
        /\ Compiled' /\ (\A y \in now' : y[1] = "src") /\ Program \notin now'
        /\ Program \in DOMAIN text' /\ ~ Behind' /\ Settled' /\ Settled
        /\ \A m \in Module : /\ text'[App(m)] = text[App(m)]
                             /\ text'[Member(m, Table)] = text[Member(m, Table)]
        /\ \A f \in Function : IsNext(f) => IsNext(f)'
    BY <1>1, <2>2, SourceWritten
  <2>5. phase' = "make" => /\ Head(todo') = Home /\ made' = {} /\ text'[List] = known[Home]
    <3>1. ASSUME phase' = "make" PROVE CloseList
      BY <1>7, <3>1 DEF OpenList, FlushList
    <3>2. ASSUME CloseList
          PROVE  Head(todo') = Home /\ made' = {} /\ text'[List] = known[Home]
      <4>1. /\ Write(List, known[Home]) /\ made' = {} /\ todo' = ToMake(Home)
        BY <3>2 DEF CloseList, StartMake, Home
      <4>2. text'[List] = known[Home]
        BY <1>1, <1>2, <4>1, Written
      <4>3. Head(todo') = Home
        BY <1>2, <4>1 DEF ToMake
      <4> QED
        BY <4>1, <4>2, <4>3
    <3> QED
      BY <3>1, <3>2
  <2>6. Made' /\ Seconds' /\ Linking'
    <3>1. Making' => phase' = "make"
      BY <2>1 DEF Making
    <3> QED
      BY <2>1, <2>4, <2>5, <3>1 DEF Made, Seconds, Linking
  <2>7. MainDone'
    <3> SUFFICES ASSUME NEW u \in Unit("main") PROVE Fresh("main", u)' \/ Stale("main", u)'
      BY DEF MainDone
    <3>1. Home = "main" /\ u \in {want, Table} => Stale("main", u)'
      BY <1>1, <1>3, <2>1, <2>5 DEF Stale, Home
    <3>2. CASE Src("main", u) = List
      BY <1>2, <3>1, <3>2, Names
    <3>3. CASE Src("main", u) # List
      <4>1. Fresh("main", u) \/ Stale("main", u)
        BY <2>1 DEF Sound, MainDone, Started
      <4> QED
        BY <1>5, <2>4, <3>1, <3>3, <4>1, FilesOfUnits
    <3> QED
      BY <3>2, <3>3
  <2>8. known[Home] = text[App(Home)] \union {want} /\ text[Source] = {want} /\ Broken = {}
    BY <2>1 DEF Sound, Knowing, Remaking, Damage
  <2>9. Knowing'
    <3>1. IsNext(want)'
      <4>1. PICK f \in Function : f = want
        BY <1>2
      <4>2. IsNext(f)'
        BY <1>4, <2>4, <4>1
      <4> QED
        BY <1>1, <4>1, <4>2 DEF IsNext
    <3>2. known'[Home] = text'[App(Home)] \union {want}
      BY <1>2, <2>1, <2>4, <2>8
    <3> QED
      BY <1>1, <1>3, <2>1, <3>1, <3>2 DEF Knowing
  <2>10. \A f \in Function : Src("lib", f) # List
    BY <1>2, Names, NamesAssumption
  <2>11. Damage'
    <3>1. Broken' = {}
      BY <2>3, <2>8, <2>10 DEF Broken
    <3> QED
      BY <3>1 DEF Damage
  <2>12. Whole'
    <3> SUFFICES ASSUME NEW f \in Function,
                        \/ f \in text'[Member("lib", Table)]
                        \/ f \in text'[App("lib")]
                 PROVE  Src("lib", f) \in DOMAIN text' /\ text'[Src("lib", f)] = {f}
      BY DEF Whole
    <3>1. f \in text[App("lib")]
      BY <2>4, FilesOfUnits DEF Settled
    <3>2. Src("lib", f) \in DOMAIN text /\ text[Src("lib", f)] = {f}
      BY <1>1, <3>1 DEF Sound, Linking, Started, Whole
    <3> QED
      BY <2>3, <2>10, <3>2
  <2>13. Remaking'
    <3>1. text'[Source] = {want}
      BY <1>2, <2>1, <2>3, <2>8 DEF Types, Structure
    <3>2. phase' = "make" => text'[List] = text'[App(Home)] \union {want}
      BY <1>2, <2>4, <2>5, <2>8
    <3>3. \A m \in Module : /\ \A f \in text'[App(m)] : Holds(Member(m, f), f)'
                            /\ Member(m, Table) \in DOMAIN text'
                            /\ text'[App(m)] = text'[Member(m, Table)]
      BY <2>4 DEF Settled
    <3>4. phase' = "make" => Head(todo') = Home /\ want \notin made'
      BY <2>5
    <3> QED
      BY <1>1, <1>3, <2>4, <3>1, <3>2, <3>3, <3>4 DEF Remaking
  <2> QED
    BY <2>4, <2>6, <2>7, <2>9, <2>11, <2>12, <2>13 DEF Sound
<1> QED
  BY <1>6, <1>7 DEF Transmulate

\* The make that follows a translation does not fail.
LEMMA Repairs ==
  ASSUME Types, Sound, phase = "make"
  PROVE  ~ MakeFails
<1>1. /\ Source = Src(Home, want) /\ List = Src(Home, Table) /\ Home \in Module
      /\ Making /\ Head(todo) \in {"main", Home} /\ new = {Source, List}
      /\ want \in Function /\ want # Error /\ Error \notin Function /\ want \in Unit(Home)
      /\ want # none /\ Source \in DOMAIN text
      /\ text[Source] = {want} /\ text[List] = text[App(Home)] \union {want}
      /\ text[App(Home)] \subseteq Function
  <2>1. App(Home) \in DOMAIN text /\ Home \in Module
    BY FilesOfUnits DEF Sound, Remaking, Types, Structure, Home
  <2>2. text[App(Home)] \subseteq Function
    BY <2>1, Names DEF Types, Texts
  <2> QED
    BY <2>1, <2>2, FilesOfUnits, NamesAssumption
    DEF Sound, Remaking, Types, Structure, Makes, Making, Source, List, Home
<1>2. ASSUME NEW u \in Unit(Head(todo)), Outdated(Head(todo), u)
      PROVE  Compiles(text[Src(Head(todo), u)])
  <2>1. ASSUME Head(todo) = Home, u \in {want, Table} PROVE Error \notin text[Src(Head(todo), u)]
    BY <1>1, <2>1
  <2>2. CASE Head(todo) = "main"
    <3>1. CASE Src("main", u) \in new
      BY <1>1, <2>1, <2>2, <3>1, Names DEF Compiles
    <3>2. CASE Src("main", u) \notin new
      <4>1. ~ Fresh("main", u)
        BY <1>2, <2>2, <3>2 DEF Outdated, Fresh
      <4>2. Stale("main", u)
        BY <1>2, <2>2, <4>1 DEF Sound, MainDone
      <4> QED
        BY <2>1, <2>2, <4>2 DEF Stale, Home, Compiles
    <3> QED
      BY <3>1, <3>2
  <2>3. CASE Head(todo) = "lib" /\ u # Table
    <3>1. u \in Function /\ ModuleOf(u) = "lib" /\ Src("lib", u) \in DOMAIN text
      BY <1>2, <2>3 DEF Unit, Outdated
    <3>2. Broken = {}
      BY DEF Sound, Damage
    <3> QED
      BY <2>3, <3>1, <3>2 DEF Broken, Compiles
  <2>4. CASE Head(todo) = "lib" /\ u = Table
    <3>1. Head(todo) = Home
      BY <1>1, <2>4
    <3> QED
      BY <2>1, <2>4, <3>1 DEF Compiles
  <2> QED
    BY <1>1, <2>2, <2>3, <2>4, FilesOfUnits
<1>3. ASSUME UpToDate, Head(todo) = "main" PROVE Resolved
  <2>1. Holds(Member(Home, want), want)
    <3>1. CASE Home = "main"
      <4>1. want \in made /\ unit # want
        BY <1>1, <1>3, <3>1 DEF UpToDate, Outdated
      <4> QED
        BY <4>1 DEF Sound, Remaking
    <3>2. CASE Home # "main"
      BY <1>3, <3>2 DEF Sound, Remaking
    <3> QED
      BY <3>1, <3>2
  <2> QED
    BY <2>1 DEF Sound, Remaking, Resolved
<1> QED
  BY <1>2, <1>3 DEF MakeFails

LEMMA StepSound ==
  ASSUME Types, Sound, [Next]_vars
  PROVE  Sound'
<1>1. ASSUME UserRun \/ Tick \/ LibraryMade \/ MakeFails \/ Exec \/ Wait \/ Execute \/ Kill
      PROVE  Sound'
  <2>1. UNCHANGED text
    BY <1>1 DEF UserRun, Tick, LibraryMade, MakeFails, Exec, Wait, Execute, Kill, disk
  <2> QED
    BY <1>1, <2>1, QuietSound
<1>2. CASE UNCHANGED vars
  <2>1. /\ UNCHANGED <<phase, calls>> /\ UNCHANGED text /\ UNCHANGED <<now, newer>>
        /\ UNCHANGED <<known, want, waited>> /\ UNCHANGED <<todo, new, made, unit>>
    BY <1>2 DEF vars, disk, proc, make
  <2>2. /\ \A m, u : Fresh(m, u)' = Fresh(m, u)
        /\ MainFresh' = MainFresh /\ Behind' = Behind /\ Settled' = Settled /\ Broken' = Broken
        /\ \A f : IsNext(f)' = IsNext(f)
        /\ Compiled' /\ Whole'
    BY <2>1, SameFiles DEF Sound
  <2>3. /\ Home' = Home /\ Source' = Source /\ List' = List
        /\ \A m, u : Stale(m, u)' = Stale(m, u)
    BY <2>1 DEF Home, ModuleOf, Source, List, Stale
  <2>4. Made' /\ Seconds'
    BY <2>1, <2>2, <2>3 DEF Sound, Made, Seconds, Making
  <2>5. Linking' /\ Damage'
    BY <2>1, <2>2 DEF Sound, Linking, Damage, Making
  <2>6. MainDone' /\ Knowing'
    BY <2>1, <2>2, <2>3 DEF Sound, MainDone, Knowing
  <2>7. Remaking'
    BY <2>1, <2>3 DEF Sound, Remaking, Holds
  <2> QED
    BY <2>2, <2>4, <2>5, <2>6, <2>7 DEF Sound
<1> QED
  BY <1>1, <1>2, CompileSound, ArchivedSound, ProgramMadeSound, TransmulateSound
  DEF Next, Progress, Make

\* Whatever went wrong before, kills and exceptions in the middle of a source,
\* a list or a make included, a program that could start can build the next
\* one: IterBox never throws MakeError after a translation.
THEOREM Recovery == Spec => NoMakeError
<1> DEFINE Always == Types /\ Sound
<1>1. Init => Always
  BY InitTypes, InitSound
<1>2. Always /\ [Next]_vars => Always'
  BY StepTypes, StepSound
<1>3. Always /\ [Next]_vars =>
        [phase = "make" /\ phase' = "idle" => faults' # faults \/ stepOnce]_vars
  <2> SUFFICES ASSUME Always, [Next]_vars, phase = "make", phase' = "idle"
               PROVE  faults' # faults \/ stepOnce
    OBVIOUS
  <2>1. ~ MakeFails
    BY Repairs
  <2>2. CASE Kill
    BY <2>2, BoundsAssumption DEF Kill, Types
  <2>3. CASE ProgramMade
    BY <2>3 DEF ProgramMade
  <2> QED
    BY <2>1, <2>2, <2>3
    DEF Next, Progress, Make, Compile, Archived, LibraryMade, Transmulate, OpenSource, FlushSource,
        CloseSource, OpenList, FlushList, CloseList, Tick, TranslateThrows, UserRun, Exec, Wait,
        Execute, vars
<1> QED
  BY <1>1, <1>2, <1>3, PTL DEF Spec, NoMakeError

=============================================================================
