----------------------------- MODULE Iteration ------------------------------
(***************************************************************************)
(* The iterations of unwintel (uwt/unwintel.cc, uwt/iterbox.cc,            *)
(* uwt/win/winnt.cc, uwt/win/module.cc, templates/Makefile.src).  The      *)
(* bootstrapped program runs until it calls a function that has not been   *)
(* translated; it then writes the source of the function, adds it to the   *)
(* list of its module, has make rebuild the program, and execs it.         *)
(*                                                                         *)
(* A file is <<kind, module, unit>>, a unit being a function or the table  *)
(* of a module: the source that includes functions.inc, its list.  What a  *)
(* file holds is a set: the functions it defines or lists, and Error if it *)
(* is cut where it does not compile.  make compares modification times to  *)
(* the second.  All that matters of them is which files were written in    *)
(* the current second, and which are strictly newer than their target.     *)
(***************************************************************************)
EXTENDS Integers, Sequences

CONSTANTS
  Function,    \* the functions of the original program
  Library,     \* those of a DLL (module lib); the others are of main_exe
  MaxCalls,    \* bound: the length of the run of the original program
  MaxFaults    \* bound: how many times something goes wrong

ASSUME LibraryAssumption == Library \subseteq Function
ASSUME BoundsAssumption == MaxCalls \in Nat /\ MaxFaults \in Nat

Table == "table"
Error == "error"
none == "none"

ASSUME NamesAssumption == Function \cap {Table, Error, none} = {}

Module == {"main", "lib"}
ModuleOf(u) == IF u \in Library THEN "lib" ELSE "main"
Unit(m) == {f \in Function : ModuleOf(f) = m} \union {Table}

File == {"src", "obj", "member"} \X Module \X (Function \union {Table})
          \union {"app", "archive"} \X Module
Src(m, u) == <<"src", m, u>>
Obj(m, u) == <<"obj", m, u>>
Member(m, u) == <<"member", m, u>>   \* u.o in the archive of m
Archive(m) == <<"archive", m>>
App(m) == <<"app", m>>               \* the table of m in the program
Program == App("main")               \* the program, as a file

VARIABLES
  calls,     \* the functions that the original program calls, in order
  stepOnce,  \* UWT_STEP_ONCE
  phase,     \* idle, run (make then exec), make (of the program), exec, wait,
             \* execute, source and text (writing a source), list and lines
             \* (writing functions.inc), exited
  text,      \* what each file holds
  now,       \* the files written in the current second
  newer,     \* <<x, t>>: x is newer than the target t made from it
  known,     \* m_functions of each module of the running program
  want,      \* the function that it translates
  waited,    \* the second in which it started is over
  todo,      \* the modules that make has to build, the first being built
  new,       \* what make is told to take for new (-W)
  made,      \* the units it has compiled
  unit,      \* the one it has not archived yet, if any
  faults     \* how many times something went wrong

disk == <<text, now, newer>>
proc == <<known, want, waited>>
make == <<todo, new, made, unit>>
vars == <<calls, stepOnce, phase, disk, proc, make, faults>>

Init == /\ calls \in UNION {[1 .. n -> Function] : n \in 0 .. MaxCalls}
        /\ stepOnce \in BOOLEAN
        /\ phase = "idle"
        \* setup left empty lists; the DLL was built by hand
        /\ text = [x \in {Src("main", Table), Src("lib", Table),
                          Obj("lib", Table), Member("lib", Table)} |-> {}]
        /\ now = {} /\ newer = {}
        /\ known = [m \in Module |-> {}] /\ want = none /\ waited = FALSE
        /\ todo = <<>> /\ new = {} /\ made = {} /\ unit = none
        /\ faults = 0

-----------------------------------------------------------------------------
(* Files.                                                                  *)

\* The targets made from a file: an object from its source, the program from
\* the objects of main_exe and the archives of the DLLs.
Targets(x) == CASE x[1] = "src" -> {Obj(x[2], x[3])}
                [] x[1] = "obj" /\ x[2] = "main" -> {Program}
                [] x = Archive("lib") -> {Program}
                [] OTHER -> {}

\* x is written now.
Touch(x) ==
  /\ now' = now \union {x}
  /\ newer' = {e \in newer : e[2] # x} \union {<<x, t>> : t \in Targets(x) \ now}

Put(x, s) == text' = [y \in DOMAIN text \union {x} |-> IF y = x THEN s ELSE text[y]]

Write(x, s) == Put(x, s) /\ Touch(x)

\* The clock goes to the next second.
Tick == /\ now' = {}
        /\ waited' = TRUE
        /\ UNCHANGED <<calls, stepOnce, phase, text, newer, known, want, make, faults>>

-----------------------------------------------------------------------------
(* make, with the rules of Makefile.src.                                   *)

StartMake(modules, files) ==
  todo' = modules /\ new' = files /\ made' = {} /\ unit' = none

\* unwintel run: make, then execvp.
UserRun == /\ phase = "idle"
           /\ phase' = "run"
           /\ StartMake(<<"main">>, {})
           /\ UNCHANGED <<calls, stepOnce, disk, proc, faults>>

Making == phase \in {"run", "make"}

\* Mutant: the errors of the compiler are ignored.
Ignored(s) == TRUE

\* A source compiles if it is whole.
Compiles(s) == Error \notin s

Outdated(m, u) ==
  /\ u \notin made
  /\ Src(m, u) \in DOMAIN text
  /\ \/ Obj(m, u) \notin DOMAIN text
     \/ <<Src(m, u), Obj(m, u)>> \in newer
     \/ Src(m, u) \in new

\* A unit is compiled...
Compile ==
  /\ Making /\ unit = none
  /\ LET m == Head(todo)
     IN \E u \in Unit(m) :
          /\ Outdated(m, u)
          /\ Compiles(text[Src(m, u)])
          /\ Write(Obj(m, u), text[Src(m, u)])
          /\ made' = made \union {u}
          /\ unit' = u
  /\ UNCHANGED <<calls, stepOnce, phase, proc, todo, new, faults>>

\* ... then archived (ar -rsc), by a second command of the same rule.
Archived ==
  /\ Making /\ unit # none
  /\ LET m == Head(todo)
     IN /\ Put(Member(m, unit), text[Obj(m, unit)])
        /\ Touch(Archive(m))
  /\ unit' = none
  /\ UNCHANGED <<calls, stepOnce, phase, proc, todo, new, made, faults>>

\* Nothing is left but the link.
UpToDate == /\ Making /\ unit = none
            /\ \A u \in Unit(Head(todo)) : ~ Outdated(Head(todo), u)

LinkNeeded == \/ Program \notin DOMAIN text
              \/ made # {}
              \/ \E e \in newer : e[2] = Program

\* Both tables are archived, and each function of a table with it.
Holds(x, f) == x \in DOMAIN text /\ f \in text[x]
Resolved == \A m \in Module : /\ Member(m, Table) \in DOMAIN text
                              /\ \A f \in text[Member(m, Table)] : Holds(Member(m, f), f)

\* A DLL is built by a Makefile of its own: the next module is main_exe.
LibraryMade ==
  /\ UpToDate /\ Head(todo) = "lib"
  /\ StartMake(Tail(todo), new)
  /\ UNCHANGED <<calls, stepOnce, phase, disk, proc, faults>>

\* The program is linked unless it is up to date; it is then executed, but in
\* single iteration mode, after its own make, it returns.
ProgramMade ==
  /\ UpToDate /\ Head(todo) = "main"
  /\ IF LinkNeeded
       THEN /\ Resolved
            /\ text' = [y \in DOMAIN text \union {App(m) : m \in Module} |->
                          IF y[1] = "app" THEN text[Member(y[2], Table)] ELSE text[y]]
            /\ Touch(Program)
       ELSE UNCHANGED disk
  /\ phase' = IF phase = "make" /\ stepOnce THEN "idle" ELSE "exec"
  /\ UNCHANGED <<calls, stepOnce, proc, make, faults>>

\* make fails: unwintel aborts, or the program throws MakeError and returns.
MakeFails ==
  /\ \/ /\ Making /\ unit = none
        /\ \E u \in Unit(Head(todo)) :
             Outdated(Head(todo), u) /\ ~ Compiles(text[Src(Head(todo), u)])
     \/ UpToDate /\ Head(todo) = "main" /\ LinkNeeded /\ ~ Resolved
  /\ phase' = "idle"
  /\ UNCHANGED <<calls, stepOnce, disk, proc, make, faults>>

-----------------------------------------------------------------------------
(* The program: IterBox::run, WinNT::execute, Module::transmulate.         *)

\* A new process: its functions are those of its tables.
Exec == /\ phase = "exec"
        /\ phase' = "wait"
        /\ known' = [m \in Module |-> text[App(m)]]
        /\ waited' = FALSE
        /\ UNCHANGED <<calls, stepOnce, disk, want, make, faults>>

\* Mutant: the program does not wait.
NoWait == TRUE

\* waitnewtimestamp: the next second has come.
NewTimestamp == waited

Wait == /\ phase = "wait" /\ NewTimestamp
        /\ phase' = "execute"
        /\ UNCHANGED <<calls, stepOnce, disk, proc, make, faults>>

Unknown == {i \in DOMAIN calls : calls[i] \notin known[ModuleOf(calls[i])]}

\* The original program runs from its beginning up to the first call of a
\* function that CallDB does not have, or to its end (where it bails out).
Execute ==
  /\ phase = "execute"
  /\ IF Unknown = {} THEN phase' = "exited" /\ UNCHANGED want
     ELSE /\ phase' = "source"
          /\ \E i \in Unknown : (\A j \in Unknown : i <= j) /\ want' = calls[i]
  /\ UNCHANGED <<calls, stepOnce, disk, known, waited, make, faults>>

Source == Src(ModuleOf(want), want)
List == Src(ModuleOf(want), Table)

\* transmulate: the source is opened, which empties it...
OpenSource == /\ phase = "source"
              /\ phase' = "text"
              /\ Write(Source, {})
              /\ UNCHANGED <<calls, stepOnce, proc, make, faults>>

\* ... a part of it may be written before the end...
FlushSource == /\ phase = "text" /\ text[Source] = {}
               /\ Write(Source, {Error})
               /\ UNCHANGED <<calls, stepOnce, phase, proc, make, faults>>

\* Mutant: the stream is not flushed.
Buffered(f) == {}

\* The code that translate prints.
Translation(f) == {f}

\* ... then it is closed and the function is recorded.
CloseSource ==
  /\ phase = "text"
  /\ phase' = "list"
  /\ Write(Source, Translation(want))
  /\ known' = [known EXCEPT ![ModuleOf(want)] = @ \union {want}]
  /\ UNCHANGED <<calls, stepOnce, want, waited, make, faults>>

\* functions.inc is written again, in the same way.
OpenList == /\ phase = "list"
            /\ phase' = "lines"
            /\ Write(List, {})
            /\ UNCHANGED <<calls, stepOnce, proc, make, faults>>

FlushList == /\ phase = "lines" /\ text[List] = {}
             /\ \E part \in (SUBSET (known[ModuleOf(want)] \union {Error})) \ {{}} :
                  Write(List, part)
             /\ UNCHANGED <<calls, stepOnce, phase, proc, make, faults>>

\* Mutant: make is never called in the directory of the DLL.
MainAlone(m) == <<"main">>

\* WinNT::trans: the module is made, then main_exe if it is another one.
ToMake(m) == IF m = "main" THEN <<m>> ELSE <<m, "main">>

CloseList ==
  /\ phase = "lines"
  /\ phase' = "make"
  /\ Write(List, known[ModuleOf(want)])
  /\ StartMake(ToMake(ModuleOf(want)), {Source, List})
  /\ UNCHANGED <<calls, stepOnce, proc, faults>>

-----------------------------------------------------------------------------
(* What goes wrong.                                                        *)

\* translate throws: the source is left as it is, and the program returns.
TranslateThrows == /\ phase = "text" /\ faults < MaxFaults
                   /\ Write(Source, {Error})
                   /\ phase' = "idle"
                   /\ faults' = faults + 1
                   /\ UNCHANGED <<calls, stepOnce, proc, make>>

\* Everything is killed.
Kill == /\ phase \notin {"idle", "exited"} /\ faults < MaxFaults
        /\ phase' = "idle"
        /\ faults' = faults + 1
        /\ UNCHANGED <<calls, stepOnce, disk, proc, make>>

-----------------------------------------------------------------------------
Make == Compile \/ Archived \/ LibraryMade \/ ProgramMade \/ MakeFails

Transmulate == \/ OpenSource \/ FlushSource \/ CloseSource
               \/ OpenList \/ FlushList \/ CloseList

Progress == UserRun \/ Make \/ Exec \/ Wait \/ Execute \/ Transmulate

Next == Progress \/ Tick \/ TranslateThrows \/ Kill

\* Time passes, each process runs on, and the user tries again.
Spec == Init /\ [][Next]_vars /\ WF_vars(Progress) /\ WF_vars(Tick)

-----------------------------------------------------------------------------
(* Properties.                                                             *)

Phases == {"idle", "run", "make", "exec", "wait", "execute", "source", "text",
           "list", "lines", "exited"}

\* An object always compiles, and what make works on is there.
TypeOK ==
  /\ phase \in Phases
  /\ DOMAIN text \subseteq File
  /\ \A x \in DOMAIN text : text[x] \subseteq Function \union (IF x[1] = "src" THEN {Error} ELSE {})
  /\ now \subseteq File
  /\ \A e \in newer : e[1] \in File /\ e[2] \in Targets(e[1])
  /\ known \in [Module -> SUBSET Function]
  /\ want \in Function \union {none}
  /\ waited \in BOOLEAN
  /\ new \subseteq DOMAIN text
  /\ Making => todo # <<>> /\ unit \in Unit(Head(todo)) \union {none}
  /\ unit # none => unit \in made
  /\ faults \in 0 .. MaxFaults

\* As long as nothing went wrong, a program that starts knows all the
\* functions that were translated before, of its modules and of the DLLs, so
\* that it never translates one of them again.  This is what the wait for the
\* next second, and the relinking of main_exe after a DLL, are for.
FreshProgram ==
  phase = "wait" /\ faults = 0 => \A m \in Module : known[m] = text[Src(m, Table)]

\* Whatever went wrong before, a program that could start can build the next
\* one: MakeError is never thrown by the make that follows a translation.
NoMakeError == [][phase = "make" /\ phase' = "idle" => faults' # faults \/ stepOnce]_vars

\* What blocks the user: in main_exe, a source or the list cut by a fault, an
\* object compiled but not archived, or a function listed without its source;
\* in a DLL, which only its own translations make again, an archive whose
\* table lists a function that it does not have.
Damaged ==
  \/ \E u \in Unit("main") : Holds(Src("main", u), Error)
  \/ \E u \in Unit("main") : /\ Obj("main", u) \in DOMAIN text
                             /\ \/ Member("main", u) \notin DOMAIN text
                                \/ text[Member("main", u)] # text[Obj("main", u)]
  \/ \E f \in text[Src("main", Table)] : ~ Holds(Src("main", f), f)
  \/ \E f \in text[Member("lib", Table)] : ~ Holds(Member("lib", f), f)

\* The original program is run to its end, iteration after iteration, unless
\* a fault has left the files damaged.
Finishes == <>(phase = "exited") \/ <>[]Damaged
=============================================================================
