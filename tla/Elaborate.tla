----------------------------- MODULE Elaborate ------------------------------
(***************************************************************************)
(* The libraries of modules and the commands that read and write them:     *)
(* analyze puts the modules of a source file into a library, elaborate     *)
(* builds a design from one of them, current_design names the design the   *)
(* other commands work on.                                                 *)
(*                                                                         *)
(* A module object is a record: the source text it comes from, the value   *)
(* of its parameter when one was set, whether it has been elaborated, and  *)
(* then the module names of its instances.  Libraries may hold different   *)
(* texts of one name.  The name of an elaborated module is that of its     *)
(* text followed by its parameters, here the pair <<name, value>>.         *)
(***************************************************************************)
EXTENDS Naturals, Sequences, SequencesExt

CONSTANTS Src,      \* the modules of the source files, as texts
          Title,    \* the name of each, which several may share
          Order,    \* link_lib: the libraries in the order of their names
          Work,     \* MACRO_DEFAULT_WORK_LIB
          Val,      \* the values a parameter can have
          None,     \* no parameter, no override, no design
          Default,  \* parameterised modules: the default of the parameter
          Body      \* text and value: the instances, each with the module
                    \* it names and the value it gives to its parameter

HasPara == DOMAIN Default
Ident   == {Title[m] : m \in Src}
Lib     == ToSet(Order)

ASSUME SourceAssumption ==
    /\ Order \in Seq(Lib) /\ Work \in Lib /\ None \notin Val
    /\ HasPara \subseteq Src /\ \A m \in HasPara : Default[m] \in Val
    /\ Ident \cap (Ident \X Val) = {}
    /\ \A m \in Src, v \in Val \cup {None} :
          Body[m][v] \in Seq([mod : Ident, actual : Val \cup {None}])

VARIABLES libs,    \* link_lib: library -> name -> module object
          curLib,  \* curLib
          cur,     \* macroDB[MACRO_CURRENT_DESIGN]
          curDgn,  \* the module object hierarchical_search starts from
          pc,      \* "idle" or "run": the loop of elaborate
          top,     \* the name of the design being, or last, elaborated
          queue,   \* moduleQueue
          mmap     \* moduleMap

vars == <<libs, curLib, cur, curDgn, pc, top, queue, mmap>>

Name   == Ident \cup (Ident \X Val)
Object == [src : Src, val : Val \cup {None}, elab : BOOLEAN, inst : Seq(Name)]
Empty  == [n \in {} |-> None]

\* A map from names, and its entries before those of another.
Entry(n, v) == [x \in {n} |-> v]
Over(f, g)  == [n \in DOMAIN f \cup DOMAIN g |-> IF n \in DOMAIN f THEN f[n] ELSE g[n]]

Raw(m) == [src |-> m, val |-> None, elab |-> FALSE, inst |-> <<>>]

-----------------------------------------------------------------------------
(***************************************************************************)
(* Looking up and naming modules                                           *)
(***************************************************************************)

\* The module of that name in the first of the libraries that has one.
FirstIn(order, lib, n) ==
    LET has == {k \in DOMAIN order : n \in DOMAIN lib[order[k]]}
    IN  lib[order[CHOOSE k \in has : \A j \in has : k <= j]][n]

\* Env::find_module: the current library first, then all of them.
Finds(n) == \E l \in Lib : n \in DOMAIN libs[l]
Found(n) == FirstIn(<<curLib>> \o Order, libs, n)

\* The parameter is gone once the module is elaborated.
TakesPara(o) == o.src \in HasPara /\ ~o.elab

\* set_value on the parameter of a copy, when a value is given.
SetPara(o, a) == IF a = None THEN o ELSE [o EXCEPT !.val = a]

ParaValue(o) ==
    IF o.src \notin HasPara THEN None
    ELSE IF o.val = None THEN Default[o.src] ELSE o.val

\* Mutant: the values given to an instance are left out of the name.
DefaultName(o) ==
    IF TakesPara(o) THEN <<Title[o.src], Default[o.src]>> ELSE Title[o.src]

\* calculate_name: the name of the object and its parameters.
NewName(o) ==
    IF o.src \in HasPara THEN <<Title[o.src], ParaValue(o)>> ELSE Title[o.src]

\* What the module instantiates, once its parameters are replaced and its
\* generate blocks are unfolded.
Calls(o) ==
    IF o.elab THEN [i \in DOMAIN o.inst |-> [mod |-> o.inst[i], actual |-> None]]
              ELSE Body[o.src][ParaValue(o)]

\* update_ports finds the module, calculate_name finds the parameter.
Resolves(c) == /\ Finds(c.mod)
               /\ c.actual = None \/ TakesPara(Found(c.mod))

\* The name the instance will refer to.
CallName(c) == NewName(SetPara(Found(c.mod), c.actual))

\* The copy of the module the instance refers to, its parameter set.
Copy(c) == SetPara(Found(c.mod), c.actual)

-----------------------------------------------------------------------------
Init ==
    /\ libs = [l \in Lib |-> Empty]
    /\ curLib = Work /\ cur = None /\ curDgn = None
    /\ pc = "idle" /\ top = None /\ queue = <<>> /\ mmap = Empty

\* analyze -library l: l becomes the current library, and the module goes
\* into it unless the library has a module of that name.
Analyze(l, m) ==
    /\ pc = "idle"
    /\ curLib' = l
    /\ libs' = [libs EXCEPT ![l] = Over(@, Entry(Title[m], Raw(m)))]
    /\ UNCHANGED <<cur, curDgn, pc, top, queue, mmap>>

\* CMDHook_CURRENT_DESIGN, the trace on the Tcl variable: a name that is
\* current already is left alone, otherwise the libraries are searched in
\* their order.
Hook(n, lib) ==
    IF n = cur THEN UNCHANGED <<cur, curDgn>>
    ELSE cur' = n /\ curDgn' = FirstIn(Order, lib, n)

\* current_design n.
SetCurrent(n) ==
    /\ pc = "idle"
    /\ Finds(n)
    /\ Hook(n, libs)
    /\ UNCHANGED <<libs, curLib, pc, top, queue, mmap>>

\* elaborate -library l -parameters a n: the design is searched in l, then in
\* work; a copy of it starts the queue.  The command returns at once when the
\* library, the design or the parameter is unknown.
Start(l, n, a) ==
    LET home == IF n \in DOMAIN libs[l] THEN l ELSE Work
        o    == libs[home][n]
        d    == SetPara(o, a)
    IN  /\ pc = "idle"
        /\ l # Work => libs[l] # Empty
        /\ n \in DOMAIN libs[home]
        /\ a = None \/ TakesPara(o)
        /\ top' = NewName(d)
        /\ queue' = <<NewName(d)>>
        /\ mmap' = Entry(NewName(d), d)
        /\ pc' = "run"
        /\ UNCHANGED <<libs, curLib, cur, curDgn>>

\* Mutant: an instance is queued whether or not the map has its module.
AllNames(names) == ToSet(names)

\* Mutant: a module enters the map only after its own instances.
SelfUnseen(names) == ToSet(names) \ (DOMAIN mmap \ {Head(queue)})

\* Mutant: a module found in a library is taken to be elaborated.
Unknown(names) == {n \in ToSet(names) \ DOMAIN mmap : ~Finds(n)}

\* The names that are neither elaborated nor queued.
Unseen(names) == ToSet(names) \ DOMAIN mmap

\* Module::elaborate on the front of the queue: its instances take the names
\* of the modules they stand for, and those not in the map are queued.  The
\* instances are visited in the order of a map keyed by hash values.
Elab ==
    /\ pc = "run" /\ queue # <<>>
    /\ LET o     == mmap[Head(queue)]
           calls == Calls(o)
           done(names) == [src |-> o.src, val |-> ParaValue(o),
                           elab |-> TRUE, inst |-> names]
       IN  /\ \A i \in DOMAIN calls : Resolves(calls[i])
           /\ \E names \in {[i \in DOMAIN calls |-> CallName(calls[i])]} :
              \E order \in SetToSeqs(Unseen(names)) :
                /\ queue' = Tail(queue) \o order
                /\ mmap' = Over([n \in ToSet(order) |->
                                  Copy(calls[CHOOSE i \in DOMAIN names : names[i] = n])],
                                Over(Entry(Head(queue), done(names)), mmap))
    /\ UNCHANGED <<libs, curLib, cur, curDgn, pc, top>>

\* An instance whose module or parameter is unknown ends the command: the
\* copies are dropped.
Fail ==
    /\ pc = "run" /\ queue # <<>>
    /\ \E i \in DOMAIN Calls(mmap[Head(queue)]) :
          ~Resolves(Calls(mmap[Head(queue)])[i])
    /\ pc' = "idle" /\ top' = None /\ queue' = <<>> /\ mmap' = Empty
    /\ UNCHANGED <<libs, curLib, cur, curDgn>>

\* Mutant: a module of the same name is not replaced.
Inserted(lib) == Over(lib, mmap)

\* Library::swap for each module of the map.
Swapped(lib) == Over(mmap, lib)

\* Every elaborated module replaces its namesake in work, and the design
\* becomes the current one.
Save ==
    /\ pc = "run" /\ queue = <<>>
    /\ libs' = [libs EXCEPT ![Work] = Swapped(@)]
    /\ Hook(top, libs')
    /\ pc' = "idle" /\ mmap' = Empty
    /\ UNCHANGED <<curLib, top, queue>>

Next ==
    \/ \E l \in Lib, m \in Src : Analyze(l, m)
    \/ \E n \in Name : SetCurrent(n)
    \/ \E l \in Lib, n \in Name, a \in Val \cup {None} : Start(l, n, a)
    \/ Elab \/ Fail \/ Save

Spec == Init /\ [][Next]_vars /\ WF_vars(Elab \/ Fail \/ Save)
-----------------------------------------------------------------------------
(***************************************************************************)
(* Properties                                                              *)
(***************************************************************************)

\* A module is kept under the name its parameters give it: the name computed
\* for the instance, before the copy is made, is the one computed again from
\* the copy when it leaves the queue.
TypeOK ==
    /\ curLib \in Lib /\ pc \in {"idle", "run"}
    /\ \A n \in DOMAIN mmap : NewName(mmap[n]) = n
    /\ \A l \in Lib : \A n \in DOMAIN libs[l] :
          libs[l][n].elab => NewName(libs[l][n]) = n

\* No module is lost and none is queued twice: a module waits at most
\* once, and every module of the map that is not elaborated waits.
OnceEach ==
    /\ IsInjective(queue)
    /\ ToSet(queue) \subseteq DOMAIN mmap
    /\ \A n \in DOMAIN mmap : mmap[n].elab \/ Contains(queue, n)

\* What elaborate saves is closed: below an elaborated module of work there
\* are only elaborated modules of work, also after a command that failed half
\* way and was repeated, and after commands on designs that share modules or
\* take them from other libraries.
Closed ==
    \A n \in DOMAIN libs[Work] : libs[Work][n].elab =>
        \A i \in DOMAIN libs[Work][n].inst :
            /\ libs[Work][n].inst[i] \in DOMAIN libs[Work]
            /\ libs[Work][libs[Work][n].inst[i]].elab

\* The values a call means for the parameter of the module it names: the one
\* it gives, otherwise the default of a text of that name.
Meant(c) ==
    IF c.actual # None THEN {c.actual}
    ELSE {IF m \in HasPara THEN Default[m] ELSE None : m \in {x \in Src : Title[x] = c.mod}}

\* Every instance is bound to an elaborated text of the name the source gives
\* it, with the value the instance gives to its parameter; without one, with
\* the default of a text of that name.
Bound ==
    \A n \in DOMAIN libs[Work] : LET o == libs[Work][n] IN o.elab =>
        LET calls == Body[o.src][o.val] IN
        /\ DOMAIN o.inst = DOMAIN calls
        /\ \A i \in DOMAIN calls : LET below == libs[Work][o.inst[i]] IN
              Title[below.src] = calls[i].mod /\ below.val \in Meant(calls[i])

\* After elaborate, if work is the current library, a search for the design
\* finds the elaborated module, not the one it was built from, whichever
\* libraries have one of that name.
SavedFound == pc = "idle" /\ top # None /\ curLib = Work => Found(top).elab

\* The libraries hold one text of that name at most, as it is in the source
\* or elaborated with whatever value.
Holds(m)  == \E l \in Lib : \E n \in DOMAIN libs[l] : libs[l][n].src = m
Agreed(m) == \A x, y \in Src :
                Title[x] = m /\ Title[y] = m /\ Holds(x) /\ Holds(y) => x = y

\* Elaborating a design again, or one that shares modules with it, leaves an
\* elaborated module as it is, unless libraries disagree about the text of the
\* module or of one it instantiates: then it may be replaced, by one that
\* is elaborated.
Stable ==
    [][\A n \in DOMAIN libs[Work] : LET o == libs[Work][n] IN o.elab =>
          /\ n \in DOMAIN libs'[Work] /\ libs'[Work][n].elab
          /\ /\ Agreed(Title[o.src])
             /\ \A i \in DOMAIN Body[o.src][o.val] : Agreed(Body[o.src][o.val][i].mod)
             => libs'[Work][n] = o]_vars

\* elaborate ends, also on a module that contains itself.
Terminates == pc = "run" ~> pc = "idle"
=============================================================================
