------------------------------ MODULE Uniquify ------------------------------
(***************************************************************************)
(* The uniquify command: after it, every instance in the hierarchy of the  *)
(* current design has a module of its own.  The command walks the          *)
(* hierarchy from the current design; the first instance of a module keeps *)
(* it, every further one gets a copy under a new name.                     *)
(*                                                                         *)
(* A module of the library is the sequence of the module names of its      *)
(* instances.  A name is the name of the elaborated module and a number, 0 *)
(* for the module itself; suffix_increase counts up.                       *)
(*                                                                         *)
(* The modules are elaborated (an instance that is not is skipped), so     *)
(* find_module finds every one: the branches for black boxes never run.    *)
(***************************************************************************)
EXTENDS Naturals, Sequences

CONSTANTS Src,        \* the elaborated modules
          Design,     \* Src -> the sequence of its instances' modules
          Tops,       \* the designs made current
          None,       \* no module
          MaxForce,   \* bound: how often the command runs with -force
          MaxSuffix   \* bound: the largest number in a name

ASSUME DesignAssumption ==
    /\ Design \in [Src -> Seq(Src)]
    /\ Tops \subseteq Src
    /\ None \notin Src \X Nat
    /\ MaxForce \in Nat /\ MaxSuffix \in Nat

VARIABLES lib,      \* the modules of the library by name
          cur,      \* macroDB[MACRO_CURRENT_DESIGN]
          pc,       \* "idle" or "run"
          force,    \* arg.bForce
          forces,   \* commands run with -force
          todo,     \* process_module_list
          existed,  \* existed_module_set
          modu,     \* cur_modu, None before the first
          rest      \* the instances of cur_modu not visited yet

vars == <<lib, cur, pc, force, forces, todo, existed, modu, rest>>

Name    == Src \X (0 .. MaxSuffix)
Top(t)  == <<t, 0>>
Inst(n) == DOMAIN lib[n]

-----------------------------------------------------------------------------
Init ==
    /\ lib = [n \in {Top(t) : t \in Src} |->
                [i \in DOMAIN Design[n[1]] |-> Top(Design[n[1]][i])]]
    /\ cur \in {Top(t) : t \in Tops}
    /\ pc = "idle" /\ force = FALSE /\ forces = 0
    /\ todo = {} /\ existed = {} /\ modu = None /\ rest = {}

\* current_design.
SetCurrent(t) ==
    /\ pc = "idle"
    /\ cur' = Top(t)
    /\ UNCHANGED <<lib, pc, force, forces, todo, existed, modu, rest>>

\* uniquify [-force].
Start(f) ==
    /\ pc = "idle" /\ (f => forces < MaxForce)
    /\ pc' = "run" /\ force' = f
    /\ forces' = IF f THEN forces + 1 ELSE forces
    /\ todo' = {cur} /\ existed' = {cur} /\ modu' = None /\ rest' = {}
    /\ UNCHANGED <<lib, cur>>

\* Mutant: a module stays on the list.
Left(n) == todo

\* pop_front.
Popped(n) == todo \ {n}

\* The next module of the list.  The list is first in, first out; here any of
\* its modules may be next.
Take(n) ==
    /\ pc = "run" /\ rest = {} /\ n \in todo
    /\ modu' = n /\ todo' = Popped(n) /\ rest' = Inst(n)
    /\ UNCHANGED <<lib, cur, pc, force, forces, existed>>

\* Mutant: every module found in the library is renamed.
InLibrary(n) == n \in DOMAIN lib

\* Mutant: only the design itself is known.
IsTop(n) == n = cur

\* The module has an instance already.
Existed(n) == n \in existed

\* Mutant: suffix_increase once.
NextNumber(n, new) == new = <<n[1], n[2] + 1>>

\* suffix_increase until find_module does not find the name.
Fresh(n, new) ==
    /\ new \notin DOMAIN lib
    /\ new[1] = n[1] /\ new[2] > n[2]
    /\ \A k \in n[2] + 1 .. new[2] - 1 : <<n[1], k>> \in DOMAIN lib

\* Mutant: the copy is made of the module being processed.
CopyOfModu(n) == lib[modu]

\* deep_copy of the module of the instance.
Copy(n) == lib[n]

\* curLib->insert, which leaves an entry of that name alone.
Stored(new, module) ==
    [n \in DOMAIN lib \cup {new} |-> IF n \in DOMAIN lib THEN lib[n] ELSE module]

\* The instance gets a copy of its module.
Rename(i) ==
    /\ pc = "run" /\ i \in rest
    /\ LET n == lib[modu][i] IN
       /\ Existed(n) \/ force
       /\ \E new \in Name :
             /\ Fresh(n, new)
             /\ lib' = [Stored(new, Copy(n)) EXCEPT ![modu][i] = new]
             /\ todo' = todo \cup {new}
             /\ existed' = existed \cup {new}
    /\ rest' = rest \ {i}
    /\ UNCHANGED <<cur, pc, force, forces, modu>>

\* The instance keeps its module, as the first of it.
Keep(i) ==
    /\ pc = "run" /\ i \in rest
    /\ LET n == lib[modu][i] IN
       /\ ~(Existed(n) \/ force)
       /\ todo' = todo \cup {n}
       /\ existed' = existed \cup {n}
    /\ rest' = rest \ {i}
    /\ UNCHANGED <<lib, cur, pc, force, forces, modu>>

Finish ==
    /\ pc = "run" /\ rest = {} /\ todo = {}
    /\ pc' = "idle" /\ modu' = None
    /\ UNCHANGED <<lib, cur, force, forces, todo, existed, rest>>

Work == \/ \E n \in todo : Take(n)
        \/ \E i \in rest : Rename(i) \/ Keep(i)

Next == \/ \E t \in Tops : SetCurrent(t)
        \/ \E f \in BOOLEAN : Start(f)
        \/ Work \/ Finish

Spec == Init /\ [][Next]_vars /\ WF_vars(Work \/ Finish)
-----------------------------------------------------------------------------
(***************************************************************************)
(* Properties                                                              *)
(***************************************************************************)

\* The modules in use are those of the library; each instance of each module
\* names one, and the one being processed and those waiting are among them.
TypeOK ==
    /\ cur \in DOMAIN lib
    /\ todo \subseteq existed /\ existed \subseteq DOMAIN lib
    /\ DOMAIN lib \subseteq Name
    /\ \A n \in DOMAIN lib : \A i \in Inst(n) : lib[n][i] \in DOMAIN lib
    /\ rest # {} => modu \in existed /\ rest \subseteq Inst(modu)

\* H holds the hierarchy below c, and every instance in it has its own module.
UniqueWithin(H, c) ==
    /\ c \in H
    /\ \A n \in H : \A i \in Inst(n) : lib[n][i] \in H \ {c}
    /\ \A n1, n2 \in H : \A i \in Inst(n1), j \in Inst(n2) :
          lib[n1][i] = lib[n2][j] => n1 = n2 /\ i = j

Unique(c) == \E H \in SUBSET DOMAIN lib : UniqueWithin(H, c)

\* When uniquify returns, no two instances below the current design share a
\* module, whatever was uniquified before, with and without -force.
UniqueAfter == pc = "run" /\ rest = {} /\ todo = {} => Unique(cur)

\* Copies and renamed instances stand for what the source says: the module of
\* an instance comes from the source module the instance names.
SameDesign ==
    \A n \in DOMAIN lib :
        /\ Inst(n) = DOMAIN Design[n[1]]
        /\ \A i \in Inst(n) : lib[n][i][1] = Design[n[1]][i]

\* A design once unique stays so: its own and other designs' later runs may
\* rename what they share, but only to fresh names.
StaysUnique == [][\A t \in Tops : Unique(Top(t)) => Unique(Top(t))']_vars

\* Without -force, a design that is unique is left alone.
Idempotent == [][pc = "run" /\ ~force /\ Unique(cur) => UNCHANGED lib]_vars

\* uniquify ends.
Terminates == pc = "run" ~> pc = "idle"
=============================================================================
