---------------------------- MODULE ExtractSdfg -----------------------------
(***************************************************************************)
(* extract_sdfg: a uniquify of the current design, then the data flow      *)
(* graphs of the named design and, recursively, of every module below it   *)
(* that has none yet.  The graph of a module belongs to the module, and an *)
(* instance refers to the graph of its module; the graph in turn refers to *)
(* the one instance node it is the child of.                               *)
(***************************************************************************)
EXTENDS Uniquify, SequencesExt

CONSTANT Targets      \* the designs extract_sdfg names, besides the current

ASSUME TargetAssumption == Targets \subseteq Src

VARIABLES dfg,        \* Module::DFG: for each instance the module of its child
          father,     \* dfgGraph::father: the module and instance around a graph
          target,     \* the design to extract after uniquify, or None
          calls       \* the module nodes still to be given their child

xvars == <<vars, dfg, father, target, calls>>

HasDfg == DOMAIN dfg

-----------------------------------------------------------------------------
\* A graph without one is made for module n, with a node for each instance.
\* Its nodes are then to be given their children, depth first in the code and
\* in any order here.
Make(n) ==
    /\ n \notin HasDfg
    /\ dfg' = [m \in HasDfg \cup {n} |-> IF m = n THEN lib[n] ELSE dfg[m]]
    /\ calls' = calls \cup ({n} \X Inst(n))

\* Module::extract_sdfg on the module of instance i of n: it makes a graph, or
\* returns that of the module, and the node becomes the father of the graph,
\* whatever father it had.  (The code enters a graph in DFG when its children
\* are done; a module that contains itself would be called for ever.)
Child(n, i) ==
    /\ <<n, i>> \in calls
    /\ LET c == dfg[n][i] IN
       \/ Make(c) /\ UNCHANGED father
       \/ /\ c \in HasDfg
          /\ calls' = calls \ {<<n, i>>}
          /\ father' = [m \in DOMAIN father \cup {c} |-> IF m = c THEN <<n, i>> ELSE father[m]]
          /\ UNCHANGED dfg
    /\ UNCHANGED <<vars, target>>

-----------------------------------------------------------------------------
XInit == /\ Init
         /\ dfg = [n \in {} |-> <<>>] /\ father = [n \in {} |-> <<>>]
         /\ target = None /\ calls = {}

Ready == target = None /\ calls = {}

\* The commands that leave the graphs alone.
XCommand ==
    /\ Ready
    /\ \/ \E t \in Tops : SetCurrent(t)
       \/ \E f \in BOOLEAN : Start(f)
    /\ UNCHANGED <<dfg, father, target, calls>>

\* extract_sdfg [design]: uniquify, without -force, starts from the current
\* design whatever the argument is.
ExtractSdfg(n) ==
    /\ Ready
    /\ Start(FALSE)
    /\ target' = n
    /\ UNCHANGED <<dfg, father, calls>>

XWork == (Work \/ Finish) /\ UNCHANGED <<dfg, father, target, calls>>

\* After uniquify, extract_sdfg goes on to the graph of its design.
Extract ==
    /\ pc = "idle" /\ target # None
    /\ Make(target) \/ (target \in HasDfg /\ UNCHANGED <<dfg, calls>>)
    /\ target' = None
    /\ UNCHANGED <<vars, father>>

Children == \E c \in calls : Child(c[1], c[2])

XNext == \/ XCommand
         \/ \E n \in {cur} \cup {Top(t) : t \in Targets} : ExtractSdfg(n)
         \/ XWork \/ Extract \/ Children

XSpec == XInit /\ [][XNext]_xvars /\ WF_xvars(XWork \/ Extract \/ Children)
-----------------------------------------------------------------------------
\* The commands walk down from a module with a graph through the netlist and
\* assert that each module they meet has one.  uniquify -force renames every
\* instance, in modules that have a graph too, and is left out here.
GraphBelow ==
    pc = "idle" /\ Ready /\ forces = 0 =>
       \A n \in HasDfg : \A i \in Inst(n) : lib[n][i] \in HasDfg

\* The modules in the hierarchy of a source module: those of every set that
\* has the module and what its members instantiate.
Below(m) == {k \in Src : \A S \in SUBSET Src :
                m \in S /\ (\A n \in S : ToSet(Design[n]) \subseteq S) => k \in S}

\* Those in the hierarchy of one design only.
OwnOf(t) == {m \in Below(t) : \A d \in Tops : m \in Below(d) => d = t}

Own == UNION {OwnOf(t) : t \in Tops}

\* dfg_node.cpp:492 asserts of every graph that the node it belongs to is its
\* father.  True of modules no two designs share: uniquify gives each of their
\* instances a module of its own before a graph is made.  And GraphBelow of
\* these modules: uniquify never renames an instance in one that has a graph.
OwnWhole ==
    calls = {} => \A n \in HasDfg :
      /\ \A i \in DOMAIN dfg[n] : dfg[n][i][1] \in Own => father[dfg[n][i]] = <<n, i>>
      /\ forces = 0 /\ n[1] \in Own => \A i \in Inst(n) : lib[n][i] \in HasDfg

=============================================================================
