# A TLA+ model of AVS: from the libraries to the signal-level data flow graph

AVS is a command line synthesis environment: it reads register transfer level
Verilog, elaborates it, extracts a *signal-level data flow graph* (SDFG) of
every module, and derives from it finite state machines, datapaths and
candidate partitions.  The graph passes are what the tool is for: they edit a
hierarchical graph in place, from worklists ordered by pointer values, and the
tests of the repository hardly touch them.  The model covers the core of these
passes, the shell commands that build and rewrite the design they work on
(`analyze`, `current_design`, `elaborate`, `uniquify`, `extract_sdfg`), and what
the graphs are made from: the relations of the signals of an always block, the
ranges of bits they speak of, and how they become the graph of a module.

## 1. Inventory of the system

| Component | Source | State | Operations | Interacts with | Hard behaviour |
|---|---|---|---|---|---|
| SDFG graph | `sdfg/dfg_graph.cpp`, `dfg_node.cpp`, `dfg_edge.cpp` | a BGL graph; maps `nodes`, `edges`, `node_map`, `index_map`, `edge_map`; `father`; per instance node `child`, `port2sig`, `sig2port` | `add_node`, `add_edge`, `remove_node`, `remove_edge`, `remove_port`, `remove_port_sig`, `remove_useless_nodes`, `remove_unlisted_nodes`, `deep_copy`, `flatten`, `check_integrity` | a node of kind module owns another graph; edits of the child call edits of the father and back | mutual recursion across the hierarchy; worklists with put-back; order by address; hash indices with probing |
| Datapath extraction | `sdfg/dfg_graph_avs.cpp` | worklists | `remove_control_nodes`, `edge_type_propagate`, `remove_disconnected_nodes` | all edits of the graph | fixpoints, termination, passes undoing each other's assumptions |
| Path types | `sdfg/dfg_path.cpp` | none | `cal_type` and its parts | used by every analysis | an algebra given by a table of 72 cases and two assertions |
| Path search | `sdfg/dfg_node_avs.cpp` | memo `rmap`, result `pmap`, caches `opath_f`, `ipath_f` | `path_search_base_fast`, `path_update_fast`, `get_*_paths_*` | reads the graph, also across boundaries | memoised recursion, combinational loops, stale caches |
| Register graphs, FSMs | `sdfg/dfg_graph_avs.cpp`, `dfg_node_avs.cpp` | new graphs | `get_reg_graph`, `get_RRG`, `get_hier_RRG`, `is_fsm`, `get_fsms`, `fsm_simplify` | path search | rewriting that may not end |
| Relation trees | `sdfg/rtree.cpp`, `dfg_range.cpp` | trees keyed by signal name and range | `RTree::add`, `RForest::add`, `combine`, `normalize` | built by the netlist, read by `gen_sdfg` | splitting of overlapping ranges |
| Netlist | `netlist/*` | `Library`, `Module` with its data bases, statements | `db_register`, `elaborate`, `unfold`, `extract_sdfg`, `gen_sdfg`, `partition` | shell commands; SDFG | elaboration queue, failure in the middle, one graph shared by all instances of a module |
| Shell | `shell/*` | `macroDB` mirrored in Tcl, link libraries, current design, line buffer | the commands; `CMDTclFeed::getline`; the hooks on `TMP_PATH`, `CURRENT_DESIGN`, `SEARCH_PATH`; `ErrReport` | everything | two copies of a variable, partial failures, buffer boundaries |
| Range library | `cpprange/*` | none | set algebra of bit ranges: `combine`, `intersection`, `complement`, `subset`, `overlap`, `toRange` | relation trees, if statements, partial nodes of the graph | boundaries of intervals, rows cut and put back in several dimensions |
| SAIF reader, Verilog parser | `cppsaif`, `averilog` | parse trees | parser actions | netlist | little state |
| Preprocessor, pugixml, cpptcl, sdfg2pdf, vbdd | | | | | vendored, drawing, or empty |

What makes each of them correct:

* *Useless node removal*: ends; leaves no useless node; removes nothing that is
  of use; its result does not depend on addresses; never touches a vertex that
  is gone.
* *Hierarchy boundary*: `port2sig` and `sig2port` are inverse to each other and
  agree with the edges around the instance (`check_integrity` asserts this); an
  edit of one level loses nothing that is alive on the other.
* *Path types and search*: the type of a path does not depend on where one
  starts to compute it; the search reports every end and exactly the types of
  the ways to it, and ends on any graph.
* *Type propagation*: ends; leaves a fixpoint; does not touch what carries data.
  *Datapath*: keeps exactly what lies between inputs and outputs.  *RForest*:
  ranges of a name stay disjoint, no relation is lost, no latch is missed and
  none invented.  *Range library*: an operation on maps is the operation on the
  sets of bits they denote, and a set of bits has one map.  *Elaborate, uniquify*: each instance names a module
  that exists, no name is used twice, a failure leaves the library alone.
  *Hooks*: both copies of a variable agree.  *Line feed*: lines come out whole.

## 2. Modules

| Module | Models | Kind |
|---|---|---|
| `DfgGraph` | neighbours, degrees, removal of a vertex, the conditions and put-back rules of `remove_useless_nodes` | operators |
| `UselessNodes` | `remove_useless_nodes` on one graph | state machine |
| `PruneSpec` | what it promises: useless nodes go one at a time, in any order, until there is none | abstract specification |
| `UselessNodes_proofs` | theorems about `UselessNodes` | proofs |
| `HierCleanup` | `remove_control_nodes` and `remove_useless_nodes` on a top graph, an instance and its child, with the port maps | state machine, composes the conditions of `DfgGraph` at two levels |
| `HierCleanup_proofs` | theorems about `HierCleanup` | proofs |
| `Datapath` | `extract_datapath_new` on a design without instances: `remove_control_nodes`, `edge_type_propagate`, `remove_disconnected_nodes`, `remove_unlisted_nodes` | state machine over `DfgGraph` and `PathType` |
| `DatapathSpec` | what it promises: in one step, what lies between inputs and outputs on data wires, with the types it had | abstract specification |
| `Datapath_proofs` | theorems about `Datapath`, the refinement among them | proofs |
| `PathType` | `cal_type` | operators |
| `PathSearch` | `path_search_base_fast`, `path_update_fast`, `update_search_map` | state machine over `PathType` |
| `PathSearch_proofs` | the laws of `cal_type`, and theorems about `PathSearch` | proofs |
| `Elaborate` | the libraries; `analyze`, `current_design` with its hook, `elaborate` with its queue of modules | state machine |
| `Elaborate_proofs` | theorems about `Elaborate` | proofs |
| `Uniquify` | `uniquify`, with and without `-force`, on a library of elaborated modules | state machine |
| `Uniquify_proofs` | theorems about `Uniquify` and `ExtractSdfg` | proofs |
| `ExtractSdfg` | `extract_sdfg`: `uniquify`, then the graphs of the modules and their fathers | state machine, extends `Uniquify` |
| `RForest` | `RTree` and `RForest`: adding, splitting and combining relation trees | operators over `PathType` |
| `Statements` | `get_rforest` of assignments, blocks, if and case statements, beside what running them does | state machine over `RForest` |
| `Statements_proofs` | theorems about `RForest` and `Statements` | proofs |
| `GenSdfg` | `extract_sdfg` of one module: `gen_sdfg` of assignments, always blocks and the instance, `connect_partial_nodes`, `correct_conections` | state machine over `PathType` |
| `GenSdfg_proofs` | theorems about `GenSdfg`, and what the maps rely on when they cut intervals | proofs |
| `RangeElement` | the intervals of `cpprange` | operators |
| `RangeMap` | the range maps of `cpprange` and their operations | state machine over `RangeElement` |
| `MCUselessNodes`, `MCHierCleanup`, `MCPathSearch`, `MCDatapath`, `MCElaborate`, `MCExtractSdfg`, `MCStatements`, `MCGenSdfg`, `MCRangeMap` | instances for TLC | |

A definition marked *Mutant* in a comment is never used by a specification: it
is a plausible wrong version of the definition after it, against which the
properties have been tried (`PROJECT.json`, `mutants`).

### How state and actions correspond to the code

`UselessNodes`.  `nodes` and `arcs` are the graph; `todo` and `again` are
`node_list` (which the code keeps a second time as `node_set`).  The list starts
in the order of vertex addresses, so `todo` is a set; nodes put back are
examined after all of those.  Among the nodes put back the model allows any
order, the code is first in first out: the model has every behaviour of the code
and some more.  `Keep` and `Drop` are one turn of the loop; `Drop` is
`remove_node` and the put-back of the branch of the node's kind.  Parallel edges
of different types are one arc: the loop only asks whether there is one.
`entry` is history.

`HierCleanup`.  The record `dfg` holds both graphs and the maps of the instance
node as functions with a domain, since the code distinguishes a port without
entry from one with an empty entry.  The edits are operators on that record, one
per function, calling each other as the functions do (`RemoveChildNode` →
`RemovePort` → `CutArc` → `RemovePortSig`).  The call stack is `pc`:
`cut` (the edges of a control or clock type go, one `CutControl` each), `child`
(the child's own pass), `top` (the loop of the top graph), `nested` (the child's
loop called from the instance branch), `resume` (the rest of that branch),
`done`.  `ins` and `outs` are the locals `inodes` and `onodes`, read before the
child is cleaned and used afterwards.

`PathSearch`.  The recursion is an explicit stack of frames: the node, the type
of the current path, its `node_set`, the neighbours still to be visited.
`End`, `Loop`, `Replay` and `Expand` are the four ways a call on a neighbour can
go, `Return` the end of a call; each of them includes the caller's update of
`rmap`.  Neighbours come from a map keyed by pointers, hence in any order.
`walks`, computed once, is the reference: every walk with its own type.

`Datapath`.  A wire is an edge as the design has it; `type` maps the wires left to
the type they have now, so a retyped edge is still known by what it was.
`RemoveControl` is `remove_control_nodes` up to the type propagation: it cuts the
control edges at once and takes for the result of `remove_useless_nodes` the
largest self-supporting set, which `Confluent` and its theorem show it to be.
`look`, `inlook` and `seen` are `nlook_list`, `nlook_set` and `nall_set` of
`edge_type_propagate`, which are updated side by side and not always together;
`LookCombi` and `LookReg` are its two helper functions.  `list`, `oconn` and
`iconn` are `proc_nodes`, `onode_set` and `inode_set` of
`remove_disconnected_nodes`, which runs two passes (`pass`); nodes enter the lists
in any order, as sets of pointers give them.  `via`, a history, says how an entry
of the list was reached, and `entry` is the design.

`RForest` and `Statements`.  A tree is a signal, the set of bits meant (`select`)
and its leaves, a function from source and relation type to the bits of the
source; a forest is a sequence of trees.  A call of `RForest::add` that splits a tree
adds what is left of both trees by two further calls; `AddCall` is one call with
the calls that wait in `todo`, in the order of the recursion, and `AddCalls` the
calls in a row, at most two for each tree of the forest and one more.  Ranges are sets of bits here: that the
operations on range maps are the operations on sets is what `RangeMap` shows.  A
statement is put together bottom up: `stack` holds the results of `get_rforest`
for the statements made so far, and `Assign`, `Block`, `If`, `Case` take the parts
from its top and put the whole there, as the recursion over the syntax tree
does.  Beside each forest stands a reference that is not taken from the code: the
runs of the statement (for each possible execution, what is assigned last to
each bit), the conditions each bit depends on, and the bits that some if or case
inside may leave alone.  The indices on the left of an assignment are constants: what an
index expression would add as address relations (`lconcatenation.cpp:138`) is left out.

`GenSdfg`.  A node is a name with a set of bits, as `node_map` keys nodes by name
and compares ranges; `types` says which exist and what they are.  The steps are
those of `Module::extract_sdfg`: `DrawPorts`, one `Statement` each, one
`Connection` of the instance each, `ConnectPartial`, `Correct`.  A statement is
given by its relation trees and, for an always block, the edges in its sensitivity
list (`pulse`).  The leaves of the trees are as in `RForest`.  An edge
keeps the type it was drawn with (`was`), also when it is moved: retyping to a
reset may make two edges of one type between the same nodes, which `add_edge`
forbids only when an edge is added, and a register that its own bits reset has
such edges inside one signal.  `p2s` is `port2sig`; `sig2port` is
its inverse here.  `StatementLost` is the lookup of a node no relation has made,
which yields null in the code.  The reference is not taken from the code: `Reads`
and `Writes` are what the statements and connections say, `Feeding` is what the
graph says.  A `Constant` is a combinational node that nothing feeds: an assignment
of a number has such a node if something else names its target, and the graph says
nothing of its value.  `Torn` are the signals of ports that drive them and that the
module drives as well, in other pieces (section 4).  `DesignAssumption` says what a
module is: names are those of declared signals, a statement selects bits of the
signals it assigns, one signal of a sensitivity list is the clock
(`assert(clks.size() == 1)`, `seqblock.cpp:311`), a connection has a range if its
signal has one, and a port has one connection.

`RangeMap`.  A map is a sequence of rows from high to low, a row an interval with
the map of the remaining dimensions, as `RangeMapBase` has a list of children.
The operators have the names of the functions; the loop over two lists is a
recursion that returns what the loop appends (`Merge`, `Subtract`, `Subset`,
`Place`).  The state is two maps, and each action makes one of them anew with an
operation the tool uses; `bits`, a history, is the set each should denote.  The
level that the code keeps with every row is the depth of the map, an undefined
interval is one without bits, and exceptions on maps of different dimensions are
left out.

`Elaborate`.  `libs` is `link_lib`, `curLib` the current library, `cur` and
`curDgn` the current design as the name in `macroDB` and as the object the
netlist commands start from, `queue` and `mmap` the locals `moduleQueue` and
`moduleMap` of `elaborate`, of which `Elab` is one turn of the loop, `Fail` the
return when an instance does not resolve, and `Save` the end.  `Src` are the
texts of modules and `Title` the name of each: two libraries may hold different texts of
one name, with another default, other instances, or no parameter at all, and `elaborate`
may replace a module of `work` by one of another text (`env.cpp:281`,
`elaborate.cpp:295`).  The constant `Body` says which names a text instantiates for which
value of its parameter; a module has at most one parameter.  Statements, generate blocks
and port widths are inside `Body`; texts of one name have ports and parameters
of the same names (where they have not, the command fails as for an unknown module).  Names with parameters are pairs, so two
different pairs never make the same name; in the code they are concatenated
(a hazard no property covers yet).  The queue is first in, first out; the order
in which the instances of one module queue theirs is that of a hash map, here
any order.  `elaborate` may start in every state the shell is idle in, with every
library, name and parameter.

`Uniquify`.  `todo`, `existed` and `modu` are `process_module_list`,
`existed_module_set` and `cur_modu`; `rest` is where the loop over the instances
is.  `Take` is the outer loop, `Rename` and `Keep` the two ways a turn of the
inner loop can go.  The list is first in, first out; the model takes any of it,
hence has every behaviour of the code and some more.  `Fresh` is the loop on
`suffix_increase` until `find_module` fails.  The command remembers in
`mname_map` where to start counting; all names it has counted over are in the
library, so the memo does not change which name is found and is left out.
Modules are elaborated (an instance that is not is skipped), so the branches for
modules that are not found never run.

`ExtractSdfg` adds to that state `dfg` (the graph of each module that has one,
reduced to the module below each instance node) and `father` (the instance node
around each graph), `target` (the design to extract when `uniquify` is over) and
`calls`, the module nodes that wait for their child.  `Make` draws the node of each
instance; `Child` is what `Module::extract_sdfg` does for one of them: the module
gets a graph if it has none, and then the node becomes its father, whatever father
it had.  The code goes through the nodes depth first and the model in any order, so
that of several nodes with one child any may be the last to call itself the father.  The
next command waits until no node waits.

## 3. Runs

| Run | Question | Bounds |
|---|---|---|
| `useless` | nothing escapes, one result for all orders, the loop ends and implements `PruneSpec` | every legal graph on an input port, a register and two combinational nodes, and on an output, an inout port, a register and a combinational node |
| `hier` | maps, edges and worklists stay consistent; the nested loops end; of designs without shared signals, the top graph and the child are clean and no live path is lost | two inputs and an output, or an input, an inout and an output, on two signals, shared or not, or open; an input and two outputs, one of them without load; every set of control edges at the instance |
| `hier_core_shared` | *violated*: a live path is lost when ports share a signal | two inputs and an output, as in `hier` |
| `paths` | without combinational loops the search is exact, its memo too; with them it ends, its recursion is bounded and nothing is invented | all graphs on the six arcs of a diamond with a short cut and a feedback through the register, three types; graphs with three nested loops, two types that do not commute; both directions; three starts |
| `elab_work` | names, queue, bindings, and what is saved are right after any sequence of commands; `elaborate` ends | two libraries, two names, one of them with three texts: two defaults of its parameter, or none; one text contains itself with a value and the other name |
| `extract` | each instance gets its own module, the design stays the same, a unique design stays unique and is left alone, `uniquify` ends; of modules no two designs share, each graph has one father and each module below one with a graph has a graph | two designs that share two modules, one of which has another module twice; `-force` once, names numbered up to 9 |
| `extract_two` | *violated*: a module without graph below one with a graph | two designs that share modules |
| `datapath` | retyping never touches what carries data, propagation stops at a fixpoint, the search list holds a node at most once per path, and the result is that of `DatapathSpec` | every subset of twelve wires on an input, an output, an inout port, a register and two combinational nodes; every order of the lists |
| `statements` | ranges stay disjoint, every bit that may keep its value is found and no other, every source and condition is found | up to three assignments, to a signal of two bits, whole or one bit of it, and to one without range together with the other bit; case statements with two items, an incomplete one, one with two labels |
| `case_default` | *violated*: what comes after a default is lost | as `statements`, with a default before another item |
| `gen_sdfg` | every read of some bits is fed by all that writes one of them and by nothing else; the arcs of the instance agree with its port map | a vector of three bits, divided in every way into pieces written by a register, combinational code, an assignment or the instance, or whole by a port; every selection of bits read by an assignment, before or after the writers, and by an expression or a variable at the instance; registers that read the vector themselves; the vector at an inout port, assigned as it is connected or in part |
| `ranges` | maps denote the bits they should, equal sets have equal maps, `subset` and `overlap` are right | every pair of sets of bits of a signal of three by two bits, reached by every sequence of operations |

Why the bounds are enough for what is asked.  Four nodes give chains of two
nodes between a port and a register and self-supporting cycles, the two ways in
which a removal makes a neighbour useless or not.  Three ports and two signals
give two ports on one signal, one port alone, and an open port; the second output of
`hier` is there so that the child is cleaned again for a port that the top graph
gives up.  The diamond is the smallest graph in which a node is reached by two ways with different types,
so that the memo answers; its arcs may each be absent.  The walks of the
reference have at most `WalkBound` edges; `Init` asks that longer ones add nothing, and with
a bound of 10 no graph of the runs is left out for that, since only ends and types of
a walk are kept and these saturate on loops too.

The sources of `elab_work` have a module that instantiates itself, with a value, and
is instantiated without one by a module it contains.  Its name has two more
texts, so that each library may give another default or a module without parameter, and
a design elaborated from one library meets what was elaborated from the other;
modules are analyzed in any order and at
any time, so that each elaboration can fail and be repeated.  In `extract`,
`uniquify` and `extract_sdfg` come in any order and on either design: `s` is below
`v` at two depths, `u` and `s` are below both designs, `x` is twice below `t` and
nowhere else.  `MaxSuffix` is never reached: the run checks deadlock, and a
`Rename` that finds no name would be one.  The design named by `extract_sdfg` is the current
one or `u`, which has one instance.  This matters: `extract_sdfg d` calls `uniquify`,
which starts from the current design and not from `d`; two instances of one module
below `d` would then share a graph, which has one `father`, and the assertion at
`dfg_node.cpp:492` would fail.

The wires of `datapath` include a loop of two nodes, a register that feeds back,
ways of different lengths to one node, control edges whose removal leaves nodes
without source or load, and an inout port that is read and driven.  Three
assignments are enough for a range to be split and then assigned again on either
side of an `if`; a signal without range takes the branch of `RForest::add` for
empty ranges.  Three by two bits are enough for a row to be cut in the middle,
for rows to touch without being joined because what is below differs, and for the
lower dimension to become empty; `ranges` with four by two bits (65536 states)
finds nothing either, and takes longer than is convenient.

Three bits are enough for a read that meets two pieces and lies in neither, for a
selection that falls into two intervals, and for pieces that cover a read only
together; with two kinds of writers on one vector a read may be covered by
registers only in part.  `Fed` speaks of signals whose bits have one driver each; inout signals, which
may have two, are there for `ArcsMapped`, with ports that drive what the module
drives in every division.  The instance has a child, and
clocks and resets are signals without range: a clock that is a bit of a vector
gets a node of its own that nothing feeds (section 6).

Six properties say less than one might expect.  `HoldMeant` asks of a self loop
only that some statement inside may leave the bit alone: `RForest::add` forgets
that it combines in sequence once a range is split (`rtree.cpp:199`), so a bit
that is certainly assigned later may keep a self loop, and the property does not
call that wrong.  `HoldFound` is checked for case items whose labels differ: two
items with one label count as two values (`case.cpp:327`).  `SavedFound` is about searches
while `work` is the current library: after `analyze -library ip` the search
prefers the module as it was analyzed into `ip`, although `elaborate` has saved
its elaborated form in `work`.  `Stable` says that an elaborated module stays as it is
while the libraries agree (`Agreed`) about its text and the texts of the names it
instantiates, and otherwise only that it stays elaborated: with two texts of one name
the last one elaborated is in `work`, also below designs elaborated from the
other; either half of the condition is needed.  `GraphBelow` and
the second half of `OwnWhole` are about designs no one has uniquified with `-force`, which renames
instances in modules that have a graph.  `OwnWhole` speaks of
modules in the hierarchy of one design only: without that restriction both halves fail
(`extract_two`, section 4).

The runs of the graph passes do not check deadlock: every one of these passes
returns, and the model stops where the code does.  The runs of the commands do:
an idle shell takes the next command.

### Fairness

The graph passes have weak fairness of their whole next-state relation and
nothing else.  `Statements`, `GenSdfg` and `RangeMap` have no fairness at all: their properties are about
what has been computed, not about what will be.  The code is a single thread of control that runs a loop: as long
as there is a next step, it is taken.  No choice within a step is assumed fair.
In the modules of the commands only the steps of a command that runs are fair
(`Elab \/ Fail \/ Save`, `Work \/ Finish`, `XWork \/ Extract \/ Children`): what the user
types next, and whether anything, is not.

## 4. What the violated runs show

* `hier_core_shared`.  `remove_port` removes *all* edges between the signal of
  the port and the instance (`dfg_graph.cpp:336-348`) and each removal goes
  through `remove_port_sig`, which blanks *every* port of that direction on that
  signal.  If a signal feeds two inputs of an instance and one of them has no
  load inside, the other loses its signal as well; the logic behind it is then
  removed as having no source.  The comment before the `switch` announces a
  count of the remaining inputs and outputs which is not taken.  `hier`
  shows that sharing is the only cause within the bounds.  For the same reason
  `ChildClean` is claimed only without sharing: the cascade may blank a port that
  the child's own loop has already examined.
* `extract_two`.  If two designs share a module `u` and the first has been
  extracted, uniquifying the second may rename an instance *in* `u`.  `u` keeps
  its graph and is not entered again, so the new module below it never gets one,
  against the assertion at `module.cpp:582`.  For the same reason the
  graph of `u` has two instance nodes and one `father`, the one made last, against
  the assertion at `dfg_node.cpp:492`.
* `case_default`.  `CaseState::get_rforest` leaves its loop at the default item
  (`case.cpp:320`).  Verilog and the grammar (`averilog.y:1272`) accept a default
  anywhere among the items; those after it are dropped, and with them the
  relations of what they assign.

Four more disagreements were met and are in no run:

* `elaborate` ends with "set current design to this design" (`elaborate.cpp:298`),
  but the hook on the variable returns at once when the name is current already
  (`hook.cpp:88`): after `current_design s` and `elaborate s`, with `s` without
  parameters, `curDgn` stays the object the library no longer has.  `Hook` in
  `Elaborate` models this.
* After the child has been cleaned again, `remove_useless_nodes` puts a signal back on
  its list only if the instance has no port on it any more (`dfg_graph.cpp:669`).  A
  signal that one port reads and another drives keeps its entry in `sig2port` when the
  reading port goes, although `remove_port` has cut its edge to the instance.  If
  nothing else reads the signal, it stays in the graph without a load, and with it the
  instance that drives it.  `PlainTopClean` is claimed only of designs where no
  signal has two ports for this reason; two inputs and two outputs are the smallest
  instance on which it fails without that condition.
* `connect_partial_nodes` joins pieces only to a node without any input
  (`dfg_graph_avs.cpp:689`).  The node of an inout port has one, from the port; if the
  module assigns the signal in pieces, the pieces are not joined to it.
  `correct_conections` then moves the input to the pieces, and the port hangs on a
  node that nothing feeds, against the comment at `dfg_graph.hpp:251`.
* The same with an inout port of an instance: the edge from the instance is moved, and
  `remove_edge` takes the port out of both maps although the edge into the instance
  stays, so that the assertion at `dfg_node.cpp:484` fails.  An output port on a
  signal that the module drives as well has the same fate.  `ArcsMapped` exempts
  these nodes (`Torn`) and no others: it holds when the bits that are connected are
  driven as one piece or not all driven, and the theorem of section 5 shows that
  this is the only cause.

## 5. Proofs

`UselessNodes_proofs`, for every set of nodes and every assignment of kinds
(`KindAssumption`: kinds without instances):

* `TypeCorrect`: `arcs` is always the part of `entry` on `nodes`; the other
  theorems rest on it, since it turns an edit of `arcs` into an edit of `nodes`.
* `WorklistAliveHolds`: the worklist is part of the graph: the neighbours put
  back are never the node just removed.
* `NoneEscapesHolds`: the invariant is that every useless node is pending.  The
  argument is in `OnlyNeighboursSuffer` and `DisturbedCovers`: removing a node
  can make only a neighbour useless, and only a neighbour on the side that is put
  back, because the removed node had nothing on the other side.  This is where
  the code's selective put-back could have been wrong.
* `CoreKeptHolds`: by `UselessMonotone` (with fewer arcs a node can only become
  useless) a self-supporting set in the graph is never hit.
* `ConfluentHolds`: what is left at the end supports itself by `NoneEscapes`, and
  contains every self-supporting set by `CoreKept`.
* `RefinesPrune`: each step is a step of `PruneSpec` or a stutter (the safety
  part, `Abstract == INSTANCE PruneSpec WITH ...`; the liveness part is checked by
  `useless`).

`HierCleanup_proofs`, for every design of one instance, of any size, however its
ports are connected and in whatever order the lists are worked
(`HierAssumption`: an input port has no source and an output port no load, in the
top graph and in the child, and no port of the child has an arc to itself;
`Module::gen_sdfg` draws a port as a node of its own, apart from the signal it
carries, and connects it on its side only):

* `Consistent(d, X, Y)` is the invariant of the edits, one lemma per function
  (`PortSigEdit` for `remove_port_sig`, `InstArcCut` for `remove_edge`,
  `PortRemoved` for `remove_port`, `ChildNodeRemoved`, `TopNodeRemoved`).  The maps
  are inverse to each other (`Agree`), each mapped port has its arcs (`Backed`)
  and no signal has an empty entry (`Filled`).  None of the three survives alone: an
  edge may be cut only because the ports on it are found through `sig2port`.  In the
  middle of `remove_port` they fail for the port being removed and its signal, which
  is what `X` and `Y` exempt.
* `IInv` adds what relates the maps to the call stack.  `Mapped`: unless the
  instance is still to be examined, its arcs are of mapped signals; the child's
  own pass breaks it, `InstResume` restores it from `ins` and `outs`, which were
  read before the child was cleaned and are still right because the child can only
  take arcs away (`Branch`).  `PortsListed`: a port without entry is still on the
  child's list.
* `MapsAgreeHolds` and `WorklistsAliveHolds` are parts of it; `IntegrityHolds` is
  `Backed`, `Filled`, `Mapped` and `PortsListed` at the end.

* Of a design in which no signal has two ports (`Plain`), more is proved by a second
  invariant, `KInv`, which adds `PlainInv`.  An edit of one port then leaves the entries of
  all others alone, and that is all `Plain` is used for; without it the three results
  fail (`hier_core_shared`, section 4).
  `PlainTopCleanHolds` and `ChildCleanHolds`: a useless node is pending, and
  the three places where it may wait are `TopPending`, `InstPending` and `ChildPending`.
  The list of its own level is one; a signal the child's clean up takes from the
  instance waits in `ins` and `outs` until `InstResume`; a port that loses its
  signal after the child has been cleaned waits because the instance is listed again,
  which has the child cleaned once more.
  `PlainCoreKeptHolds`: `Core` says of a set of nodes of both levels that supports
  itself across the instance that its nodes, arcs and port entries all stay; so
  no member of it is ever useless where it is examined.

`PathSearch_proofs`, for every graph, however large, every order in which the
neighbours of a node are visited, and both directions (`PathAssumption`: edges have types without
clock, reset and default self loop, `PlainTypes`, and `WalkBound` only has to be
large enough for longer walks to add nothing, as `Init` asks):

* `CalTypeClosed` (no assertion is reached), `CalTypeAssociative` and
  `CalTypeDistributes` are the laws of `cal_type`.  With them `BetweenJoin` shows that
  the types of all ways to a node may be merged before they are composed with the rest of
  the way, which is what `path_update_fast` does with an entry of `rmap`.
* `SoundHolds`: `SInv` says of the frames of the stack that each carries the type of
  one walk from the start, and of each entry of `rmap` that every bit of it belongs
  to a walk.  Merged types are not types of a walk, so the argument goes bit by
  bit (`CalTypeBits`).  It needs nothing of loops.
* `NoReentryHolds`: the nodes of the frames below are in `node_set` (`CallsOK`), one
  short in the backward search.
* `CompleteHolds` and `MemoExactHolds`, for graphs without combinational loops:
  `CInv` says that what a frame still has to do and what its
  entry already covers make up all that can be reached from its node (`CoverOK`), and
  that a node which has been left is covered entirely.  Without loops the branch
  `Loop` is never taken (`NoLoop`), and the memo is never asked for a node whose
  call is still under way (`NotUnderWay`), whose entry would be unfinished.

`Uniquify_proofs`, for every library of modules, every set of designs and every
bound (`DesignAssumption`; a design may even contain itself):

* `TypeCorrect`: names in use are in the library, instances name modules of the
  library, and what waits is known.
* `UniqueAfterHolds`: when the command is about to return, every instance below
  the current design has its own module.  This is not inductive: in between, some
  instances still share.  The invariant `RunInv` speaks of the instances already
  *settled*, those of known modules that neither wait nor are in `rest`: they name
  known modules other than the design, no two name the same one, and every known
  module but the design is named.  When nothing waits, all are settled.
* `SameDesignHolds`: renaming never changes which source module an instance
  stands for.
* `StaysUniqueHolds`: the hierarchy that witnesses uniqueness survives a
  `Rename`: the new name is fresh, so an instance in it that is renamed takes its
  place in the hierarchy.
* `IdempotentHolds`: without `-force`, `Rename` is not enabled on a design that is
  unique: the modules known are part of that hierarchy, and a second instance of
  one would contradict it.
* `ExtractKeepsUniquify`: all of this holds when graphs are extracted between and
  after the commands, since a step of `ExtractSdfg` is one of `Uniquify` or leaves the
  netlist alone.
* `OwnWholeHolds`: modules that only one design has below it have whole graphs, one
  father each, whatever is uniquified and extracted, with and without
  `-force`, of whichever design.  It is proved under `SharedTargets`: `extract_sdfg`
  is called on the current design, or on a design of whose modules none
  belongs to one design alone, like `u` in the run.  (Called on another design, `uniquify` does not
  make that one unique and the property fails, section 3.)  The invariant `XInv` adds to
  those of `Uniquify` that a design of which something is in a graph has a hierarchy that is
  `Clean`: unique, and each module recorded in a graph is met only at the
  instance that is recorded.  `UniqueLeftAlone` says that a run on that design then renames
  nothing, so `lib` and the graphs stay the same below it (`Refers`).  A run on
  another design may copy modules both have, but nothing below these is of one
  design alone (`OwnUpwards`, `RenameKeepsClean`).  A run with `-force` breaks the
  hierarchy while it lasts and ends with one of new modules that no graph knows
  (`ForceInv`, `FinishClean`).  `CallInv` ties the graphs being made to the clean hierarchy
  of the current design, from which `Fathers` follows.

`Elaborate_proofs`, for all libraries in any order, all texts of modules and whatever names
they share and instantiate, and all values of their parameters (`SourceAssumption`; a
module may contain itself).  One assumption is a restriction of the program's input: no source
module has a name that `calculate_name` could make from a name and a parameter
(`Ident \cap (Ident \X Val) = {}`); names are concatenated strings in the code, and
with such a clash an instance can be bound to the wrong module.

* The invariant `IInv` says of every object what its name says (`Good`: the instances of
  an elaborated module have names that its source allows for the value in its name,
  `Binds`), of the map that a module in it waits or has all its instances in it
  (`Waits`), and of `work` that it is closed.  `Closed` alone is not inductive: `Save`
  keeps it only because of `Waits`, and `Elab` keeps `Waits` only because the names it
  gives are those it queues.
* `BoundHolds` needs `Good` in every library, also those that are not saved to: an
  elaborated module may be read again from `work` and elaborated from its elaborated
  form, where the instances have names with parameters and take no value
  (`ElabCall`), beside modules read for the first time (`SourceCall`); both yield
  names the source allows (`TurnNames`), though not always the same: an instance bound to a
  module without parameter is bound anew if the search now meets a text with one.
* `StableHolds` needs to know, when the libraries agree, that they always did as far as
  a module depends on it.  A text that once gave an instance its name may have been
  replaced since, but only in `work` and only by a module without a parameter, which
  then stays; so the name is explained by what the libraries still hold (`Backed`,
  `BackedKept`), and if they hold one text of each name concerned, elaborating again
  yields the same names (`SameName`) and the same module (`SameModule`).
* `SavedFoundHolds` is about the order of the search; `FoundIn` shows that the
  current library comes first, from the choice of the least position in `FirstIn`.
* `OnceEachHolds` holds for every order in which the instances are visited:
  `TurnOfQueue` shows that the new names, none of which is in the map, do not repeat
  one that waits.

`Datapath_proofs`, for every design without instances, of any size
(`DatapathAssumption`; nodes and wires are finite sets, an input port has no
source and an output port no load):

* `DataKeptHolds` and `RefinesDatapathSpec` follow from one inductive invariant,
  `GraphInv /\ WalkInv /\ DataKept`.  `GraphInv` says that the datapath of the
  design on entry is still in the graph; it survives the removal of useless nodes
  because it supports itself (`UsefulKeeps`), and a prune because a walk in what is
  left is a walk in the design and the other way round (`DatapathStays`).
  `WalkInv` is that of a graph search: what is found is reachable, and what is
  reachable is found or has something on the list before it, so that the sets are
  exact when the list is empty (`SearchEnds`).  `DataKept` is needed in it because
  types decide what the abstract result shows: a node on a way that carries data
  has a data edge on either side that is part of the same way, so `TurnIn` and
  `TurnOut` never pick an edge of it (`RetypeInKept`, `RetypeOutKept`).
* The refinement is `INSTANCE DatapathSpec WITH` the graph on entry until the model
  is done and the graph then: every step is a stutter but the last `Prune`, which
  is `Extract`.
* `SettledHolds`: `LookInv` says that in the pass over nodes a node that has been looked at
  and is not settled is on the list.  After both turns at a node nothing is
  left to turn there, since what is taken over is control and never gives a reason to
  turn (`TurnedIsControl`); only its neighbours are touched, and they are pushed.
* `OnePerPathHolds`: `TrailInv` is stronger than the property: no entry of the search list
  leads to another, because the way of an entry is only extended when the entry leaves
  the list, and each extension by another wire is another way.

`Statements_proofs`, for signals of any number and width, right sides and
conditions of any kind, and statements of any size and nesting.  The assumptions
say that a signal is always assigned with a range or always without
(`LvalAssumption`; `get_full_selected_name` writes the range out), that no
expression has a default self loop as a source (`RhsAssumption`; `get_rtree` makes
none), and that a case has an item and its expression finitely many values
(`CaseAssumption`).

* `Good` is the invariant of a forest: trees of one signal share no bit, and the
  range of a tree is empty exactly if its signal has none.  `AddTreeFacts` says
  what one `RForest::add` does to it, under the recursion with which the code adds the
  rests of a split.  `Agenda` relates the forest and the calls that wait to the
  forest and the tree of the first call: together they have the same bits, no
  leaf of another origin, and every leaf that is owed.  `Ends` shows that the
  calls end: the tree that is added no longer meets the first trees of the
  forest, one more after each split, and the rest of the tree that was split meets
  nothing.  The recursive functions are unfolded as functions on an interval
  (`AddCallsDef`, `CombiningDef`), where `UpTo` stands in for the induction theorem
  that the prover cannot instantiate.
* `Owed` is the point of combining in sequence: every leaf, but no default self
  loop for a bit that is assigned already.  What waits after a split is added
  out of sequence (`rtree.cpp:199`), so only what is *never lost* can be stated of self
  loops, not what is always dropped; `BlockFacts` shows what remains: a block
  keeps a self loop if each part that assigns the bit has it, and has none that
  no part has.
* `MissingFacts`, `JoinedFacts` and `BranchesFacts` are the common part of if and
  case: the self loops added for what a branch leaves alone cover exactly
  these bits, whatever order the sets are gone through, since only the elements of
  a sequence are used (`SetToSeqFacts`).
* `DisjointHolds` has no further hypothesis.  Its invariant is `AllGood`.
* `FlowFoundHolds` asks that the default of a case comes last (`DefaultLast`),
  without which `case_default` violates it.  Its invariant `AllFlow` adds that these leaves
  are not default self loops: otherwise a block might drop them.
* `HoldFoundHolds` asks besides that no value is in two items (`NoLabelTwice`):
  the code compares the number of items with that of values, and with a label twice
  takes an incomplete case for complete (`FullTakes`).  Its invariant is `AllKeep`.
* `HoldMeantHolds` asks besides that some value gets to each default
  (`DefaultReached`): else what only the default assigns has a tree but no run
  that assigns it.  Its invariant `AllMean` needs `AllFlow`: an if or a case gives self
  loops to the bits of which a branch has no tree, and it is by `AllFlow` that no run
  of that branch assigns them.  The cases of
  the run `statements` meet all three.

`GenSdfg_proofs`, for every module with one instance: any number of signals, pieces,
statements and connections (`Assumptions`: `DesignAssumption`, see section 2, and
that the instance, the port nodes and the expressions have names of their own):

* `FedHolds` and `ArcsMappedHolds` rest on one inductive invariant, `Inv`, which knows the graph
  exactly.  What a port, a statement or a connection draws depends on nothing but
  itself, so the arcs drawn so far are `Base` of the statements and connections done
  so far, up to the type that retyping to resets changes; `NodesOK` says of
  each node what it is, a wire if and only if no statement drives it.  Neither is
  inductive alone: that a later statement does not turn a register into a wire needs
  the nodes, and that every arc has its ends needs the arcs.  `ConnectPartial`
  turns `Base` into `Joining`, `Correct` turns `Joining` into `LastArcs`, and what
  is moved never goes (`MovedStay`).
* From there `Fed` is an argument about arcs (`FinishedFed`).  In a signal whose bits
  have one writer each, a piece that something drives from outside is never
  redundant (`FedKept`): the driven pieces that would cover it would be second
  writers.  So a wire keeps the arcs drawn into it (`FedSources`) or, having none, is
  joined to all fed pieces that overlap it and to no others (`PieceSources`); and a
  read of a redundant piece is moved to the driven pieces of its bits
  (`UseStands`, `ReadFedByAll`).  Where bits have two drivers the first step
  fails, which is the third disagreement of section 4.
* `ArcsMapped` follows because a port is taken off the map exactly when the arc of
  its signal goes (`OffPorts`), and only an arc out of the instance into a node of
  `Torn` can go (`LastAtInst`, `ConnTorn`).
* The proof found what the run had not: a constant in the middle of a
  vector is a writer that nothing feeds (`Constant`), a moved edge had lost what it was
  drawn as, and output ports meet the same disagreement as inout ports.  The designs
  `Consts`, `Own` and `Inouts` of the run are there for these.
* The last section is about the intervals of `RangeElement`, for any integers:
  `DivideKeepsBits` (no bit is lost or invented, the middle part is the
  intersection), `DivideOrdered` (the parts are disjoint and in order),
  `DivideOwner` (an outer part was cut from exactly one of the two, so
  `rL.subset(*lit)` puts it back in the right list), `ConnectedJoins` (what
  `normalize` joins is an interval) and `PiecesApart` (two pieces that `toRange` makes
  of a signal neither overlap nor touch).  From these to maps is an induction over
  rows and dimensions, which is out of the prover's reach; the run `ranges` checks it
  on a small signal.

Only model-checked: termination (liveness under fairness is out of the prover's
reach; of `uniquify` it holds for the designs of the run `extract`, which do not contain
themselves, and not for all the theorems allow), and the operators of `RangeMap`, which are
recursive over rows and dimensions, with its properties `Exact` and `Canonical`.

## 6. Not modelled, and the plan

Not modelled so far: see the notes of the components in `PROJECT.json`.
The reasons in short: expressions, numbers
and the elaboration of statements are recursion over syntax trees with arbitrary
data; readers, printers and drawing have no state of their own; the preprocessor
and the libraries for XML and Tcl are not part of the program's own logic.

Limits of what is modelled: one instance with a child (no black box, no two
instances sharing a child); `Datapath` has no instances, so no type crosses a
boundary and the loop over instances between its two passes has nothing to do;
the path search does not cross boundaries, and its runs have no clock, reset or
DDP edges; one parameter per module; elaboration and extraction are not composed,
so that the loss of graphs when a module is elaborated again is not in a run;
`Statements` has no loops; the forests of `GenSdfg` are chosen directly, not
made by it, and it has one instance, one clock and one reset.

Three things the code does with names and ranges are in `GenSdfg` but in no run,
because nothing in the repository says what should happen: a clock that is a bit of
a vector hangs on a node of the bare name (`seqblock.cpp:323`), data that shares a
vector with the reset is retyped with it (`seqblock.cpp:331`), and a
block that assigns a signal only a constant ends the extraction (`StatementLost`,
which the run reaches and no property forbids).

Order of the work to come, the most important first:

1. `Datapath` with instances, over the maps of `HierCleanup`: what a shared port
   edge conflates when types propagate through it.
2. The search across boundaries; the node caches against edits of the graph.
3. `DfgIndex`: `add_node`, `add_edge`, removal, the probed indices against
   `check_integrity`; `deep_copy`, `set_new_child`, `remap_ports`.
4. `RegGraph`: register graphs.  `fsm_simplify`, whose only call is commented
   out, comes last if at all.
5. `Design`: `Elaborate` composed with `ExtractSdfg`; several parameters and the
   names they make, with the clash that `SourceAssumption` excludes.
6. `TclFeed`, `Hooks`: the line buffer over a small alphabet; two copies of a
   variable and partial failures.
