------------------------------ MODULE PathType ------------------------------
(***************************************************************************)
(* The types of edges and paths, dfgEdge::edge_type_t, and how they        *)
(* compose along a path, dfgPath::cal_type.  A type is an int used as a    *)
(* set of bits: here it is the set of their names, the value SDFG_DF is    *)
(* the empty set, and | is union.                                          *)
(***************************************************************************)

DataTypes    == {"DDP", "CAL", "ASS", "DAT"}            \* SDFG_DAT_MASK
ControlTypes == {"CMP", "EQU", "LOG", "ADR", "CTL"}     \* SDFG_CTL_MASK
CRTypes      == {"CLK", "RST"}                          \* SDFG_CR_MASK

Data(t)    == t \cap DataTypes
Control(t) == t \cap ControlTypes
CR(t)      == t \cap CRTypes

\* cal_type_data: an assignment hands on what follows it, a calculation or
\* another use of the data hides it.
CalTypeData(d0, d1) ==
    IF d0 = {} \/ d1 = {} THEN {}
    ELSE (d0 \ {"ASS"}) \cup (IF "ASS" \in d0 THEN d1 ELSE {})

\* cal_type_data2control: data that reaches a control input is control.
CalTypeData2Control(d0, c1) == IF d0 = {} THEN {} ELSE c1

\* cal_type: the type of a path of type t0 continued by one of type t1.
CalType(t0, t1) ==
    IF t0 = {} THEN t1
    ELSE IF t1 = {} THEN t0
    ELSE IF CR(t1) # {} \/ t0 = t1 THEN t1
    ELSE IF Data(t0) = {} /\ Control(t1) = {} THEN t0
    ELSE Control(t0) \cup CalTypeData2Control(Data(t0), Control(t1))
                     \cup CalTypeData(Data(t0), Data(t1))

\* Where cal_type does not run into one of its two assertions.  The default
\* self data path DDP may only come first, and only before an assignment;
\* nothing but a clock or a reset may follow a clock or a reset.
CalTypeDefined(t0, t1) ==
    \/ t0 = {} \/ t1 = {} \/ CR(t1) # {} \/ t0 = t1
    \/ /\ Data(t0) \cup Control(t0) # {}
       /\ "DDP" \notin t1
       /\ "DDP" \in t0 => Data(t1) = {"ASS"}

\* The types an edge has when it is known to be data or control, and neither
\* a default self loop nor a clock or reset.
PlainBits  == {"CAL", "ASS", "DAT"} \cup ControlTypes
PlainTypes == (SUBSET PlainBits) \ {{}}
=============================================================================
