--------------------------- MODULE Uniquify_proofs ---------------------------
(***************************************************************************)
(* Proofs about Uniquify: the properties its run checks on one set of      *)
(* designs hold for every set of modules, every number of commands and     *)
(* every order in which the list and the instances are visited, also when  *)
(* a module contains itself; and about ExtractSdfg, which runs uniquify    *)
(* before it makes the graphs: what modules no two designs share have.     *)
(***************************************************************************)
EXTENDS ExtractSdfg, TLAPS

\* The instance has been visited in this run.
Settled(n, i) ==
    n \in existed \ todo /\ i \in Inst(n) /\ ~(n = modu /\ i \in rest)

\* H has the design and, with a module, those its settled instances name.
Follows(H) ==
    /\ cur \in H
    /\ \A n \in H : \A i \in Inst(n) : Settled(n, i) => lib[n][i] \in H

TypeInv ==
    /\ TypeOK
    /\ lib \in [DOMAIN lib -> Seq(Name)]
    /\ \A t \in Src : Top(t) \in DOMAIN lib
    /\ pc \in {"idle", "run"}

\* During a run the modules known are exactly those that the design reaches
\* through settled instances, each by one of them.
RunInv ==
    /\ cur \in existed
    /\ modu \notin todo
    /\ \A n \in existed : \A i \in Inst(n) :
          Settled(n, i) => lib[n][i] \in existed \ {cur}
    /\ \A n1, n2 \in existed : \A i \in Inst(n1), j \in Inst(n2) :
          Settled(n1, i) /\ Settled(n2, j) /\ lib[n1][i] = lib[n2][j]
             => n1 = n2 /\ i = j
    /\ \A x \in existed \ {cur} :
          \E n \in existed : \E i \in Inst(n) : Settled(n, i) /\ lib[n][i] = x
    /\ \A H \in SUBSET existed : Follows(H) => existed \subseteq H

IInv == TypeInv /\ (pc = "run" => RunInv)

-----------------------------------------------------------------------------
(***************************************************************************)
(* What Rename does to the library                                         *)
(***************************************************************************)

\* One module is added, a copy of the one the instance had, and only that
\* instance changes: it gets the new module.
Renamed(i, new) ==
    /\ new \in Name \ DOMAIN lib
    /\ new[1] = lib[modu][i][1]
    /\ DOMAIN lib' = DOMAIN lib \cup {new}
    /\ lib' \in [DOMAIN lib' -> Seq(Name)]
    /\ lib'[new] = lib[lib[modu][i]]
    /\ \A n \in DOMAIN lib :
          /\ DOMAIN lib'[n] = Inst(n)
          /\ \A j \in Inst(n) :
                lib'[n][j] = IF n = modu /\ j = i THEN new ELSE lib[n][j]
    /\ todo' = todo \cup {new}
    /\ existed' = existed \cup {new}

LEMMA RenameEffect ==
    ASSUME TypeInv, NEW i \in rest, Rename(i)
    PROVE  \E new \in Name : Renamed(i, new)
<1> DEFINE n == lib[modu][i]
<1>1. modu \in DOMAIN lib /\ i \in Inst(modu) /\ n \in DOMAIN lib
  BY DEF TypeInv, TypeOK
<1>2. PICK new \in Name : /\ Fresh(n, new)
                         /\ lib' = [Stored(new, Copy(n)) EXCEPT ![modu][i] = new]
                         /\ todo' = todo \cup {new}
                         /\ existed' = existed \cup {new}
  BY DEF Rename
<1> DEFINE st == Stored(new, Copy(n))
<1>3. /\ new \notin DOMAIN lib /\ new[1] = n[1]
      /\ DOMAIN st = DOMAIN lib \cup {new}
      /\ st[new] = lib[n] /\ st \in [DOMAIN st -> Seq(Name)]
      /\ \A x \in DOMAIN lib : st[x] = lib[x]
  BY <1>1, <1>2 DEF Fresh, Stored, Copy, TypeInv
<1>4. lib' = [x \in DOMAIN st |-> IF x = modu THEN [st[modu] EXCEPT ![i] = new] ELSE st[x]]
  BY <1>1, <1>2, <1>3
<1>5. st[modu] \in Seq(Name) /\ DOMAIN st[modu] = Inst(modu)
  BY <1>1, <1>3 DEF Inst
<1>6. [st[modu] EXCEPT ![i] = new] \in Seq(Name)
  BY <1>5, <1>1 DEF Inst
<1>7. lib' \in [DOMAIN lib' -> Seq(Name)]
  BY <1>3, <1>4, <1>6
<1>8. lib'[new] = lib[n]
  BY <1>1, <1>3, <1>4
<1>9. ASSUME NEW x \in DOMAIN lib
      PROVE  /\ DOMAIN lib'[x] = Inst(x)
             /\ \A j \in Inst(x) :
                   lib'[x][j] = IF x = modu /\ j = i THEN new ELSE lib[x][j]
  BY <1>1, <1>3, <1>4, <1>5 DEF Inst
<1>10. DOMAIN lib' = DOMAIN lib \cup {new}
  BY <1>3, <1>4
<1> QED
  BY <1>2, <1>3, <1>7, <1>8, <1>9, <1>10 DEF Renamed

-----------------------------------------------------------------------------
(***************************************************************************)
(* Types                                                                   *)
(***************************************************************************)

LEMMA TypeInit == Init => TypeInv
<1> SUFFICES ASSUME Init PROVE TypeInv
  OBVIOUS
<1> USE DesignAssumption
<1>1. DOMAIN lib = {Top(t) : t \in Src} /\ \A t \in Src : Top(t)[1] = t /\ Top(t) \in Name
  BY DEF Init, Top, Name
<1>2. ASSUME NEW n \in DOMAIN lib
      PROVE  lib[n] \in Seq(Name) /\ \A i \in Inst(n) : lib[n][i] \in DOMAIN lib
  <2>1. n[1] \in Src /\ Design[n[1]] \in Seq(Src)
    BY <1>1
  <2>2. lib[n] = [i \in DOMAIN Design[n[1]] |-> Top(Design[n[1]][i])]
    BY DEF Init
  <2>3. \A i \in DOMAIN Design[n[1]] : Design[n[1]][i] \in Src
    BY <2>1
  <2>4. lib[n] \in Seq(Name)
    <3> DEFINE d == Design[n[1]]
    <3>1. DOMAIN d = 1 .. Len(d) /\ Len(d) \in Nat
      BY <2>1
    <3>2. \A i \in 1 .. Len(d) : Top(d[i]) \in Name
      BY <2>3, <1>1, <3>1
    <3>3. [i \in 1 .. Len(d) |-> Top(d[i])] \in Seq(Name)
      BY ONLY <3>1, <3>2
    <3> QED
      BY ONLY <2>2, <3>1, <3>3
  <2> QED
    BY <2>2, <2>3, <2>4, <1>1 DEF Inst
<1>3. cur \in DOMAIN lib
  BY <1>1 DEF Init
<1>4. lib \in [DOMAIN lib -> Seq(Name)]
  BY <1>2 DEF Init
<1> QED
  BY <1>1, <1>2, <1>3, <1>4 DEF TypeInv, TypeOK, Init

LEMMA TypeStep == TypeInv /\ [Next]_vars => TypeInv'
<1> SUFFICES ASSUME TypeInv, [Next]_vars PROVE TypeInv'
  OBVIOUS
<1>1. ASSUME NEW t \in Tops, SetCurrent(t) PROVE TypeInv'
  <2>1. Top(t) \in DOMAIN lib
    BY DesignAssumption DEF TypeInv
  <2> QED
    BY <1>1, <2>1 DEF SetCurrent, TypeInv, TypeOK, Inst
<1>2. ASSUME NEW f \in BOOLEAN, Start(f) PROVE TypeInv'
  BY <1>2 DEF Start, TypeInv, TypeOK, Inst
<1>3. ASSUME NEW n \in todo, Take(n) PROVE TypeInv'
  BY <1>3 DEF Take, Popped, TypeInv, TypeOK, Inst
<1>4. ASSUME NEW i \in rest, Rename(i) PROVE TypeInv'
  <2>1. PICK new \in Name : Renamed(i, new)
    BY <1>4, RenameEffect
  <2>2. ASSUME NEW n \in DOMAIN lib', NEW j \in DOMAIN lib'[n]
        PROVE  lib'[n][j] \in DOMAIN lib'
    <3>1. CASE n = new
      BY <2>1, <2>2, <3>1 DEF Renamed, TypeInv, TypeOK, Inst
    <3>2. CASE n \in DOMAIN lib
      BY <2>1, <2>2, <3>2 DEF Renamed, TypeInv, TypeOK, Inst
    <3> QED
      BY <2>1, <2>2, <3>1, <3>2 DEF Renamed
  <2>3. rest' \subseteq rest /\ modu' = modu /\ cur' = cur /\ pc' = pc
    BY <1>4 DEF Rename
  <2>4. rest' # {} => modu' \in existed' /\ rest' \subseteq DOMAIN lib'[modu']
    BY <2>1, <2>3 DEF Renamed, TypeInv, TypeOK
  <2> QED
    BY <2>1, <2>2, <2>3, <2>4 DEF Renamed, TypeInv, TypeOK, Inst
<1>5. ASSUME NEW i \in rest, Keep(i) PROVE TypeInv'
  BY <1>5 DEF Keep, TypeInv, TypeOK, Inst
<1>6. ASSUME Finish PROVE TypeInv'
  BY <1>6 DEF Finish, TypeInv, TypeOK, Inst
<1>7. ASSUME UNCHANGED vars PROVE TypeInv'
  BY <1>7 DEF vars, TypeInv, TypeOK, Inst
<1> QED
  BY <1>1, <1>2, <1>3, <1>4, <1>5, <1>6, <1>7 DEF Next, Work

\* The command only ever handles modules of the library, and every instance
\* names one of them.
THEOREM TypeCorrect == Spec => []TypeOK
<1>1. TypeInv => TypeOK
  BY DEF TypeInv
<1> QED
  BY TypeInit, TypeStep, <1>1, PTL DEF Spec

-----------------------------------------------------------------------------
(***************************************************************************)
(* The modules known and the instances settled                             *)
(***************************************************************************)

\* What Rename and Keep have in common: an instance is settled with a module
\* that was not known.
Visit(i, new) ==
    /\ i \in rest /\ new \notin existed
    /\ existed' = existed \cup {new} /\ todo' = todo \cup {new}
    /\ rest' = rest \ {i} /\ modu' = modu /\ cur' = cur
    /\ lib'[modu][i] = new
    /\ \A n \in existed :
          /\ DOMAIN lib'[n] = Inst(n)
          /\ \A j \in Inst(n) : n # modu \/ j # i => lib'[n][j] = lib[n][j]

LEMMA RenameVisits ==
    ASSUME TypeInv, NEW i \in rest, Rename(i)
    PROVE  \E new : Visit(i, new)
<1>1. PICK new \in Name : Renamed(i, new)
  BY RenameEffect
<1>2. modu \in existed /\ i \in Inst(modu) /\ existed \subseteq DOMAIN lib
  BY DEF TypeInv, TypeOK
<1>3. Visit(i, new)
  BY <1>1, <1>2 DEF Renamed, Rename, Visit
<1> QED
  BY <1>3

LEMMA KeepVisits ==
    ASSUME TypeInv, NEW i \in rest, Keep(i)
    PROVE  \E new : Visit(i, new)
<1>1. Visit(i, lib[modu][i])
  BY DEF Keep, Existed, Visit, Inst, TypeInv, TypeOK
<1> QED
  BY <1>1

LEMMA VisitSettles ==
    ASSUME TypeInv, RunInv, NEW i, NEW new, Visit(i, new)
    PROVE  /\ \A n \in existed : \A j \in Inst(n) :
                  Settled(n, j)' <=> Settled(n, j) \/ (n = modu /\ j = i)
           /\ \A n, j : Settled(n, j)' => n \in existed /\ j \in Inst(n)
           /\ ~Settled(modu, i)
<1>1. modu \in existed \ todo /\ i \in Inst(modu) /\ todo \subseteq existed
  BY DEF TypeInv, TypeOK, RunInv, Visit
<1>2. \A n : n \in (existed' \ todo') <=> n \in existed \ todo
  BY <1>1 DEF Visit
<1>3. \A n \in existed : DOMAIN lib'[n] = Inst(n)
  BY DEF Visit
<1>4. rest' = rest \ {i} /\ modu' = modu /\ i \in rest
  BY DEF Visit
<1> QED
  BY <1>1, <1>2, <1>3, <1>4 DEF Settled, Inst

LEMMA VisitStep ==
    ASSUME TypeInv, RunInv, NEW i, NEW new, Visit(i, new)
    PROVE  RunInv'
<1>1. /\ \A n \in existed : \A j \in Inst(n) :
            Settled(n, j)' <=> Settled(n, j) \/ (n = modu /\ j = i)
      /\ \A n, j : Settled(n, j)' => n \in existed /\ j \in Inst(n)
      /\ ~Settled(modu, i)
  BY VisitSettles
<1>2. /\ modu \in existed /\ i \in Inst(modu)
      /\ \A n : n = modu => Settled(n, i)'
      /\ lib'[modu][i] = new /\ new \notin existed
      /\ existed' = existed \cup {new} /\ cur' = cur /\ cur \in existed
  BY <1>1 DEF TypeInv, TypeOK, RunInv, Visit
<1>3. \A n \in existed : \A j \in Inst(n) :
         Settled(n, j) => Settled(n, j)' /\ lib'[n][j] = lib[n][j] /\ lib[n][j] \in existed \ {cur}
  BY <1>1 DEF RunInv, Visit
<1>4. (modu \notin todo)'
  BY <1>2 DEF Visit, RunInv
<1>5. \A n, j : Settled(n, j)' =>
         \/ n = modu /\ j = i
         \/ n \in existed /\ j \in Inst(n) /\ Settled(n, j)
  BY <1>1
<1>6. (\A n \in existed : \A j \in Inst(n) :
          Settled(n, j) => lib[n][j] \in existed \ {cur})'
  BY <1>2, <1>3, <1>5
<1>7. (\A n1, n2 \in existed : \A k \in Inst(n1), j \in Inst(n2) :
          Settled(n1, k) /\ Settled(n2, j) /\ lib[n1][k] = lib[n2][j]
             => n1 = n2 /\ k = j)'
  <2> SUFFICES ASSUME NEW n1 \in existed', NEW n2 \in existed',
                      NEW k \in Inst(n1)', NEW j \in Inst(n2)',
                      Settled(n1, k)', Settled(n2, j)', lib'[n1][k] = lib'[n2][j]
               PROVE  n1 = n2 /\ k = j
    OBVIOUS
  <2>1. CASE n1 = modu /\ k = i
    BY <1>2, <1>3, <1>5, <2>1
  <2>2. CASE n2 = modu /\ j = i
    BY <1>2, <1>3, <1>5, <2>2
  <2>3. CASE Settled(n1, k) /\ Settled(n2, j) /\ n1 \in existed /\ n2 \in existed
              /\ k \in Inst(n1) /\ j \in Inst(n2)
    BY <1>3, <2>3 DEF RunInv
  <2> QED
    BY <1>5, <2>1, <2>2, <2>3
<1>8. (\A x \in existed \ {cur} :
          \E n \in existed : \E j \in Inst(n) : Settled(n, j) /\ lib[n][j] = x)'
  <2> SUFFICES ASSUME NEW x \in existed' \ {cur'}
               PROVE  \E n \in existed' : \E j \in Inst(n)' :
                         Settled(n, j)' /\ lib'[n][j] = x
    OBVIOUS
  <2>1. \A n \in existed : DOMAIN lib'[n] = Inst(n)
    BY DEF Visit
  <2>2. CASE x = new
    <3>1. PICK m : m = modu
      OBVIOUS
    <3>2. /\ m \in existed' /\ i \in DOMAIN lib'[m]
          /\ Settled(m, i)' /\ lib'[m][i] = x
      BY <1>2, <2>1, <2>2, <3>1
    <3> QED
      BY <3>2 DEF Inst
  <2>3. CASE x # new
    <3>1. PICK n \in existed : \E j \in Inst(n) : Settled(n, j) /\ lib[n][j] = x
      BY <1>2, <2>3 DEF RunInv
    <3>2. PICK j \in Inst(n) : Settled(n, j) /\ lib[n][j] = x
      BY <3>1
    <3>3. Settled(n, j)' /\ lib'[n][j] = x /\ n \in existed' /\ j \in DOMAIN lib'[n]
      BY <1>2, <1>3, <2>1, <3>2
    <3> QED
      BY <3>3 DEF Inst
  <2> QED
    BY <2>2, <2>3
<1>9. (\A H \in SUBSET existed : Follows(H) => existed \subseteq H)'
  <2> SUFFICES ASSUME NEW H \in SUBSET existed', Follows(H)'
               PROVE  existed' \subseteq H
    OBVIOUS
  <2> DEFINE G == H \cap existed
  <2>1. \A n \in existed : DOMAIN lib'[n] = Inst(n)
    BY DEF Visit
  <2>2. ASSUME NEW n \in G, NEW j \in Inst(n), Settled(n, j) PROVE lib[n][j] \in G
    <3>1. j \in DOMAIN lib'[n] /\ Settled(n, j)' /\ lib'[n][j] = lib[n][j]
          /\ lib[n][j] \in existed
      BY <1>3, <2>1, <2>2
    <3>2. lib'[n][j] \in H
      BY <3>1 DEF Follows, Inst
    <3> QED
      BY <3>1, <3>2
  <2>3. Follows(G)
    BY <1>2, <2>2 DEF Follows
  <2>4. existed \subseteq H
    BY <2>3 DEF RunInv
  <2>5. new \in H
    <3>1. PICK m : m = modu
      OBVIOUS
    <3>2. m \in H /\ i \in DOMAIN lib'[m] /\ Settled(m, i)' /\ lib'[m][i] = new
      BY <1>2, <2>1, <2>4, <3>1
    <3> QED
      BY <3>2 DEF Follows, Inst
  <2> QED
    BY <1>2, <2>4, <2>5
<1> QED
  BY <1>2, <1>4, <1>6, <1>7, <1>8, <1>9 DEF RunInv

LEMMA RunStep == IInv /\ [Next]_vars => (pc = "run" => RunInv)'
<1> SUFFICES ASSUME IInv, [Next]_vars, pc' = "run" PROVE RunInv'
  BY DEF IInv
<1>1. ASSUME NEW t \in Tops, SetCurrent(t) PROVE FALSE
  BY <1>1 DEF SetCurrent
<1>2. ASSUME NEW f \in BOOLEAN, Start(f) PROVE RunInv'
  <2>1. cur # None
    BY DesignAssumption DEF IInv, TypeInv, TypeOK, Name
  <2>2. /\ existed' = {cur} /\ todo' = {cur} /\ cur' = cur /\ modu' = None
        /\ \A n, j : ~Settled(n, j)'
    BY <1>2 DEF Start, Settled
  <2> QED
    BY <2>1, <2>2 DEF RunInv, Follows
<1>3. ASSUME NEW n \in todo, Take(n) PROVE RunInv'
  <2>1. pc = "run" /\ RunInv
    BY <1>3 DEF Take, IInv
  <2>2. \A x, j : Settled(x, j)' <=> Settled(x, j)
    BY <1>3 DEF Take, Popped, Settled, Inst, IInv, TypeInv, TypeOK
  <2>3. lib' = lib /\ existed' = existed /\ cur' = cur /\ modu' \notin todo'
    BY <1>3 DEF Take, Popped
  <2> QED
    BY <2>1, <2>2, <2>3 DEF RunInv, Follows, Inst
<1>4. ASSUME NEW i \in rest, Rename(i) PROVE RunInv'
  BY <1>4, RenameVisits, VisitStep DEF IInv, Rename
<1>5. ASSUME NEW i \in rest, Keep(i) PROVE RunInv'
  BY <1>5, KeepVisits, VisitStep DEF IInv, Keep
<1>6. ASSUME Finish PROVE FALSE
  BY <1>6 DEF Finish
<1>7. ASSUME UNCHANGED vars PROVE RunInv'
  BY <1>7 DEF vars, IInv, RunInv, Follows, Settled, Inst
<1> QED
  BY <1>1, <1>2, <1>3, <1>4, <1>5, <1>6, <1>7 DEF Next, Work

LEMMA Inductive == Spec => []IInv
<1>1. Init => IInv
  BY TypeInit DEF IInv, Init
<1>2. IInv /\ [Next]_vars => IInv'
  BY TypeStep, RunStep DEF IInv
<1> QED
  BY <1>1, <1>2, PTL DEF Spec

\* At the end of a run every instance of every module known is settled.
LEMMA AllSettled == IInv => UniqueAfter
<1> SUFFICES ASSUME IInv, pc = "run", rest = {}, todo = {} PROVE Unique(cur)
  BY DEF UniqueAfter
<1>1. \A n \in existed : \A i \in Inst(n) : Settled(n, i)
  BY DEF Settled
<1>2. UniqueWithin(existed, cur)
  BY <1>1 DEF IInv, RunInv, UniqueWithin
<1> QED
  BY <1>2 DEF Unique, IInv, TypeInv, TypeOK

\* When uniquify returns, the modules known are the hierarchy of the design,
\* each with one instance.
THEOREM UniqueAfterHolds == Spec => []UniqueAfter
BY Inductive, AllSettled, PTL

-----------------------------------------------------------------------------
(***************************************************************************)
(* Names                                                                   *)
(***************************************************************************)

LEMMA DesignStep == IInv /\ SameDesign /\ [Next]_vars => SameDesign'
<1> SUFFICES ASSUME IInv, SameDesign, [Next]_vars PROVE SameDesign'
  OBVIOUS
<1>1. ASSUME NEW i \in rest, Rename(i) PROVE SameDesign'
  <2>1. PICK new \in Name : Renamed(i, new)
    BY <1>1, RenameEffect DEF IInv
  <2> DEFINE n == lib[modu][i]
  <2>2. modu \in DOMAIN lib /\ i \in Inst(modu) /\ n \in DOMAIN lib
    BY DEF IInv, TypeInv, TypeOK
  <2>3. new[1] = n[1] /\ new \notin DOMAIN lib /\ DOMAIN lib' = DOMAIN lib \cup {new}
    BY <2>1 DEF Renamed
  <2>4. ASSUME NEW x \in DOMAIN lib'
        PROVE  /\ DOMAIN lib'[x] = DOMAIN Design[x[1]]
               /\ \A j \in DOMAIN lib'[x] : lib'[x][j][1] = Design[x[1]][j]
    <3>1. CASE x = new
      <4>1. lib'[x] = lib[n] /\ x[1] = n[1]
        BY <2>1, <3>1 DEF Renamed
      <4> QED
        BY <2>2, <4>1 DEF SameDesign, Inst
    <3>2. CASE x \in DOMAIN lib
      <4>1. /\ DOMAIN lib'[x] = Inst(x)
            /\ \A j \in Inst(x) :
                  lib'[x][j] = IF x = modu /\ j = i THEN new ELSE lib[x][j]
        BY <2>1, <3>2 DEF Renamed
      <4> QED
        BY <2>2, <2>3, <3>2, <4>1 DEF SameDesign
    <3> QED
      BY <2>3, <2>4, <3>1, <3>2
  <2> QED
    BY <2>4 DEF SameDesign, Inst
<1>2. ASSUME UNCHANGED lib PROVE SameDesign'
  BY <1>2 DEF SameDesign, Inst
<1> QED
  BY <1>1, <1>2 DEF Next, Work, SetCurrent, Start, Take, Keep, Finish, vars

LEMMA DesignInit == Init => SameDesign
<1> SUFFICES ASSUME Init, NEW n \in DOMAIN lib
             PROVE  /\ Inst(n) = DOMAIN Design[n[1]]
                    /\ \A i \in Inst(n) : lib[n][i][1] = Design[n[1]][i]
  BY DEF SameDesign
<1>1. lib[n] = [i \in DOMAIN Design[n[1]] |-> Top(Design[n[1]][i])]
  BY DEF Init
<1> QED
  BY <1>1 DEF Inst, Top

\* However often a module is copied and its instances renamed, each instance
\* still stands for the source module it names.
THEOREM SameDesignHolds == Spec => []SameDesign
BY Inductive, DesignInit, DesignStep, PTL DEF Spec

-----------------------------------------------------------------------------
(***************************************************************************)
(* Later runs                                                              *)
(***************************************************************************)

\* If the instance that is renamed belongs to the hierarchy H, it was the only
\* one of its module: the copy takes the place of that module.
LEMMA RenameKeepsUnique ==
    ASSUME TypeInv, NEW i \in rest, NEW new \in Name, Renamed(i, new),
           NEW c, NEW H \in SUBSET DOMAIN lib, UniqueWithin(H, c)
    PROVE  \E G \in SUBSET DOMAIN lib' : G \subseteq H \cup {new} /\ UniqueWithin(G, c)'
<1>0. PICK n : n = lib[modu][i]
  OBVIOUS
<1>1. modu \in DOMAIN lib /\ i \in Inst(modu) /\ n \in DOMAIN lib
  BY <1>0 DEF TypeInv, TypeOK
<1>2. /\ new \notin DOMAIN lib /\ DOMAIN lib' = DOMAIN lib \cup {new}
      /\ lib'[new] = lib[n]
      /\ \A x \in DOMAIN lib :
            /\ DOMAIN lib'[x] = Inst(x)
            /\ \A j \in Inst(x) :
                  lib'[x][j] = IF x = modu /\ j = i THEN new ELSE lib[x][j]
  BY <1>0 DEF Renamed
<1>3. /\ c \in H /\ H \subseteq DOMAIN lib
      /\ \A x \in H : \A j \in Inst(x) : lib[x][j] \in H \ {c}
      /\ \A x, y \in H : \A j \in Inst(x), k \in Inst(y) :
            lib[x][j] = lib[y][k] => x = y /\ j = k
  BY DEF UniqueWithin
<1>4. CASE modu \notin H
  <2>1. \A x \in H : DOMAIN lib'[x] = Inst(x) /\ \A j \in Inst(x) : lib'[x][j] = lib[x][j]
    BY <1>2, <1>3, <1>4
  <2>2. UniqueWithin(H, c)'
    BY <1>3, <2>1 DEF UniqueWithin, Inst
  <2> QED
    BY <1>2, <1>3, <2>2
<1>5. CASE modu \in H
  <2> DEFINE G == (H \ {n}) \cup {new}
             from(x) == IF x = new THEN n ELSE x
  <2>1. n \in H /\ n # c /\ c \in G /\ new # c /\ G \subseteq DOMAIN lib'
    BY <1>0, <1>1, <1>2, <1>3, <1>5
  <2>2. \A x \in G : from(x) \in H /\ (from(x) = n <=> x = new) /\ (x # new => x = from(x))
    BY <1>2, <1>3, <2>1
  <2>3. \A x \in G : DOMAIN lib'[x] = Inst(from(x))
    BY <1>0, <1>1, <1>2, <1>3, <2>1 DEF Inst
  \* An instance of a module of G names what it did, or the copy where it
  \* named the original.
  <2>4. ASSUME NEW x \in G, NEW j \in Inst(from(x)), n # modu
        PROVE  lib'[x][j] = IF from(x) = modu /\ j = i THEN new ELSE lib[from(x)][j]
    BY <1>0, <1>1, <1>2, <1>3, <2>1, <2>4
  <2>5. ASSUME NEW x \in G, NEW j \in Inst(from(x)), n # modu
        PROVE  /\ lib'[x][j] \in G \ {c}
               /\ lib[from(x)][j] = IF lib'[x][j] = new THEN n ELSE lib'[x][j]
    <3>1. from(x) = modu /\ j = i <=> lib[from(x)][j] = n
      BY <1>0, <1>1, <1>3, <1>5, <2>2
    <3>2. lib[from(x)][j] \in H \ {c}
      BY <1>3, <2>2
    <3> QED
      BY <1>0, <1>2, <2>1, <2>4, <2>5, <3>1, <3>2
  <2>6. CASE n # modu
    <3>1. ASSUME NEW x \in G, NEW y \in G, NEW j \in Inst(from(x)), NEW k \in Inst(from(y)),
                 lib'[x][j] = lib'[y][k]
          PROVE  x = y /\ j = k
      <4>1. lib[from(x)][j] = lib[from(y)][k]
        BY <2>5, <2>6, <3>1
      <4>2. from(x) = from(y) /\ j = k
        BY <1>3, <2>2, <4>1
      <4> QED
        BY <2>2, <4>2
    <3>2. UniqueWithin(G, c)'
      BY <2>1, <2>3, <2>5, <2>6, <3>1 DEF UniqueWithin, Inst
    <3> HIDE DEF G
    <3>3. G \subseteq H \cup {new}
      BY DEF G
    <3> QED
      BY <2>1, <3>2, <3>3
  \* A module that is its own only instance is not below the design.
  <2>7. CASE n = modu
    <3> DEFINE F == H \ {n}
    <3>1. /\ c \in F /\ F \subseteq DOMAIN lib'
          /\ \A x \in F : /\ DOMAIN lib'[x] = Inst(x)
                          /\ \A j \in Inst(x) : lib'[x][j] = lib[x][j] /\ lib[x][j] # n
      <4>1. c \in F /\ F \subseteq DOMAIN lib'
        BY <1>2, <1>3, <2>1
      <4>2. ASSUME NEW x \in F, NEW j \in Inst(x)
            PROVE  lib'[x][j] = lib[x][j] /\ lib[x][j] # n
        <5>1. x \in H /\ x # modu /\ x \in DOMAIN lib
          BY <1>3, <2>7
        <5>2. lib'[x][j] = lib[x][j]
          BY <1>2, <5>1
        <5>3. lib[x][j] # lib[modu][i]
          BY <1>1, <1>3, <1>5, <5>1
        <5> QED
          BY <1>0, <5>2, <5>3
      <4>3. \A x \in F : DOMAIN lib'[x] = Inst(x)
        BY <1>2, <1>3
      <4> QED
        BY <4>1, <4>2, <4>3
    <3>2. \A x \in F : \A j \in Inst(x) : lib[x][j] \in F \ {c}
      BY <1>3, <3>1
    <3>3. \A x, y \in F : \A j \in Inst(x), k \in Inst(y) :
             lib'[x][j] = lib'[y][k] => x = y /\ j = k
      BY <1>3, <3>1
    <3>4. /\ \A x \in F : \A j \in DOMAIN lib'[x] : lib'[x][j] \in F \ {c}
          /\ \A x, y \in F : \A j \in DOMAIN lib'[x], k \in DOMAIN lib'[y] :
                lib'[x][j] = lib'[y][k] => x = y /\ j = k
      BY <3>1, <3>2, <3>3
    <3>5. UniqueWithin(F, c)'
      BY <3>1, <3>4 DEF UniqueWithin, Inst
    <3> HIDE DEF F
    <3>6. F \subseteq H \cup {new}
      BY DEF F
    <3> QED
      BY <3>1, <3>5, <3>6
  <2> QED
    BY <2>6, <2>7
<1> QED
  BY <1>4, <1>5

LEMMA UniqueStep ==
    ASSUME IInv, [Next]_vars
    PROVE  [\A t \in Tops : Unique(Top(t)) => Unique(Top(t))']_vars
<1> SUFFICES ASSUME NEW t \in Tops, Unique(Top(t)) PROVE Unique(Top(t))'
  OBVIOUS
<1>1. PICK H \in SUBSET DOMAIN lib : UniqueWithin(H, Top(t))
  BY DEF Unique
<1>2. ASSUME NEW i \in rest, Rename(i) PROVE Unique(Top(t))'
  <2>1. PICK new \in Name : Renamed(i, new)
    BY <1>2, RenameEffect DEF IInv
  <2>2. PICK c : c = Top(t)
    OBVIOUS
  <2>3. UniqueWithin(H, c)
    BY <1>1, <2>2
  <2>4. \E G \in SUBSET DOMAIN lib' : UniqueWithin(G, c)'
    BY <1>1, <2>1, <2>3, RenameKeepsUnique DEF IInv
  <2> QED
    BY <2>2, <2>4 DEF Unique, Top
<1>3. ASSUME UNCHANGED lib PROVE Unique(Top(t))'
  BY <1>1, <1>3 DEF Unique, UniqueWithin, Inst, Top
<1> QED
  BY <1>2, <1>3 DEF Next, Work, SetCurrent, Start, Take, Keep, Finish, vars

\* A design once unique stays so, whatever is uniquified afterwards, with and
\* without -force: renaming an instance moves it to a module of its own.
THEOREM StaysUniqueHolds == Spec => StaysUnique
BY Inductive, UniqueStep, PTL DEF Spec, StaysUnique

\* What a run knows is below the design: no module is met twice if the design
\* is unique, so without -force nothing is renamed.
LEMMA UniqueLeftAlone ==
    ASSUME IInv, pc = "run", ~force, Unique(cur), NEW i \in rest, Rename(i)
    PROVE  FALSE
<1>1. PICK H \in SUBSET DOMAIN lib : UniqueWithin(H, cur)
  BY DEF Unique
<1> DEFINE n == lib[modu][i]
           G == H \cap existed
<1>2. RunInv /\ modu \in existed /\ i \in Inst(modu) /\ n \in existed
  BY DEF IInv, TypeInv, TypeOK, Rename, Existed
<1>3. Follows(G)
  BY <1>1, <1>2 DEF Follows, RunInv, UniqueWithin, Settled
<1>4. existed \subseteq H
  BY <1>2, <1>3 DEF RunInv
<1>5. n # cur
  BY <1>1, <1>2, <1>4 DEF UniqueWithin
<1>6. PICK m \in existed : \E j \in Inst(m) : Settled(m, j) /\ lib[m][j] = n
  BY <1>2, <1>5 DEF RunInv
<1>7. PICK j \in Inst(m) : Settled(m, j) /\ lib[m][j] = n
  BY <1>6
<1>8. m = modu /\ j = i
  BY <1>1, <1>2, <1>4, <1>7 DEF UniqueWithin
<1> QED
  BY <1>7, <1>8 DEF Settled

LEMMA AloneStep ==
    ASSUME IInv, [Next]_vars
    PROVE  [pc = "run" /\ ~force /\ Unique(cur) => UNCHANGED lib]_vars
<1> SUFFICES ASSUME pc = "run", ~force, Unique(cur) PROVE UNCHANGED lib
  OBVIOUS
<1>1. ASSUME NEW i \in rest, Rename(i) PROVE FALSE
  BY <1>1, UniqueLeftAlone
<1> QED
  BY <1>1 DEF Next, Work, SetCurrent, Start, Take, Keep, Finish, vars

\* Without -force, uniquify leaves a unique design alone, however it came to be
\* unique.
THEOREM IdempotentHolds == Spec => Idempotent
BY Inductive, AloneStep, PTL DEF Spec, Idempotent

-----------------------------------------------------------------------------
(***************************************************************************)
(* Graphs.  ExtractSdfg runs uniquify among other commands, so all of the  *)
(* above holds of it.                                                      *)
(***************************************************************************)

USE DEF HasDfg

LEMMA ExtractIsUniquify == (XInit => Init) /\ ([XNext]_xvars => [Next]_vars)
<1>1. XInit => Init
  BY DEF XInit
<1>2. ASSUME XNext PROVE [Next]_vars
  <2>1. CASE XCommand
    BY <2>1 DEF XCommand, Next
  <2>2. CASE \E n \in {cur} \cup {Top(t) : t \in Targets} : ExtractSdfg(n)
    BY <2>2 DEF ExtractSdfg, Next
  <2>3. CASE XWork
    BY <2>3 DEF XWork, Next
  <2>4. CASE Extract
    BY <2>4 DEF Extract
  <2>5. CASE Children
    BY <2>5 DEF Children, Child
  <2> QED
    BY <1>2, <2>1, <2>2, <2>3, <2>4, <2>5 DEF XNext
<1>3. UNCHANGED xvars => UNCHANGED vars
  BY DEF xvars
<1> QED
  BY <1>1, <1>2, <1>3

\* What is proved of uniquify holds as well if graphs are extracted between the
\* commands and after uniquify.
THEOREM ExtractKeepsUniquify ==
    XSpec => []UniqueAfter /\ []SameDesign /\ StaysUnique /\ Idempotent
<1>1. Init => IInv
  BY TypeInit DEF IInv, Init
<1>2. IInv /\ [Next]_vars => IInv'
  BY TypeStep, RunStep DEF IInv
<1> QED
  BY <1>1, <1>2, ExtractIsUniquify, AllSettled, DesignInit, DesignStep, UniqueStep, AloneStep, PTL
     DEF XSpec, StaysUnique, Idempotent

\* A hierarchy is closed, and what is in it brings its own hierarchy.
LEMMA BelowClosed ==
    ASSUME NEW m \in Src
    PROVE  /\ m \in Below(m) /\ Below(m) \subseteq Src
           /\ \A k \in Below(m) :
                 /\ \A i \in DOMAIN Design[k] : Design[k][i] \in Below(m)
                 /\ Below(k) \subseteq Below(m)
<1>1. m \in Below(m) /\ Below(m) \subseteq Src
  BY DEF Below
<1>2. ASSUME NEW k \in Below(m), NEW i \in DOMAIN Design[k] PROVE Design[k][i] \in Below(m)
  <2>1. Design[k][i] \in Src
    BY <1>1, DesignAssumption
  <2>2. ASSUME NEW S \in SUBSET Src, m \in S, \A n \in S : ToSet(Design[n]) \subseteq S
        PROVE  Design[k][i] \in S
    <3>1. k \in S
      BY <2>2 DEF Below
    <3> QED
      BY <2>2, <3>1 DEF ToSet
  <2> QED
    BY <2>1, <2>2 DEF Below
<1>3. ASSUME NEW k \in Below(m), NEW x \in Below(k) PROVE x \in Below(m)
  BY <1>3 DEF Below
<1> QED
  BY <1>1, <1>2, <1>3

\* What one design alone has below it is there in the hierarchy of no module
\* but those that design alone has.
LEMMA OwnUpwards ==
    ASSUME NEW d \in Tops, NEW k \in Below(d), NEW t \in Tops, NEW c \in Below(k) \cap OwnOf(t)
    PROVE  t = d /\ k \in OwnOf(d)
<1>1. d \in Src /\ k \in Src
  BY DesignAssumption, BelowClosed
<1>2. \A e \in Tops : k \in Below(e) => c \in Below(e)
  BY DesignAssumption, BelowClosed
<1>3. \A e \in Tops : k \in Below(e) => e = t
  BY <1>2 DEF OwnOf
<1> QED
  BY <1>3 DEF OwnOf

-----------------------------------------------------------------------------
(***************************************************************************)
(* The invariant of OwnWhole.                                              *)
(***************************************************************************)

\* extract_sdfg names, besides the current design, only designs all of whose
\* modules several of the designs made current have below them.
SharedTargets == \A t \in Targets : Below(t) \cap Own = {}

\* The runs with -force are counted.
Counted == forces \in Nat /\ (pc = "run" /\ force => forces > 0)

\* What a run meets is below the current design; the graphs are made when it
\* is over.
WalkInv ==
    /\ cur \in {Top(t) : t \in Tops}
    /\ Counted
    /\ pc = "run" => calls = {} /\ \A n \in existed : n[1] \in Below(cur[1])
    /\ target # None => target \in {cur} \cup {Top(t) : t \in Targets}

\* A graph has a node for each instance, with a child under a name of the
\* library that stands for the module of the instance; while a node waits for
\* its child, the child is the module the instance has.
GraphInv ==
    /\ HasDfg \subseteq DOMAIN lib
    /\ \A n \in HasDfg :
          /\ DOMAIN dfg[n] = DOMAIN Design[n[1]]
          /\ \A i \in DOMAIN dfg[n] :
                dfg[n][i] \in DOMAIN lib /\ dfg[n][i][1] = Design[n[1]][i]
    /\ \A c \in calls :
          /\ c = <<c[1], c[2]>> /\ c[1] \in HasDfg /\ c[2] \in DOMAIN dfg[c[1]]
          /\ lib[c[1]][c[2]] = dfg[c[1]][c[2]]

\* With -force no module a graph refers to is met.
ForceInv ==
    pc = "run" /\ force =>
       \A n \in HasDfg : \A i \in DOMAIN dfg[n] : dfg[n][i] \notin existed \ {cur}

\* There is a graph of something that only t has below it.
Recorded(t) == \E n \in HasDfg : Below(n[1]) \cap OwnOf(t) # {}

\* The design is unique within H; and if a graph refers to the module of an
\* instance there, and t alone has that module, then it is by that instance.
Clean(t, H) ==
    /\ UniqueWithin(H, Top(t))
    /\ \A x \in H : \A j \in Inst(x) : \A n \in HasDfg : \A i \in DOMAIN dfg[n] :
          dfg[n][i][1] \in OwnOf(t) /\ lib[x][j] = dfg[n][i] => x = n /\ j = i

Forcing(t) == pc = "run" /\ force /\ cur = Top(t)

CleanInv ==
    \A t \in Tops : Recorded(t) => Forcing(t) \/ \E H \in SUBSET DOMAIN lib : Clean(t, H)

\* The modules being extracted, and those a graph may be made for next.
Named == {n \in {target} \ {None} : pc = "idle"}
Open == {c[1] : c \in calls} \cup Named
Due == {dfg[c[1]][c[2]] : c \in calls} \cup Named

\* What is being extracted is of the hierarchy of the current design; or
\* nothing below it belongs to one design.
Within(S) ==
    \/ \A n \in S : Below(n[1]) \cap Own = {}
    \/ \E H \in SUBSET DOMAIN lib :
          Clean(cur[1], H) /\ S \subseteq H /\ \A n \in S : n[1] \in Below(cur[1])

CallInv == Within(Open)

\* Each graph of a module only one design has, has the one instance node it
\* is the child of as its father; and until -force is used it refers to what
\* the netlist has, which has a graph or will have one.
Fathers ==
    \A n \in HasDfg : \A i \in DOMAIN dfg[n] :
       dfg[n][i][1] \in Own =>
          \/ <<n, i>> \in calls
          \/ dfg[n][i] \in DOMAIN father /\ father[dfg[n][i]] = <<n, i>>

Refers ==
    forces = 0 => \A n \in HasDfg : n[1] \in Own => \A i \in DOMAIN dfg[n] :
       lib[n][i] = dfg[n][i] /\ (dfg[n][i] \in HasDfg \/ <<n, i>> \in calls)

WholeInv == Fathers /\ Refers

XInv == IInv /\ SameDesign /\ WalkInv /\ GraphInv /\ ForceInv /\ CleanInv /\ CallInv /\ WholeInv

\* The module being processed, and that of its instance, are below the design.
LEMMA MetBelow ==
    ASSUME XInv, pc = "run", NEW i \in rest
    PROVE  /\ modu \in DOMAIN lib /\ i \in Inst(modu) /\ lib[modu][i] \in DOMAIN lib
           /\ modu[1] \in Below(cur[1]) /\ lib[modu][i][1] \in Below(cur[1])
           /\ cur[1] \in Tops /\ cur = Top(cur[1]) /\ modu[1] \in Src
<1>1. /\ modu \in existed /\ modu \in DOMAIN lib /\ i \in Inst(modu) /\ lib[modu][i] \in DOMAIN lib
      /\ DOMAIN lib \subseteq Name
  BY DEF XInv, IInv, TypeInv, TypeOK
<1>2. cur[1] \in Tops /\ cur = Top(cur[1]) /\ cur[1] \in Src
  BY DesignAssumption DEF XInv, WalkInv, Top
<1>3. modu[1] \in Below(cur[1]) /\ modu[1] \in Src
  BY <1>1 DEF XInv, WalkInv, Name
<1>4. lib[modu][i][1] = Design[modu[1]][i] /\ i \in DOMAIN Design[modu[1]]
  BY <1>1 DEF XInv, SameDesign
<1>5. lib[modu][i][1] \in Below(cur[1])
  BY <1>2, <1>3, <1>4, BelowClosed
<1> QED
  BY <1>1, <1>2, <1>3, <1>5

\* A graph is made for module n; a node gets its child.
Makes(n) ==
    /\ pc = "idle" /\ Make(n)
    /\ target' \in {target, None}
    /\ UNCHANGED <<vars, father>>

Links(c) ==
    /\ pc = "idle" /\ dfg[c[1]][c[2]] \in HasDfg
    /\ calls' = calls \ {c}
    /\ father' = [m \in DOMAIN father \cup {dfg[c[1]][c[2]]} |->
                     IF m = dfg[c[1]][c[2]] THEN c ELSE father[m]]
    /\ UNCHANGED <<vars, dfg, target>>

\* The named design has a graph.
Skips ==
    /\ pc = "idle" /\ target' = None
    /\ UNCHANGED <<vars, dfg, father, calls>>

LEMMA XSteps ==
    ASSUME XInv, [XNext]_xvars
    PROVE  \/ UNCHANGED xvars
           \/ pc = "idle" /\ Ready /\ (\E t \in Tops : SetCurrent(t))
                 /\ UNCHANGED <<dfg, father, target, calls>>
           \/ \E f \in BOOLEAN : Ready /\ Start(f) /\ UNCHANGED <<dfg, father, target, calls>>
           \/ \E n \in {cur} \cup {Top(t) : t \in Targets} : ExtractSdfg(n)
           \/ \E n \in todo : Take(n) /\ UNCHANGED <<dfg, father, target, calls>>
           \/ \E i \in rest : Rename(i) /\ UNCHANGED <<dfg, father, target, calls>>
           \/ \E i \in rest : Keep(i) /\ UNCHANGED <<dfg, father, target, calls>>
           \/ Finish /\ UNCHANGED <<dfg, father, target, calls>>
           \/ Skips
           \/ \E n \in Due : Makes(n)
           \/ \E c \in calls : Links(c)
<1>1. CASE UNCHANGED xvars
  BY <1>1
<1>2. CASE XCommand
  BY <1>2 DEF XCommand, SetCurrent
<1>3. CASE XWork
  BY <1>3 DEF XWork, Work
<1>4. CASE Extract
  <2>1. target \in Due
    BY <1>4 DEF Extract, Due, Named
  <2> QED
    BY <1>4, <2>1 DEF Extract, Makes, Skips
<1>5. CASE Children
  <2>1. PICK c \in calls : Child(c[1], c[2])
    BY <1>5 DEF Children
  <2>2. pc = "idle" /\ c = <<c[1], c[2]>>
    BY DEF XInv, WalkInv, GraphInv, IInv, TypeInv, TypeOK
  <2>3. dfg[c[1]][c[2]] \in Due
    BY DEF Due
  <2> QED
    BY <2>1, <2>2, <2>3 DEF Child, Makes, Links
<1> QED
  BY <1>1, <1>2, <1>3, <1>4, <1>5 DEF XNext

LEMMA WalkStep ==
    ASSUME XInv, [XNext]_xvars
    PROVE  WalkInv'
<1>0. WalkInv
  BY DEF XInv
<1>1. CASE UNCHANGED xvars
  BY <1>0, <1>1 DEF WalkInv, Counted, xvars, vars
<1>2. ASSUME NEW t \in Tops, Ready, SetCurrent(t), UNCHANGED <<dfg, father, target, calls>>
      PROVE  WalkInv'
  BY <1>0, <1>2 DEF WalkInv, Counted, SetCurrent, Ready
<1>3. ASSUME pc' = "run", cur' = cur, existed' = {cur}, calls' = {},
             Counted',
             target' \in {None, cur} \cup {Top(t) : t \in Targets}
      PROVE  WalkInv'
  <2>1. cur[1] \in Src
    BY <1>0, DesignAssumption DEF WalkInv, Counted, Top
  <2>2. cur[1] \in Below(cur[1])
    BY <2>1, BelowClosed
  <2> QED
    BY <1>0, <1>3, <2>2 DEF WalkInv, Counted
<1>4. ASSUME NEW n \in todo, Take(n), UNCHANGED <<dfg, father, target, calls>> PROVE WalkInv'
  BY <1>0, <1>4 DEF WalkInv, Counted, Take
<1>5. ASSUME NEW i \in rest, Rename(i), UNCHANGED <<dfg, father, target, calls>> PROVE WalkInv'
  <2>1. PICK new \in Name : Renamed(i, new)
    BY <1>5, RenameEffect DEF XInv, IInv
  <2>2. new[1] \in Below(cur[1])
    BY <1>5, <2>1, MetBelow DEF Rename, Renamed
  <2>3. existed' = existed \cup {new}
    BY <2>1 DEF Renamed
  <2> QED
    BY <1>0, <1>5, <2>2, <2>3 DEF WalkInv, Counted, Rename
<1>6. ASSUME NEW i \in rest, Keep(i), UNCHANGED <<dfg, father, target, calls>> PROVE WalkInv'
  <2>1. lib[modu][i][1] \in Below(cur[1])
    BY <1>6, MetBelow DEF Keep
  <2> QED
    BY <1>0, <1>6, <2>1 DEF WalkInv, Counted, Keep
<1>7. CASE Finish /\ UNCHANGED <<dfg, father, target, calls>>
  BY <1>0, <1>7 DEF WalkInv, Counted, Finish
<1>8. ASSUME pc = "idle", UNCHANGED vars, target' \in {target, None} PROVE WalkInv'
  BY <1>0, <1>8 DEF WalkInv, Counted, vars
<1>9. ASSUME NEW n \in {cur} \cup {Top(t) : t \in Targets}, ExtractSdfg(n) PROVE WalkInv'
  <2>1. /\ pc' = "run" /\ cur' = cur /\ existed' = {cur} /\ calls' = {}
        /\ ~force' /\ forces' = forces /\ target' = n
    BY <1>9 DEF ExtractSdfg, Start, Ready
  <2> QED
    BY <1>0, <1>3, <2>1 DEF WalkInv, Counted
<1>10. ASSUME NEW f \in BOOLEAN, Ready, Start(f), UNCHANGED <<dfg, father, target, calls>>
       PROVE  WalkInv'
  <2>1. target' = None /\ calls' = {}
    BY <1>10 DEF Ready
  <2>2. pc' = "run" /\ cur' = cur /\ existed' = {cur}
    BY <1>10 DEF Start
  <2>3. Counted'
    BY <1>0, <1>10 DEF WalkInv, Counted, Start
  <2> QED
    BY <1>3, <2>1, <2>2, <2>3
<1> QED
  BY <1>1, <1>2, <1>4, <1>5, <1>6, <1>7, <1>8, <1>9, <1>10, XSteps DEF Makes, Links, Skips

\* The graph made for a module.
LEMMA MakesEffect ==
    ASSUME XInv, NEW n \in Due, Makes(n)
    PROVE  /\ n \in DOMAIN lib /\ n[1] \in Src /\ n \notin HasDfg
           /\ DOMAIN dfg' = HasDfg \cup {n} /\ dfg'[n] = lib[n]
           /\ \A m \in HasDfg : dfg'[m] = dfg[m]
           /\ calls' = calls \cup {<<n, i>> : i \in Inst(n)}
           /\ Inst(n) = DOMAIN Design[n[1]]
           /\ \A i \in Inst(n) : lib[n][i] \in DOMAIN lib /\ lib[n][i][1] = Design[n[1]][i]
           /\ Open' \subseteq Open \cup {n}
           /\ UNCHANGED <<vars, father>>
<1>1. /\ n \notin HasDfg
      /\ dfg' = [m \in HasDfg \cup {n} |-> IF m = n THEN lib[n] ELSE dfg[m]]
      /\ calls' = calls \cup {<<n, i>> : i \in Inst(n)}
      /\ target' \in {target, None} /\ UNCHANGED <<vars, father>>
  BY DEF Makes, Make
<1>2. n \in DOMAIN lib
  <2>1. CASE n \in Named
    BY <2>1, TargetAssumption DEF Named, XInv, WalkInv, IInv, TypeInv, TypeOK
  <2>2. CASE n \notin Named
    BY <2>2 DEF Due, XInv, GraphInv
  <2> QED
    BY <2>1, <2>2
<1>3. n[1] \in Src
  BY <1>2 DEF XInv, IInv, TypeInv, TypeOK, Name
<1>4. /\ Inst(n) = DOMAIN Design[n[1]]
      /\ \A i \in Inst(n) : lib[n][i] \in DOMAIN lib /\ lib[n][i][1] = Design[n[1]][i]
  BY <1>2 DEF XInv, IInv, TypeInv, TypeOK, SameDesign
<1>5. Open' \subseteq Open \cup {n}
  <2>1. Named' \subseteq Named
    BY <1>1 DEF Named, vars
  <2>2. ASSUME NEW c \in calls' PROVE c[1] \in Open \cup {n}
    BY <1>1, <2>2 DEF Open
  <2> QED
    BY <2>1, <2>2 DEF Open
<1> QED
  BY <1>1, <1>2, <1>3, <1>4, <1>5

LEMMA GraphStep ==
    ASSUME XInv, [XNext]_xvars
    PROVE  GraphInv'
<1>0. GraphInv /\ WalkInv
  BY DEF XInv
<1>1. CASE UNCHANGED <<lib, dfg>> /\ calls' \subseteq calls
  BY <1>0, <1>1 DEF GraphInv
<1>2. ASSUME NEW i \in rest, Rename(i), UNCHANGED <<dfg, father, target, calls>> PROVE GraphInv'
  <2>1. PICK new \in Name : Renamed(i, new)
    BY <1>2, RenameEffect DEF XInv, IInv
  <2>2. DOMAIN lib \subseteq DOMAIN lib' /\ calls' = {}
    BY <1>0, <1>2, <2>1 DEF Renamed, Rename, WalkInv
  <2> QED
    BY <1>0, <1>2, <2>2 DEF GraphInv
<1>3. ASSUME NEW n \in Due, Makes(n) PROVE GraphInv'
  <2>1. /\ n \in DOMAIN lib /\ n \notin HasDfg /\ lib' = lib
        /\ DOMAIN dfg' = HasDfg \cup {n} /\ dfg'[n] = lib[n]
        /\ \A m \in HasDfg : dfg'[m] = dfg[m]
        /\ calls' = calls \cup {<<n, i>> : i \in Inst(n)}
        /\ Inst(n) = DOMAIN Design[n[1]]
        /\ \A i \in Inst(n) : lib[n][i] \in DOMAIN lib /\ lib[n][i][1] = Design[n[1]][i]
    BY <1>3, MakesEffect DEF vars
  <2>2. DOMAIN dfg' \subseteq DOMAIN lib'
    BY <1>0, <2>1 DEF GraphInv
  <2>3. ASSUME NEW m \in DOMAIN dfg'
        PROVE  /\ DOMAIN dfg'[m] = DOMAIN Design[m[1]]
               /\ \A i \in DOMAIN dfg'[m] :
                     dfg'[m][i] \in DOMAIN lib' /\ dfg'[m][i][1] = Design[m[1]][i]
    <3>1. CASE m = n
      BY <2>1, <3>1 DEF Inst
    <3>2. CASE m # n
      BY <1>0, <2>1, <3>2 DEF GraphInv
    <3> QED
      BY <3>1, <3>2
  <2>4. ASSUME NEW c \in calls'
        PROVE  /\ c = <<c[1], c[2]>> /\ c[1] \in DOMAIN dfg' /\ c[2] \in DOMAIN dfg'[c[1]]
               /\ lib'[c[1]][c[2]] = dfg'[c[1]][c[2]]
    <3>1. CASE c \in calls
      <4>1. /\ c = <<c[1], c[2]>> /\ c[1] \in HasDfg /\ c[2] \in DOMAIN dfg[c[1]]
            /\ lib[c[1]][c[2]] = dfg[c[1]][c[2]]
        BY <1>0, <3>1 DEF GraphInv
      <4> QED
        BY <2>1, <4>1
    <3>2. CASE c \notin calls
      <4>1. PICK i \in Inst(n) : c = <<n, i>>
        BY <2>1, <2>4, <3>2
      <4>2. c[1] = n /\ c[2] = i
        BY <4>1
      <4> QED
        BY <2>1, <4>1, <4>2 DEF Inst
    <3> QED
      BY <3>1, <3>2
  <2> QED
    BY <2>2, <2>3, <2>4 DEF GraphInv
<1> QED
  BY <1>1, <1>2, <1>3, XSteps
     DEF xvars, vars, SetCurrent, Start, ExtractSdfg, Take, Keep, Finish, Skips, Links

LEMMA ForceStep ==
    ASSUME XInv, [XNext]_xvars
    PROVE  ForceInv'
<1>0. ForceInv /\ GraphInv
  BY DEF XInv
<1>1. CASE UNCHANGED <<dfg, cur>> /\ (pc' = "run" /\ force' => pc = "run" /\ force) /\ UNCHANGED existed
  BY <1>0, <1>1 DEF ForceInv
<1>2. CASE UNCHANGED dfg /\ cur' = cur /\ existed' = {cur}
  BY <1>2 DEF ForceInv
<1>3. ASSUME NEW i \in rest, Rename(i), UNCHANGED <<dfg, father, target, calls>> PROVE ForceInv'
  <2>1. PICK new \in Name : Renamed(i, new)
    BY <1>3, RenameEffect DEF XInv, IInv
  <2>2. new \notin DOMAIN lib /\ existed' = existed \cup {new}
    BY <2>1 DEF Renamed
  <2> QED
    BY <1>0, <1>3, <2>2 DEF ForceInv, GraphInv, Rename
<1>4. ASSUME NEW i \in rest, Keep(i) PROVE ForceInv'
  BY <1>4 DEF ForceInv, Keep
<1>5. CASE pc' # "run"
  BY <1>5 DEF ForceInv
<1>6. ASSUME pc = "idle", UNCHANGED vars PROVE ForceInv'
  BY <1>5, <1>6 DEF vars
<1>7. ASSUME NEW n \in {cur} \cup {Top(t) : t \in Targets}, ExtractSdfg(n) PROVE ForceInv'
  BY <1>2, <1>7 DEF ExtractSdfg, Start
<1>8. CASE Finish \/ \E t \in Tops : SetCurrent(t)
  BY <1>5, <1>8 DEF Finish, SetCurrent
<1>9. ASSUME NEW f \in BOOLEAN, Start(f), UNCHANGED <<dfg, father, target, calls>> PROVE ForceInv'
  BY <1>2, <1>9 DEF Start
<1>10. ASSUME NEW n, Take(n), UNCHANGED <<dfg, father, target, calls>> PROVE ForceInv'
  BY <1>1, <1>10 DEF Take
<1>11. CASE UNCHANGED xvars
  BY <1>1, <1>11 DEF xvars, vars
<1> QED
  BY <1>3, <1>4, <1>6, <1>7, <1>8, <1>9, <1>10, <1>11, XSteps DEF Makes, Links, Skips

-----------------------------------------------------------------------------
\* Neither the graphs nor the library change.
LEMMA CleanFrozen ==
    ASSUME UNCHANGED <<lib, dfg>>
    PROVE  /\ \A t : Recorded(t)' <=> Recorded(t)
           /\ \A t, H : Clean(t, H)' <=> Clean(t, H)
<1>1. \A t : Recorded(t)' <=> Recorded(t)
  BY DEF Recorded
<1>2. \A t, H : UniqueWithin(H, Top(t))' <=> UniqueWithin(H, Top(t))
  BY DEF UniqueWithin, Inst, Top
<1>3. \A t, H : Clean(t, H)' <=> Clean(t, H)
  BY <1>2 DEF Clean, Inst
<1> QED
  BY <1>1, <1>3

\* A run of another design does not come near what t has alone: it may copy a
\* module that is also below t, but nothing below the copy is t's alone.
LEMMA RenameKeepsClean ==
    ASSUME XInv, NEW i \in rest, Rename(i), dfg' = dfg, NEW t \in Tops, cur # Top(t),
           NEW H \in SUBSET DOMAIN lib, Clean(t, H)
    PROVE  \E G \in SUBSET DOMAIN lib' : Clean(t, G)'
<1>1. PICK new \in Name : Renamed(i, new)
  BY RenameEffect DEF XInv, IInv
<1>2. PICK c : c = Top(t)
  OBVIOUS
<1>3. PICK G \in SUBSET DOMAIN lib' : G \subseteq H \cup {new} /\ UniqueWithin(G, c)'
  BY <1>1, <1>2, RenameKeepsUnique DEF Clean, XInv, IInv
<1>4. UniqueWithin(G, Top(t))'
  BY <1>2, <1>3 DEF Top
<1>5. PICK n : n = lib[modu][i]
  OBVIOUS
<1>6. /\ n \in DOMAIN lib /\ n[1] \in Below(cur[1]) /\ cur[1] \in Tops /\ cur[1] # t
      /\ n[1] \in Src
  <2>1. n \in DOMAIN lib /\ n[1] \in Below(cur[1]) /\ cur[1] \in Tops /\ cur = Top(cur[1])
    BY <1>5, MetBelow DEF Rename
  <2> QED
    BY <2>1 DEF Below
<1>7. ASSUME NEW x \in G, NEW j \in DOMAIN lib'[x], NEW m \in HasDfg, NEW k \in DOMAIN dfg[m],
             dfg[m][k][1] \in OwnOf(t), lib'[x][j] = dfg[m][k]
      PROVE  x = m /\ j = k
  <2>1. dfg[m][k] \in DOMAIN lib /\ new \notin DOMAIN lib
    BY <1>1 DEF XInv, GraphInv, Renamed
  <2>2. CASE x = new
    <3>1. lib'[x] = lib[n]
      BY <1>1, <1>5, <2>2 DEF Renamed
    <3>2. lib[n][j][1] = Design[n[1]][j] /\ j \in DOMAIN Design[n[1]]
      BY <1>6, <3>1 DEF XInv, SameDesign, Inst
    <3>3. Design[n[1]][j] \in Below(n[1])
      BY <1>6, <3>2, BelowClosed
    <3>4. Design[n[1]][j] \in OwnOf(t)
      BY <1>7, <3>1, <3>2
    <3>5. t = cur[1]
      BY <1>6, <3>3, <3>4, OwnUpwards
    <3> QED
      BY <1>6, <3>5
  <2>3. CASE x # new
    <3>1. x \in H /\ x \in DOMAIN lib
      BY <1>3, <2>3
    <3>2. j \in Inst(x) /\ lib'[x][j] = IF x = modu /\ j = i THEN new ELSE lib[x][j]
      BY <1>1, <1>7, <3>1 DEF Renamed
    <3>3. lib[x][j] = dfg[m][k]
      BY <1>7, <2>1, <3>2
    <3> QED
      BY <1>7, <3>1, <3>2, <3>3 DEF Clean
  <2> QED
    BY <2>2, <2>3
<1>8. \A x \in G : \A j \in Inst(x)' : \A m \in HasDfg' : \A k \in DOMAIN dfg'[m] :
          dfg'[m][k][1] \in OwnOf(t) /\ lib'[x][j] = dfg'[m][k] => x = m /\ j = k
  BY <1>7 DEF Inst
<1> QED
  BY <1>4, <1>8 DEF Clean, Inst, OwnOf

\* A graph that is made records the instances of its module as they are.
LEMMA MakesKeepsClean ==
    ASSUME XInv, NEW n \in Due, Makes(n), NEW t,
           NEW H \in SUBSET DOMAIN lib, Clean(t, H),
           n \in H \/ Below(n[1]) \cap OwnOf(t) = {}
    PROVE  Clean(t, H)'
<1>1. /\ lib' = lib /\ n \in DOMAIN lib
      /\ DOMAIN dfg' = HasDfg \cup {n} /\ dfg'[n] = lib[n]
      /\ \A m \in HasDfg : dfg'[m] = dfg[m]
  BY MakesEffect DEF vars
<1>2. UniqueWithin(H, Top(t))'
  BY <1>1 DEF Clean, UniqueWithin, Inst, Top
<1>3. ASSUME NEW x \in H, NEW j \in Inst(x), NEW m \in DOMAIN dfg', NEW k \in DOMAIN dfg'[m],
             dfg'[m][k][1] \in OwnOf(t), lib[x][j] = dfg'[m][k]
      PROVE  x = m /\ j = k
  <2>1. CASE m # n
    BY <1>1, <1>3, <2>1 DEF Clean
  <2>2. CASE m = n
    <3>1. k \in Inst(n) /\ lib[x][j] = lib[n][k] /\ lib[n][k][1] \in OwnOf(t)
      BY <1>1, <1>3, <2>2 DEF Inst
    <3>2. n[1] \in Src /\ k \in DOMAIN Design[n[1]] /\ lib[n][k][1] = Design[n[1]][k]
      BY <1>1, <3>1 DEF XInv, IInv, TypeInv, TypeOK, Name, SameDesign
    <3>3. lib[n][k][1] \in Below(n[1])
      BY <3>2, BelowClosed
    <3>4. n \in H
      BY <3>1, <3>3
    <3> QED
      BY <2>2, <3>1, <3>4 DEF Clean, UniqueWithin
  <2> QED
    BY <2>1, <2>2
<1> QED
  BY <1>1, <1>2, <1>3 DEF Clean, Inst, OwnOf

\* At the end of a run there is a clean hierarchy of the current design: that
\* from before, the one met if nothing of it has a graph, and the one met
\* with -force, in which every module but the design is new.
LEMMA FinishClean ==
    ASSUME XInv, Finish
    PROVE  \E H \in SUBSET DOMAIN lib : Clean(cur[1], H)
<1>1. cur[1] \in Tops /\ cur = Top(cur[1])
  BY DEF XInv, WalkInv, Top
<1>2. pc = "run" /\ rest = {} /\ todo = {} /\ existed \in SUBSET DOMAIN lib
  BY DEF Finish, XInv, IInv, TypeInv, TypeOK
<1>3. UniqueWithin(existed, Top(cur[1]))
  <2>1. \A n \in existed : \A i \in Inst(n) : Settled(n, i)
    BY <1>2 DEF Settled
  <2>2. UniqueWithin(existed, cur)
    BY <1>2, <2>1 DEF XInv, IInv, RunInv, UniqueWithin
  <2> QED
    BY <1>1, <2>2
<1>4. CASE force
  <2>1. \A x \in existed : \A j \in Inst(x) : lib[x][j] \in existed \ {cur}
    BY <1>1, <1>3 DEF UniqueWithin
  <2>2. Clean(cur[1], existed)
    BY <1>2, <1>3, <1>4, <2>1 DEF Clean, XInv, ForceInv
  <2> QED
    BY <1>2, <2>2
<1>5. CASE ~Recorded(cur[1])
  <2>1. ASSUME NEW n \in HasDfg, NEW i \in DOMAIN dfg[n] PROVE dfg[n][i][1] \notin OwnOf(cur[1])
    <3>1. n[1] \in Src /\ i \in DOMAIN Design[n[1]] /\ dfg[n][i][1] = Design[n[1]][i]
      BY <2>1 DEF XInv, GraphInv, IInv, TypeInv, TypeOK, Name
    <3>2. dfg[n][i][1] \in Below(n[1])
      BY <3>1, BelowClosed
    <3> QED
      BY <1>5, <3>2 DEF Recorded
  <2>2. Clean(cur[1], existed)
    BY <1>3, <2>1 DEF Clean
  <2> QED
    BY <1>2, <2>2
<1>6. CASE ~force /\ Recorded(cur[1])
  BY <1>1, <1>6 DEF XInv, CleanInv, Forcing
<1> QED
  BY <1>4, <1>5, <1>6

\* The module a graph may be made for next is where the modules being extracted
\* are.
LEMMA DueWithin ==
    ASSUME XInv, NEW n \in Due
    PROVE  Within(Open \cup {n})
<1>1. CASE n \in Open
  <2>1. Open \cup {n} = Open
    BY <1>1
  <2> QED
    BY <2>1 DEF XInv, CallInv
<1>2. CASE n \notin Open
  <2>1. PICK c \in calls : n = dfg[c[1]][c[2]]
    BY <1>2 DEF Due, Open
  <2>2. PICK m : m = c[1]
    OBVIOUS
  <2>3. PICK i : i = c[2]
    OBVIOUS
  <2>4. m \in Open /\ m \in DOMAIN lib /\ i \in Inst(m) /\ n = lib[m][i] /\ n[1] = Design[m[1]][i]
    BY <2>1, <2>2, <2>3 DEF Open, XInv, GraphInv, SameDesign
  <2>5. m[1] \in Src /\ i \in DOMAIN Design[m[1]]
    BY <2>4 DEF XInv, IInv, TypeInv, TypeOK, Name, SameDesign
  <2>6. n[1] \in Below(m[1]) /\ Below(n[1]) \subseteq Below(m[1])
    BY <2>4, <2>5, BelowClosed
  <2>7. CASE \A k \in Open : Below(k[1]) \cap Own = {}
    BY <2>4, <2>6, <2>7 DEF Within
  <2>8. CASE \E H \in SUBSET DOMAIN lib :
               Clean(cur[1], H) /\ Open \subseteq H /\ \A k \in Open : k[1] \in Below(cur[1])
    <3>1. PICK H \in SUBSET DOMAIN lib :
               Clean(cur[1], H) /\ Open \subseteq H /\ \A k \in Open : k[1] \in Below(cur[1])
      BY <2>8
    <3>2. n \in H
      BY <2>4, <3>1 DEF Clean, UniqueWithin
    <3>3. cur[1] \in Src
      BY DesignAssumption DEF XInv, WalkInv, Top
    <3>4. n[1] \in Below(cur[1])
      BY <2>4, <2>6, <3>1, <3>3, BelowClosed
    <3> QED
      BY <3>1, <3>2, <3>4 DEF Within
  <2> QED
    BY <2>7, <2>8 DEF XInv, CallInv, Within
<1> QED
  BY <1>1, <1>2

LEMMA CleanStep ==
    ASSUME XInv, [XNext]_xvars
    PROVE  CleanInv'
<1>0. CleanInv /\ WalkInv
  BY DEF XInv
<1> SUFFICES ASSUME NEW t \in Tops, Recorded(t)'
             PROVE  Forcing(t)' \/ (\E H \in SUBSET DOMAIN lib : Clean(t, H))'
  BY DEF CleanInv
<1>1. ASSUME UNCHANGED <<lib, dfg>>, Forcing(t) => Forcing(t)'
      PROVE  Forcing(t)' \/ (\E H \in SUBSET DOMAIN lib : Clean(t, H))'
  <2>1. Recorded(t)
    BY <1>1, CleanFrozen
  <2>2. CASE Forcing(t)
    BY <1>1, <2>2
  <2>3. CASE ~Forcing(t)
    <3>1. PICK H \in SUBSET DOMAIN lib : Clean(t, H)
      BY <1>0, <2>1, <2>3 DEF CleanInv
    <3>2. H \in SUBSET DOMAIN lib' /\ Clean(t, H)'
      BY <1>1, <3>1, CleanFrozen
    <3> QED
      BY <3>2
  <2> QED
    BY <2>2, <2>3
<1>2. ASSUME NEW i \in rest, Rename(i), UNCHANGED <<dfg, father, target, calls>>
      PROVE  Forcing(t)' \/ (\E H \in SUBSET DOMAIN lib : Clean(t, H))'
  <2>1. Recorded(t)
    BY <1>2 DEF Recorded
  <2>2. CASE Forcing(t)
    BY <1>2, <2>2 DEF Forcing, Rename, Top
  <2>3. CASE ~Forcing(t)
    <3>1. PICK H \in SUBSET DOMAIN lib : Clean(t, H)
      BY <1>0, <2>1, <2>3 DEF CleanInv
    <3>2. cur # Top(t)
      <4>1. ASSUME cur = Top(t) PROVE FALSE
        <5>1. pc = "run" /\ ~force
          BY <1>2, <2>3, <4>1 DEF Rename, Forcing
        <5>2. Unique(cur)
          BY <3>1, <4>1 DEF Unique, Clean
        <5> QED
          BY <1>2, <5>1, <5>2, UniqueLeftAlone DEF XInv
      <4> QED
        BY <4>1
    <3> QED
      BY <1>2, <3>1, <3>2, RenameKeepsClean
  <2> QED
    BY <2>2, <2>3
<1>3. ASSUME Finish, UNCHANGED dfg PROVE (\E H \in SUBSET DOMAIN lib : Clean(t, H))' \/ Forcing(t)'
  <2>1. UNCHANGED <<lib, dfg>>
    BY <1>3 DEF Finish
  <2>2. CASE Forcing(t)
    <3>1. cur[1] = t
      BY <2>2 DEF Forcing, Top
    <3>2. PICK H \in SUBSET DOMAIN lib : Clean(t, H)
      BY <1>3, <3>1, FinishClean
    <3>3. H \in SUBSET DOMAIN lib' /\ Clean(t, H)'
      BY <2>1, <3>2, CleanFrozen
    <3> QED
      BY <3>3
  <2>3. CASE ~Forcing(t)
    BY <1>1, <2>1, <2>3
  <2> QED
    BY <2>2, <2>3
<1>4. ASSUME NEW n \in Due, Makes(n)
      PROVE  Forcing(t)' \/ (\E H \in SUBSET DOMAIN lib : Clean(t, H))'
  <2>0. ~Forcing(t) /\ lib' = lib /\ DOMAIN dfg' = HasDfg \cup {n}
    BY <1>4, MakesEffect DEF Makes, Forcing, vars
  <2>1. CASE Below(n[1]) \cap OwnOf(t) = {}
    <3>1. PICK m \in DOMAIN dfg' : Below(m[1]) \cap OwnOf(t) # {}
      BY DEF Recorded, Below, OwnOf
    <3>2. Recorded(t)
      BY <2>0, <2>1, <3>1 DEF Recorded
    <3>3. PICK H \in SUBSET DOMAIN lib : Clean(t, H)
      BY <1>0, <2>0, <3>2 DEF CleanInv
    <3>4. Clean(t, H)'
      BY <1>4, <2>1, <3>3, MakesKeepsClean
    <3> QED
      BY <2>0, <3>4
  <2>2. CASE Below(n[1]) \cap OwnOf(t) # {}
    <3>1. PICK H \in SUBSET DOMAIN lib : Clean(cur[1], H) /\ n \in H /\ n[1] \in Below(cur[1])
      BY <2>2, DueWithin DEF Within, Own
    <3>2. cur[1] \in Tops
      BY <1>0 DEF WalkInv, Top
    <3>3. t = cur[1]
      BY <2>2, <3>1, <3>2, OwnUpwards
    <3>4. Clean(t, H)'
      BY <1>4, <3>1, <3>3, MakesKeepsClean
    <3> QED
      BY <2>0, <3>4
  <2> QED
    BY <2>1, <2>2
<1>5. ASSUME UNCHANGED <<lib, dfg, cur>>, pc = "run" /\ force => pc' = "run" /\ force'
      PROVE  Forcing(t)' \/ (\E H \in SUBSET DOMAIN lib : Clean(t, H))'
  BY <1>1, <1>5 DEF Forcing, Top
<1>6. ASSUME UNCHANGED <<lib, dfg>>, pc = "idle"
      PROVE  Forcing(t)' \/ (\E H \in SUBSET DOMAIN lib : Clean(t, H))'
  BY <1>1, <1>6 DEF Forcing
<1>7. CASE UNCHANGED xvars
  BY <1>5, <1>7 DEF xvars, vars
<1>8. ASSUME NEW d \in Tops, SetCurrent(d), dfg' = dfg
      PROVE  Forcing(t)' \/ (\E H \in SUBSET DOMAIN lib : Clean(t, H))'
  BY <1>6, <1>8 DEF SetCurrent
<1>9. ASSUME NEW f \in BOOLEAN, Start(f), dfg' = dfg
      PROVE  Forcing(t)' \/ (\E H \in SUBSET DOMAIN lib : Clean(t, H))'
  <2>1. UNCHANGED lib /\ pc = "idle"
    BY <1>9 DEF Start
  <2> QED
    BY <1>6, <1>9, <2>1
<1>10. ASSUME NEW n, ExtractSdfg(n)
      PROVE  Forcing(t)' \/ (\E H \in SUBSET DOMAIN lib : Clean(t, H))'
  BY <1>9, <1>10 DEF ExtractSdfg
<1>11. ASSUME NEW n, Take(n) \/ Keep(n), dfg' = dfg
      PROVE  Forcing(t)' \/ (\E H \in SUBSET DOMAIN lib : Clean(t, H))'
  BY <1>5, <1>11 DEF Take, Keep
<1>12. CASE Skips \/ \E c : Links(c)
  BY <1>6, <1>12 DEF Skips, Links, vars
<1> QED
  BY <1>2, <1>3, <1>4, <1>7, <1>8, <1>9, <1>10, <1>11, <1>12, XSteps

\* Nothing happened to the library, the current design and the graphs.
LEMMA WithinFrozen ==
    ASSUME UNCHANGED <<lib, dfg, cur>>, NEW S, NEW R \in SUBSET S, Within(S)
    PROVE  Within(R)'
<1>1. PICK c : c = cur[1]
  OBVIOUS
<1>2. \A H : Clean(c, H)' <=> Clean(c, H)
  BY CleanFrozen
<1>3. CASE \A n \in S : Below(n[1]) \cap Own = {}
  BY <1>3 DEF Within, Below, Own, OwnOf
<1>4. CASE \E H \in SUBSET DOMAIN lib :
             Clean(cur[1], H) /\ S \subseteq H /\ \A n \in S : n[1] \in Below(cur[1])
  <2>1. PICK H \in SUBSET DOMAIN lib :
             Clean(cur[1], H) /\ S \subseteq H /\ \A n \in S : n[1] \in Below(cur[1])
    BY <1>4
  <2>2. Clean(c, H)'
    BY <1>1, <1>2, <2>1
  <2>3. Clean(cur[1], H)'
    BY <1>1, <2>2 DEF Clean, OwnOf, UniqueWithin, Inst, Top
  <2>4. H \in SUBSET DOMAIN lib' /\ R \subseteq H /\ \A n \in R : n[1] \in Below(cur'[1])
    BY <2>1
  <2> QED
    BY <2>3, <2>4 DEF Within, Below
<1> QED
  BY <1>3, <1>4 DEF Within

LEMMA CallStep ==
    ASSUME XInv, [XNext]_xvars, SharedTargets
    PROVE  CallInv'
<1>0. CallInv /\ WalkInv /\ GraphInv
  BY DEF XInv
<1>1. ASSUME Open' = {} PROVE CallInv'
  BY <1>1 DEF CallInv, Within
<1>2. ASSUME UNCHANGED <<lib, dfg, cur>>, Open' \subseteq Open PROVE CallInv'
  <2>1. PICK R : R = Open'
    OBVIOUS
  <2>2. Within(R)'
    BY <1>0, <1>2, <2>1, WithinFrozen DEF CallInv
  <2> QED
    BY <2>1, <2>2 DEF CallInv, Within
<1>3. CASE Finish /\ UNCHANGED <<dfg, father, target, calls>>
  <2>1. UNCHANGED <<lib, dfg, cur>> /\ calls = {}
    BY <1>0, <1>3 DEF Finish, WalkInv
  <2>2. Open' \subseteq {target} \ {None}
    BY <1>3, <2>1 DEF Open, Named
  <2>3. CASE target = None
    BY <1>1, <2>2, <2>3
  <2>4. CASE target = cur
    <3>1. PICK H \in SUBSET DOMAIN lib : Clean(cur[1], H)
      BY <1>3, FinishClean
    <3>2. cur[1] \in Src /\ cur = Top(cur[1])
      BY <1>0, DesignAssumption DEF WalkInv, Top
    <3>3. cur \in H /\ cur[1] \in Below(cur[1])
      BY <3>1, <3>2, BelowClosed DEF Clean, UniqueWithin
    <3>4. Within({cur})
      BY <3>1, <3>3 DEF Within
    <3>5. PICK R : R = Open'
      OBVIOUS
    <3>6. Within(R)'
      BY <2>1, <2>2, <2>4, <3>4, <3>5, WithinFrozen
    <3> QED
      BY <3>5, <3>6 DEF CallInv, Within
  <2>5. CASE target # None /\ target # cur
    <3>1. PICK t \in Targets : target = Top(t)
      BY <1>0, <2>5 DEF WalkInv
    <3>2. \A n \in Open' : Below(n[1]) \cap Own = {}
      BY <2>2, <3>1 DEF SharedTargets, Top
    <3> QED
      BY <3>2 DEF CallInv, Within, Below, Own, OwnOf
  <2> QED
    BY <2>3, <2>4, <2>5
<1>4. ASSUME NEW n \in Due, Makes(n) PROVE CallInv'
  <2>1. UNCHANGED <<lib, cur>> /\ Open' \subseteq Open \cup {n} /\ n[1] \in Src
    BY <1>4, MakesEffect DEF vars
  <2>2. CASE \A m \in Open \cup {n} : Below(m[1]) \cap Own = {}
    <3>1. \A m \in Open' : Below(m[1]) \cap Own = {}
      BY <2>1, <2>2
    <3> QED
      BY <3>1 DEF CallInv, Within, Below, Own, OwnOf
  <2>3. CASE \E H \in SUBSET DOMAIN lib :
               /\ Clean(cur[1], H) /\ Open \cup {n} \subseteq H
               /\ \A m \in Open \cup {n} : m[1] \in Below(cur[1])
    <3>1. PICK H \in SUBSET DOMAIN lib :
               /\ Clean(cur[1], H) /\ Open \cup {n} \subseteq H
               /\ \A m \in Open \cup {n} : m[1] \in Below(cur[1])
      BY <2>3
    <3>2. PICK c : c = cur[1]
      OBVIOUS
    <3>3. Clean(c, H)'
      BY <1>4, <3>1, <3>2, MakesKeepsClean
    <3>4. Clean(cur[1], H)'
      BY <2>1, <3>2, <3>3 DEF Clean, OwnOf, UniqueWithin, Inst, Top
    <3>5. H \in SUBSET DOMAIN lib' /\ Open' \subseteq H /\ \A m \in Open' : m[1] \in Below(cur'[1])
      BY <2>1, <3>1
    <3> QED
      BY <3>4, <3>5 DEF CallInv, Within, Below
  <2> QED
    BY <1>4, <2>2, <2>3, DueWithin DEF Within
<1>5. CASE Skips \/ \E c \in calls : Links(c)
  <2>1. UNCHANGED <<lib, dfg, cur, pc>> /\ calls' \subseteq calls /\ target' \in {target, None}
    BY <1>5 DEF Skips, Links, vars
  <2>2. Open' \subseteq Open
    BY <2>1 DEF Open, Named
  <2> QED
    BY <1>2, <2>1, <2>2
<1>6. CASE UNCHANGED xvars
  BY <1>2, <1>6 DEF xvars, vars, Open, Named
<1>7. ASSUME pc' = "run", calls' = {} PROVE CallInv'
  BY <1>1, <1>7 DEF Open, Named
<1>8. ASSUME target' = None, calls' = {} PROVE CallInv'
  BY <1>1, <1>8 DEF Open, Named
<1>9. CASE Ready /\ UNCHANGED <<target, calls>>
  BY <1>8, <1>9 DEF Ready
<1>10. ASSUME NEW n, ExtractSdfg(n) PROVE CallInv'
  BY <1>7, <1>10 DEF ExtractSdfg, Start, Ready
<1>11. CASE pc = "run" /\ pc' = "run" /\ calls' = calls
  BY <1>0, <1>7, <1>11 DEF WalkInv
<1> QED
  BY <1>3, <1>4, <1>5, <1>6, <1>9, <1>10, <1>11, XSteps
     DEF Take, Rename, Keep

LEMMA WholeStep ==
    ASSUME XInv, [XNext]_xvars
    PROVE  WholeInv'
<1>0. Fathers /\ Refers /\ WalkInv /\ GraphInv
  BY DEF XInv, WholeInv
<1>11. Own' = Own
  BY DEF Own, OwnOf, Below
<1>12. ASSUME UNCHANGED <<dfg, father, calls>> PROVE Fathers'
  BY <1>0, <1>11, <1>12 DEF Fathers
<1>1. ASSUME UNCHANGED <<lib, dfg, father, calls>>, forces' = 0 => forces = 0
      PROVE  WholeInv'
  <2>1. Refers'
    BY <1>0, <1>11, <1>1 DEF Refers
  <2> QED
    BY <1>12, <1>1, <2>1 DEF WholeInv
<1>2. ASSUME NEW i \in rest, Rename(i), UNCHANGED <<dfg, father, target, calls>> PROVE WholeInv'
  <2>1. PICK new \in Name : Renamed(i, new)
    BY <1>2, RenameEffect DEF XInv, IInv
  <2>2. ASSUME forces' = 0, NEW n \in HasDfg, n[1] \in Own, NEW j \in DOMAIN dfg[n]
        PROVE  lib'[n][j] = dfg[n][j] /\ (dfg[n][j] \in HasDfg \/ <<n, j>> \in calls)
    <3>1. forces = 0 /\ pc = "run"
      BY <1>2, <2>2 DEF Rename
    <3>2. n \in DOMAIN lib /\ j \in Inst(n) /\ lib[n][j] = dfg[n][j]
          /\ (dfg[n][j] \in HasDfg \/ <<n, j>> \in calls)
      BY <1>0, <2>2, <3>1 DEF GraphInv, Refers, XInv, SameDesign
    <3>3. n # modu
      <4> SUFFICES ASSUME n = modu PROVE FALSE
        OBVIOUS
      <4>1. n[1] \in Below(cur[1]) /\ cur[1] \in Tops /\ cur = Top(cur[1]) /\ n[1] \in Src
        BY <3>1, MetBelow
      <4>2. PICK t \in Tops : n[1] \in OwnOf(t)
        BY <2>2 DEF Own
      <4>3. n[1] \in Below(n[1])
        BY <4>1, BelowClosed
      <4>4. t = cur[1]
        BY <4>1, <4>2, <4>3, OwnUpwards
      <4>5. Recorded(cur[1])
        BY <4>2, <4>3, <4>4 DEF Recorded
      <4>6. ~force
        BY <1>0, <3>1 DEF WalkInv, Counted
      <4>7. PICK H \in SUBSET DOMAIN lib : Clean(cur[1], H)
        BY <4>1, <4>5, <4>6 DEF XInv, CleanInv, Forcing
      <4>8. Unique(cur)
        BY <4>1, <4>7 DEF Unique, Clean
      <4> QED
        BY <1>2, <3>1, <4>6, <4>8, UniqueLeftAlone DEF XInv
    <3>4. lib'[n][j] = lib[n][j]
      BY <2>1, <3>2, <3>3 DEF Renamed
    <3> QED
      BY <3>2, <3>4
  <2>3. Refers'
    BY <1>11, <1>2, <2>2 DEF Refers
  <2> QED
    BY <1>12, <1>2, <2>3 DEF WholeInv
<1>3. ASSUME NEW n \in Due, Makes(n) PROVE WholeInv'
  <2>1. /\ DOMAIN dfg' = HasDfg \cup {n} /\ dfg'[n] = lib[n]
        /\ \A m \in HasDfg : dfg'[m] = dfg[m]
        /\ calls' = calls \cup {<<n, i>> : i \in Inst(n)}
        /\ UNCHANGED <<lib, father, forces>>
    BY <1>3, MakesEffect DEF vars
  <2>2. ASSUME NEW m \in HasDfg \cup {n}, NEW i \in DOMAIN dfg'[m]
        PROVE  /\ dfg'[m][i][1] \in Own =>
                     \/ <<m, i>> \in calls'
                     \/ dfg'[m][i] \in DOMAIN father /\ father[dfg'[m][i]] = <<m, i>>
               /\ forces = 0 /\ m[1] \in Own =>
                     lib[m][i] = dfg'[m][i] /\ (dfg'[m][i] \in DOMAIN dfg' \/ <<m, i>> \in calls')
    <3>1. CASE m = n
      BY <2>1, <2>2, <3>1 DEF Inst
    <3>2. CASE m # n
      BY <1>0, <2>1, <2>2, <3>2 DEF Fathers, Refers
    <3> QED
      BY <3>1, <3>2
  <2>3. Fathers'
    BY <1>11, <2>1, <2>2 DEF Fathers
  <2>4. Refers'
    BY <1>11, <2>1, <2>2 DEF Refers
  <2> QED
    BY <2>3, <2>4 DEF WholeInv
<1>4. ASSUME NEW c \in calls, Links(c) PROVE WholeInv'
  <2>0. PICK n, i : n = c[1] /\ i = c[2]
    OBVIOUS
  <2>1. PICK k : k = dfg[n][i]
    OBVIOUS
  <2>2. /\ c = <<n, i>> /\ n \in HasDfg /\ n \in DOMAIN lib /\ n[1] \in Src /\ i \in Inst(n)
        /\ lib[n][i] = k /\ i \in DOMAIN Design[n[1]] /\ k[1] = Design[n[1]][i]
    BY <1>0, <2>0, <2>1 DEF GraphInv, XInv, SameDesign, IInv, TypeInv, TypeOK, Name
  <2>3. /\ k \in HasDfg /\ calls' = calls \ {c} /\ UNCHANGED <<lib, dfg, forces>>
        /\ father' = [m \in DOMAIN father \cup {k} |-> IF m = k THEN c ELSE father[m]]
    BY <1>4, <2>0, <2>1 DEF Links, vars
  <2>4. ASSUME NEW m \in HasDfg, NEW j \in DOMAIN dfg[m], dfg[m][j] = k, k[1] \in Own
        PROVE  m = n /\ j = i
    <3>1. PICK t \in Tops : k[1] \in OwnOf(t)
      BY <2>4 DEF Own
    <3>2. k[1] \in Below(n[1])
      BY <2>2, BelowClosed
    <3>3. n \in Open
      BY <2>0 DEF Open
    <3>4. PICK H \in SUBSET DOMAIN lib : Clean(cur[1], H) /\ n \in H /\ n[1] \in Below(cur[1])
      BY <2>4, <3>2, <3>3 DEF XInv, CallInv, Within
    <3>5. cur[1] \in Tops
      BY <1>0 DEF WalkInv, Top
    <3>6. t = cur[1]
      BY <3>1, <3>2, <3>4, <3>5, OwnUpwards
    <3> QED
      BY <2>2, <2>4, <3>1, <3>4, <3>6 DEF Clean
  <2>5. ASSUME NEW m \in HasDfg, NEW j \in DOMAIN dfg[m], dfg[m][j][1] \in Own, <<m, j>> \notin calls'
        PROVE  dfg[m][j] \in DOMAIN father' /\ father'[dfg[m][j]] = <<m, j>>
    <3>1. CASE dfg[m][j] = k
      BY <2>2, <2>3, <2>4, <2>5, <3>1
    <3>2. CASE dfg[m][j] # k
      <4>1. <<m, j>> # c
        BY <2>1, <2>2, <3>2
      <4>2. dfg[m][j] \in DOMAIN father /\ father[dfg[m][j]] = <<m, j>>
        BY <1>0, <2>3, <2>5, <4>1 DEF Fathers
      <4> QED
        BY <2>3, <3>2, <4>2
    <3> QED
      BY <3>1, <3>2
  <2>6. ASSUME forces = 0, NEW m \in HasDfg, m[1] \in Own, NEW j \in DOMAIN dfg[m]
        PROVE  lib[m][j] = dfg[m][j] /\ (dfg[m][j] \in HasDfg \/ <<m, j>> \in calls')
    <3>1. CASE <<m, j>> = c
      BY <1>0, <2>1, <2>2, <2>3, <2>6, <3>1 DEF Refers
    <3>2. CASE <<m, j>> # c
      BY <1>0, <2>3, <2>6, <3>2 DEF Refers
    <3> QED
      BY <3>1, <3>2
  <2>7. Fathers'
    BY <1>11, <2>3, <2>5 DEF Fathers
  <2>8. Refers'
    BY <1>11, <2>3, <2>6 DEF Refers
  <2> QED
    BY <2>7, <2>8 DEF WholeInv
<1>5. ASSUME NEW f \in BOOLEAN, Start(f), UNCHANGED <<dfg, father, calls>> PROVE WholeInv'
  BY <1>0, <1>1, <1>5 DEF Start, WalkInv, Counted
<1> QED
  BY <1>1, <1>2, <1>3, <1>4, <1>5, XSteps
     DEF xvars, vars, SetCurrent, ExtractSdfg, Take, Keep, Finish, Skips

LEMMA XInductive == ASSUME SharedTargets PROVE XSpec => []XInv
<1>1. XInit => XInv
  <2> SUFFICES ASSUME XInit PROVE XInv
    OBVIOUS
  <2>1. Init /\ IInv /\ SameDesign /\ HasDfg = {} /\ calls = {} /\ target = None /\ pc = "idle"
    BY ExtractIsUniquify, TypeInit, DesignInit DEF IInv, XInit, Init
  <2>2. cur \in {Top(t) : t \in Tops} /\ forces \in Nat
    BY <2>1 DEF Init
  <2> QED
    BY <2>1, <2>2
       DEF XInv, WalkInv, Counted, GraphInv, ForceInv, CleanInv, Recorded, CallInv, Within,
           Open, Named, WholeInv, Fathers, Refers
<1>2. XInv /\ [XNext]_xvars => XInv'
  <2> SUFFICES ASSUME XInv, [XNext]_xvars PROVE XInv'
    OBVIOUS
  <2>1. IInv' /\ SameDesign'
    BY ExtractIsUniquify, TypeStep, RunStep, DesignStep DEF XInv, IInv
  <2> QED
    BY <2>1, WalkStep, GraphStep, ForceStep, CleanStep, CallStep, WholeStep DEF XInv
<1> QED
  BY <1>1, <1>2, PTL DEF XSpec

\* Of the modules that only one design has below it, each graph has the node it
\* is the child of as its father, and as long as -force is not used each
\* module below one with a graph has a graph: whatever is uniquified and
\* extracted, of this design and of others, and in whatever order.
THEOREM OwnWholeHolds == ASSUME SharedTargets PROVE XSpec => []OwnWhole
<1>1. XInv => OwnWhole
  <2> SUFFICES ASSUME XInv, calls = {}, NEW n \in HasDfg
               PROVE  /\ \A i \in DOMAIN dfg[n] : dfg[n][i][1] \in Own => father[dfg[n][i]] = <<n, i>>
                      /\ forces = 0 /\ n[1] \in Own => \A i \in Inst(n) : lib[n][i] \in HasDfg
    BY DEF OwnWhole
  <2>1. DOMAIN dfg[n] = Inst(n)
    BY DEF XInv, GraphInv, SameDesign
  <2> QED
    BY <2>1 DEF XInv, WholeInv, Fathers, Refers
<1> QED
  BY <1>1, XInductive, PTL
=============================================================================
