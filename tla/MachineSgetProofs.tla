-------------------------- MODULE MachineSgetProofs --------------------------
(***************************************************************************)
(* The debugger is attached to the script that was asked for, children     *)
(* return to their callers and share their cycles: proofs about            *)
(* MachineSget for every depth, limit and nesting.                         *)
(***************************************************************************)
EXTENDS MachineSget, WellFoundedInduction, TLAPS

(* Every exec and spawn takes one off the depth and starts one script,     *)
(* unless an exec has failed.                                              *)
CountsScripts ==
  /\ ~failed => specify + newest = Depth
  /\ phase = "attached" => specify = 0 /\ (~failed => machine.script = newest)

(* A machine and the one it waits for.                                     *)
Child(i) == IF i = Len(machine_vec) THEN machine ELSE machine_vec[i + 1]

(* Every child knows its caller, whatever the two have executed since.     *)
CallersAreKnown ==
  \A i \in DOMAIN machine_vec : Child(i).caller = machine_vec[i].script

First == IF machine_vec = <<>> THEN machine ELSE machine_vec[1]

(* Every child has what its caller had left, if that could pay for it.     *)
BudgetsAreHandedDown ==
  /\ First.max = MaxCycles
  /\ machine.max < Word
  /\ \A i \in DOMAIN machine_vec :
       /\ machine_vec[i].max < Word
       /\ machine_vec[i].cycles <= machine_vec[i].max =>
            Child(i).max = machine_vec[i].max - machine_vec[i].cycles

IInv == TypeOK /\ CountsScripts /\ CallersAreKnown /\ BudgetsAreHandedDown

-----------------------------------------------------------------------------
(* Counters that fit need no wrapping.                                     *)
LEMMA ModSmall ==
  ASSUME NEW w \in Nat, NEW x \in 0 .. w - 1
  PROVE  x % w = x
  OBVIOUS

(* A wrapped budget is a number below Word.                                *)
LEMMA ModBelow ==
  ASSUME NEW w \in Nat \ {0}, NEW x \in Int
  PROVE  x % w \in Nat /\ x % w < w
  OBVIOUS

(* Putting a caller on top of the others.                                  *)
LEMMA Pushed ==
  ASSUME NEW S, NEW s \in Seq(S), NEW e \in S
  PROVE  /\ Append(s, e) \in Seq(S) /\ Append(s, e) # <<>>
         /\ Len(Append(s, e)) = Len(s) + 1
         /\ DOMAIN Append(s, e) = 1 .. Len(s) + 1
         /\ \A i \in 1 .. Len(s) : Append(s, e)[i] = s[i]
         /\ Append(s, e)[Len(s) + 1] = e
  OBVIOUS

(* Taking it off again.                                                    *)
LEMMA PoppedOff ==
  ASSUME NEW S, NEW s \in Seq(S), s # <<>>
  PROVE  /\ Len(s) \in Nat \ {0} /\ DOMAIN s = 1 .. Len(s)
         /\ Last(s) = s[Len(s)] /\ Last(s) \in S
         /\ Front(s) \in Seq(S) /\ Len(Front(s)) = Len(s) - 1
         /\ DOMAIN Front(s) = 1 .. Len(s) - 1
         /\ \A i \in 1 .. Len(s) - 1 : Front(s)[i] = s[i]
<1>1. Len(s) \in Nat \ {0} /\ DOMAIN s = 1 .. Len(s) /\ s[Len(s)] \in S
  OBVIOUS
<1>2. Len(s) - 1 \in 0 .. Len(s)
  BY <1>1
<1> QED BY <1>1, <1>2 DEF Last, Front

(* A machine whose cycles grow.                                            *)
LEMMA Grown ==
  ASSUME NEW m \in MachineType, NEW c \in Nat
  PROVE  LET g == [m EXCEPT !.cycles = @ + c] IN
         /\ g \in MachineType /\ g.cycles = m.cycles + c
         /\ g.script = m.script /\ g.caller = m.caller /\ g.max = m.max
<1> DEFINE g == [m EXCEPT !.cycles = @ + c]
<1>1. m.cycles + c \in Nat
  BY DEF MachineType
<1>2. g \in MachineType
  BY <1>1 DEF MachineType
<1>3. g.cycles = m.cycles + c /\ g.script = m.script /\ g.caller = m.caller /\ g.max = m.max
  BY DEF MachineType
<1> QED BY <1>2, <1>3

(* The machines are well formed before anything has run.                   *)
LEMMA InitInv == Init => IInv
<1> SUFFICES ASSUME Init PROVE IInv
  OBVIOUS
<1>1. PICK transferred \in {0} \cup Costs : machine = Machine(0, None, None, transferred, MaxCycles)
  BY DEF Init
<1>2. transferred \in Nat /\ None \in Script /\ MaxCycles \in Nat /\ MaxCycles < Word
  BY CyclesAssumption DEF None, Script
<1>3. machine \in MachineType /\ machine.max = MaxCycles /\ machine.script = 0
  BY <1>1, <1>2 DEF Machine, MachineType
<1>4. machine_vec = <<>> /\ machine_vec \in Seq(MachineType) /\ DOMAIN machine_vec = {}
  BY DEF Init
<1>5. TypeOK
  <2>1. answered \in [spawn : Script, data : Script]
    BY <1>2 DEF Init, Unanswered
  <2>2. specify \in 0 .. Depth /\ phase \in {"searching", "attached"}
    BY DepthAssumption DEF Init
  <2> QED BY <1>2, <1>3, <1>4, <2>1, <2>2 DEF Init, TypeOK
<1>6. CountsScripts
  BY <1>3, DepthAssumption DEF Init, CountsScripts
<1>7. CallersAreKnown /\ BudgetsAreHandedDown
  BY <1>2, <1>3, <1>4 DEF CallersAreKnown, BudgetsAreHandedDown, First
<1> QED BY <1>5, <1>6, <1>7 DEF IInv

(* What a machine does to itself, exec included, leaves its caller and its *)
(* limit alone.                                                            *)
LEMMA OwnStep ==
  ASSUME TypeOK, CallersAreKnown, BudgetsAreHandedDown, UNCHANGED machine_vec,
         machine'.caller = machine.caller, machine'.max = machine.max
  PROVE  CallersAreKnown' /\ BudgetsAreHandedDown'
  BY DEF CallersAreKnown, BudgetsAreHandedDown, Child, First

(* An instruction changes cycles, script or running, and nothing else.     *)
LEMMA SteppedType ==
  ASSUME TypeOK, NEW c \in Nat
  PROVE  /\ Stepped(c) \in MachineType
         /\ Stepped(c).caller = machine.caller /\ Stepped(c).max = machine.max
         /\ Stepped(c).script = machine.script
<1>1. machine \in MachineType
  BY DEF TypeOK
<1> QED BY <1>1, Grown DEF Stepped

(* spawn: the new child knows its caller and has what the caller left.     *)
LEMMA SpawnStep ==
  ASSUME IInv, Spawn
  PROVE  IInv'
<1>1. /\ machine \in MachineType /\ machine_vec \in Seq(MachineType) /\ newest \in Nat
      /\ Ecall \in Nat /\ Word \in Nat \ {0} /\ specify \in 0 .. Depth /\ specify # 0
      /\ Depth \in Nat /\ phase = "searching"
  BY CyclesAssumption, DepthAssumption DEF IInv, TypeOK, Spawn, Running
<1>2. PICK n \in Nat : /\ n = Len(machine_vec) /\ DOMAIN machine_vec = 1 .. n
                      /\ (n = 0 <=> machine_vec = <<>>)
  BY <1>1
<1>3. /\ Caller \in MachineType /\ Caller.script = machine.script /\ Caller.caller = machine.caller
      /\ Caller.max = machine.max /\ Caller.cycles = machine.cycles + Ecall
  BY <1>1, Grown DEF Caller
<1>4. machine.max \in Nat /\ machine.cycles \in Nat /\ machine.max < Word
  BY <1>1 DEF MachineType, IInv, BudgetsAreHandedDown
<1>5. CyclesDiff \in Nat /\ CyclesDiff < Word
  <2>1. machine.max - Ecall - machine.cycles \in Int
    BY <1>1, <1>4
  <2> QED BY <1>1, <2>1, ModBelow DEF CyclesDiff
<1>6. Caller.cycles <= Caller.max => CyclesDiff = Caller.max - Caller.cycles
  <2> SUFFICES ASSUME machine.cycles + Ecall <= machine.max
               PROVE  CyclesDiff = machine.max - (machine.cycles + Ecall)
    BY <1>3
  <2>1. machine.max - Ecall - machine.cycles \in 0 .. Word - 1
    BY <1>1, <1>4
  <2> QED BY <1>1, <1>4, <2>1, ModSmall DEF CyclesDiff
<1>7. /\ machine' \in MachineType /\ machine'.script = newest + 1
      /\ machine'.caller = machine.script /\ machine'.max = CyclesDiff
  BY <1>1, <1>5 DEF Spawn, Machine, MachineType, Script
<1>8. /\ machine_vec' \in Seq(MachineType) /\ machine_vec' # <<>> /\ Len(machine_vec') = n + 1
      /\ DOMAIN machine_vec' = 1 .. n + 1
      /\ \A i \in 1 .. n : machine_vec'[i] = machine_vec[i]
      /\ machine_vec'[n + 1] = Caller
  BY <1>1, <1>2, <1>3, Pushed DEF Spawn
<1>9. TypeOK'
  BY <1>1, <1>7, <1>8 DEF IInv, TypeOK, Spawn, Counted, Attach, Script
<1>10. CountsScripts'
  BY <1>1, <1>7 DEF IInv, CountsScripts, Spawn, Counted, Attach, TypeOK
<1>11. /\ \A i \in 1 .. n - 1 : Child(i)' = machine_vec[i + 1] /\ Child(i) = machine_vec[i + 1]
       /\ n # 0 => Child(n)' = Caller /\ Child(n) = machine
       /\ Child(n + 1)' = machine'
  <2>1. Child(n + 1)' = machine'
    BY <1>2, <1>8 DEF Child
  <2>2. n # 0 => Child(n)' = Caller /\ Child(n) = machine
    BY <1>2, <1>8 DEF Child
  <2>3. ASSUME NEW i \in 1 .. n - 1
        PROVE  Child(i)' = machine_vec[i + 1] /\ Child(i) = machine_vec[i + 1]
    BY <1>2, <1>8 DEF Child
  <2> QED BY <2>1, <2>2, <2>3
<1>12. ASSUME NEW i \in 1 .. n + 1
       PROVE  /\ Child(i)'.caller = machine_vec'[i].script
              /\ machine_vec'[i].max < Word
              /\ machine_vec'[i].cycles <= machine_vec'[i].max =>
                   Child(i)'.max = machine_vec'[i].max - machine_vec'[i].cycles
  <2>1. CASE i \in 1 .. n - 1
    BY <1>2, <1>8, <1>11, <2>1 DEF IInv, CallersAreKnown, BudgetsAreHandedDown
  <2>2. CASE i = n
    BY <1>2, <1>3, <1>8, <1>11, <2>2 DEF IInv, CallersAreKnown, BudgetsAreHandedDown
  <2>3. CASE i = n + 1
    BY <1>3, <1>4, <1>6, <1>7, <1>8, <1>11, <2>3
  <2> QED BY <1>2, <2>1, <2>2, <2>3
<1>13. First'.max = MaxCycles
  <2>1. First' = machine_vec'[1]
    BY <1>8 DEF First
  <2>2. CASE n = 0
    BY <1>2, <1>3, <1>8, <2>1, <2>2 DEF IInv, BudgetsAreHandedDown, First
  <2>3. CASE n # 0
    BY <1>2, <1>8, <2>1, <2>3 DEF IInv, BudgetsAreHandedDown, First
  <2> QED BY <2>2, <2>3
<1>14. CallersAreKnown' /\ BudgetsAreHandedDown'
  BY <1>5, <1>7, <1>8, <1>12, <1>13 DEF CallersAreKnown, BudgetsAreHandedDown
<1> QED BY <1>9, <1>10, <1>14 DEF IInv

(* A child has exited: what is left is a prefix of the chain of callers.   *)
LEMMA ReturnStep ==
  ASSUME IInv, Return
  PROVE  IInv' /\ machine'.script = machine.caller
<1> DEFINE n == Len(machine_vec)
<1>1. /\ machine_vec \in Seq(MachineType) /\ machine_vec # <<>> /\ machine \in MachineType
      /\ spawn_data \in Script /\ machine.spawn \in Script
  BY DEF IInv, TypeOK, Return, MachineType
<1>2. /\ n \in Nat \ {0} /\ DOMAIN machine_vec = 1 .. n
      /\ machine' = machine_vec[n] /\ machine' \in MachineType
      /\ machine_vec' \in Seq(MachineType) /\ Len(machine_vec') = n - 1
      /\ DOMAIN machine_vec' = 1 .. n - 1
      /\ \A i \in 1 .. n - 1 : machine_vec'[i] = machine_vec[i]
  BY <1>1, PoppedOff DEF Return, Popped
<1>3. TypeOK'
  BY <1>1, <1>2 DEF IInv, TypeOK, Return
<1>4. CountsScripts'
  BY DEF IInv, CountsScripts, Return
<1>5. Child(n) = machine /\ \A i \in 1 .. n - 1 : Child(i)' = machine_vec[i + 1] /\ Child(i) = machine_vec[i + 1]
  BY <1>2 DEF Child
<1>6. First' = machine_vec[1] /\ First = machine_vec[1]
  <2>1. machine_vec' = <<>> <=> n = 1
    BY <1>2
  <2> QED BY <1>1, <1>2, <2>1 DEF First
<1>7. CallersAreKnown'
  BY <1>2, <1>5 DEF IInv, CallersAreKnown
<1>8. BudgetsAreHandedDown'
  BY <1>2, <1>5, <1>6 DEF IInv, BudgetsAreHandedDown
<1>9. machine'.script = machine.caller
  BY <1>2, <1>5 DEF IInv, CallersAreKnown
<1> QED BY <1>3, <1>4, <1>7, <1>8, <1>9 DEF IInv

(* The invariant is inductive.                                             *)
LEMMA NextInv == IInv /\ [Next]_vars => IInv'
<1> SUFFICES ASSUME IInv, [Next]_vars PROVE IInv'
  OBVIOUS
<1>0. TypeOK /\ CountsScripts /\ CallersAreKnown /\ BudgetsAreHandedDown
  BY DEF IInv
<1>1. ASSUME NEW c \in Costs, Step(c) PROVE IInv'
  <2>1. c \in Nat
    BY CyclesAssumption
  <2>2. TypeOK' /\ machine'.caller = machine.caller /\ machine'.max = machine.max
    BY <1>0, <1>1, <2>1, SteppedType DEF Step, TypeOK
  <2>3. CountsScripts'
    BY <1>0, <1>1 DEF Step, Running, CountsScripts
  <2> QED BY <1>0, <1>1, <2>2, <2>3, OwnStep DEF IInv, Step
<1>2. ASSUME Exit PROVE IInv'
  <2>1. Ecall \in Nat
    BY CyclesAssumption
  <2>2. machine' \in MachineType /\ machine'.caller = machine.caller /\ machine'.max = machine.max
    BY <1>0, <1>2, <2>1, SteppedType DEF Exit, MachineType
  <2>3. TypeOK' /\ CountsScripts'
    BY <1>0, <1>2, <2>2 DEF Exit, Running, CountsScripts, TypeOK
  <2> QED BY <1>0, <1>2, <2>2, <2>3, OwnStep DEF IInv, Exit
<1>3. ASSUME NEW ok \in BOOLEAN, Exec(ok) PROVE IInv'
  <2>1. Ecall \in Nat /\ newest \in Nat /\ specify \in 0 .. Depth /\ specify # 0 /\ Depth \in Nat
        /\ failed \in BOOLEAN /\ phase = "searching"
    BY <1>0, <1>3, CyclesAssumption, DepthAssumption DEF TypeOK, Exec, Running
  <2>2. machine' \in MachineType /\ machine'.caller = machine.caller /\ machine'.max = machine.max
        /\ (ok => machine'.script = newest + 1)
    BY <1>0, <1>3, <2>1, SteppedType DEF Exec, MachineType
  <2>3. TypeOK'
    BY <1>0, <1>3, <2>1, <2>2 DEF Exec, Counted, Attach, TypeOK
  <2>4. CountsScripts'
    <3>1. CASE ok
      BY <1>0, <1>3, <2>1, <2>2, <3>1 DEF Exec, Counted, Attach, CountsScripts
    <3>2. CASE ~ok
      BY <1>0, <1>3, <2>1, <3>2 DEF Exec, Counted, Attach, CountsScripts
    <3> QED BY <3>1, <3>2
  <2> QED BY <1>0, <1>3, <2>2, <2>3, <2>4, OwnStep DEF IInv, Exec
<1>4. ASSUME Fails \/ SpawnPanics \/ ReturnPanics PROVE IInv'
  <2>1. /\ UNCHANGED <<specify, machine, machine_vec, spawn_data, newest, failed, answered>>
        /\ phase' \in {"error", "panicked"}
    BY <1>4 DEF Fails, SpawnPanics, ReturnPanics, ghosts
  <2>2. TypeOK' /\ CountsScripts'
    BY <1>0, <2>1 DEF TypeOK, CountsScripts
  <2> QED BY <1>0, <2>1, <2>2, OwnStep DEF IInv
<1>5. ASSUME Over \/ UNCHANGED vars PROVE IInv'
  <2>1. UNCHANGED vars
    BY <1>5 DEF Over
  <2>2. TypeOK' /\ CountsScripts'
    BY <1>0, <2>1 DEF vars, TypeOK, CountsScripts
  <2> QED BY <1>0, <2>1, <2>2, OwnStep DEF IInv, vars
<1> QED BY <1>1, <1>2, <1>3, <1>4, <1>5, SpawnStep, ReturnStep DEF Next, Search

(* So it always holds.                                                     *)
LEMMA InvHolds == Spec => []IInv
  BY InitInv, NextInv, PTL DEF Spec

(* The machine that runs, its callers and the counters are well formed.    *)
THEOREM TypeCorrect == Spec => []TypeOK
<1>1. IInv => TypeOK
  BY DEF IInv
<1> QED BY <1>1, InvHolds, PTL

(* For every depth N and any nesting of exec and spawn, the debugger is    *)
(* attached to the N-th script (machine_sget).                             *)
THEOREM AttachedToTheNth == Spec => []AttachedIsNth
<1>1. IInv => AttachedIsNth
  BY DEF IInv, TypeOK, CountsScripts, AttachedIsNth
<1> QED BY <1>1, InvHolds, PTL

(* However deep the spawns nest, and whatever exec has replaced, a child   *)
(* that exits resumes the script that spawned it.                          *)
THEOREM CallerIsResumed == Spec => ResumesTheCaller
<1> DEFINE Resumes == Len(machine_vec') < Len(machine_vec) => machine'.script = machine.caller
<1>1. IInv /\ [Next]_vars => [Resumes]_vars
  <2> SUFFICES ASSUME IInv, Next, Len(machine_vec') < Len(machine_vec)
               PROVE  machine'.script = machine.caller
    BY Zenon
  <2>1. machine_vec' # machine_vec /\ Len(machine_vec) \in Nat
    BY DEF IInv, TypeOK
  <2>2. ASSUME Spawn PROVE FALSE
    <3>1. Caller \in MachineType
      BY CyclesAssumption, Grown DEF IInv, TypeOK, Caller
    <3>2. Len(machine_vec') = Len(machine_vec) + 1
      BY <2>2, <3>1, Pushed DEF Spawn, IInv, TypeOK
    <3> QED BY <2>1, <3>2
  <2>3. Return
    BY <2>1, <2>2 DEF Next, Search, Step, Exit, Fails, Exec, SpawnPanics, ReturnPanics, Over, vars
  <2> QED BY <2>3, ReturnStep
<1> QED BY <1>1, InvHolds, PTL DEF Spec, ResumesTheCaller

(* Induction over the indices of a sequence: a set of indices that holds 0 *)
(* and with every index the next one holds them all.                       *)
LEMMA IndexInduction ==
  ASSUME NEW n \in Nat, NEW P, 0 \in P, \A i \in 1 .. n : i - 1 \in P => i \in P
  PROVE  \A i \in 0 .. n : i \in P
<1> DEFINE T == {i \in 0 .. n : i \notin P}
           R == {ss \in Nat \X Nat : ss[1] < ss[2]}
<1> SUFFICES ASSUME T # {} PROVE FALSE
  OBVIOUS
<1>1. IsWellFoundedOn(R, Nat)
  BY NatLessThanWellFounded, Zenon DEF OpToRel
<1>2. T \in SUBSET Nat
  OBVIOUS
<1>3. PICK x \in T : \A y \in T : ~(<<y, x>> \in R)
  <2> HIDE DEF T, R
  <2> QED BY <1>1, <1>2, WFMin, Zenon
<1>4. x \in 1 .. n /\ x - 1 \in 0 .. n
  OBVIOUS
<1>5. x - 1 \notin T
  <2>1. <<x - 1, x>> \in R
    BY <1>4
  <2> QED BY <1>3, <2>1
<1> QED BY <1>4, <1>5

(* Whatever adds up from nothing to the elements of a sequence ends in     *)
(* their sum.                                                              *)
LEMMA SumIs ==
  ASSUME NEW s \in Seq(Nat), NEW p, p \in [0 .. Len(s) -> Nat], p[0] = 0,
         \A i \in 1 .. Len(s) : p[i] = p[i - 1] + s[i]
  PROVE  Sum(s) = p[Len(s)]
<1> DEFINE n == Len(s)
           Once(q) == [i \in 0 .. n |-> IF i = 0 THEN 0 ELSE q[i - 1] + s[i]]
           ps == PartialSums(s)
           P == {i \in 0 .. n : ps[i] = p[i]}
<1>0. n \in Nat
  OBVIOUS
<1>1. p = Once(p)
  <2>1. ASSUME NEW i \in 0 .. n PROVE p[i] = Once(p)[i]
    <3>1. CASE i = 0
      BY <3>1
    <3>2. CASE i # 0
      <4>1. i \in 1 .. n
        BY <3>2
      <4> QED BY <3>2, <4>1
    <3> QED BY <3>1, <3>2
  <2>2. p = [i \in 0 .. n |-> p[i]]
    OBVIOUS
  <2> QED BY <2>1, <2>2
<1>2. ps = Once(ps)
  BY <1>1 DEF PartialSums
<1> HIDE DEF ps
<1>3. 0 \in P
  BY <1>0, <1>2
<1>4. ASSUME NEW i \in 1 .. n, i - 1 \in P PROVE i \in P
  <2>1. i \in 0 .. n /\ i # 0 /\ ps[i - 1] = p[i - 1]
    BY <1>0, <1>4
  <2>2. ps[i] = Once(ps)[i]
    BY <1>2
  <2>3. ps[i] = ps[i - 1] + s[i]
    BY <2>1, <2>2
  <2> QED BY <2>1, <2>3
<1> HIDE DEF P
<1>5. \A i \in 0 .. n : i \in P
  BY <1>0, <1>3, <1>4, IndexInduction
<1>6. n \in P
  BY <1>0, <1>5
<1> QED BY <1>6 DEF P, Sum, ps

(* As long as every machine has stayed within its own limit, what the      *)
(* callers have used is what the limit has shrunk by.                      *)
LEMMA CallersCycles ==
  ASSUME IInv, \A m \in Live : m.cycles <= m.max
  PROVE  Sum([i \in DOMAIN machine_vec |-> machine_vec[i].cycles]) = MaxCycles - machine.max
<1> DEFINE n == Len(machine_vec)
           s == [i \in DOMAIN machine_vec |-> machine_vec[i].cycles]
           m(i) == IF i = n THEN machine.max ELSE machine_vec[i + 1].max
           p == [i \in 0 .. n |-> MaxCycles - m(i)]
<1>1. /\ machine_vec \in Seq(MachineType) /\ machine \in MachineType
      /\ n \in Nat /\ DOMAIN machine_vec = 1 .. n /\ (n = 0 <=> machine_vec = <<>>)
  BY DEF IInv, TypeOK
<1>2. ASSUME NEW i \in 1 .. n PROVE machine_vec[i].cycles \in Nat /\ machine_vec[i].max \in Nat
  <2>1. machine_vec[i] \in MachineType
    BY <1>1
  <2> QED BY <2>1 DEF MachineType
<1>3. s \in Seq(Nat) /\ Len(s) = n /\ \A i \in 1 .. n : s[i] = machine_vec[i].cycles
  BY <1>1, <1>2
<1>4. m(0) = MaxCycles
  <2>1. CASE n = 0
    BY <1>1, <2>1 DEF IInv, BudgetsAreHandedDown, First
  <2>2. CASE n # 0
    BY <1>1, <2>2 DEF IInv, BudgetsAreHandedDown, First
  <2> QED BY <2>1, <2>2
<1>5. ASSUME NEW i \in 1 .. n
      PROVE  /\ m(i - 1) = machine_vec[i].max /\ m(i) = m(i - 1) - s[i] /\ s[i] <= m(i - 1)
  <2>1. machine_vec[i] \in Live
    BY <1>1 DEF Live, Range
  <2>2. machine_vec[i].cycles <= machine_vec[i].max
    BY <2>1
  <2>3. Child(i).max = machine_vec[i].max - machine_vec[i].cycles
    BY <1>1, <2>2 DEF IInv, BudgetsAreHandedDown
  <2>4. m(i) = Child(i).max
    BY <1>1 DEF Child
  <2>5. m(i - 1) = machine_vec[i].max
    BY <1>1
  <2> QED BY <1>3, <2>2, <2>3, <2>4, <2>5
<1>6. \A i \in 0 .. n : m(i) \in 0 .. MaxCycles
  <2> DEFINE P == {i \in 0 .. n : m(i) \in 0 .. MaxCycles}
  <2>1. 0 \in P
    BY <1>1, <1>4, CyclesAssumption
  <2>2. ASSUME NEW i \in 1 .. n, i - 1 \in P PROVE i \in P
    <3>1. m(i - 1) \in 0 .. MaxCycles /\ s[i] \in Nat /\ i \in 0 .. n
      BY <1>1, <1>2, <1>3, <2>2
    <3>2. m(i) = m(i - 1) - s[i] /\ s[i] <= m(i - 1)
      BY <1>5
    <3> HIDE DEF m, s
    <3> QED BY <3>1, <3>2, CyclesAssumption
  <2> HIDE DEF P, m
  <2>3. \A i \in 0 .. n : i \in P
    BY <1>1, <2>1, <2>2, IndexInduction
  <2> QED BY <2>3 DEF P
<1>7. /\ p \in [0 .. n -> Nat] /\ p[0] = 0
      /\ \A i \in 1 .. n : p[i] = p[i - 1] + s[i]
  <2> HIDE DEF m, s
  <2>1. p \in [0 .. n -> Nat]
    BY <1>1, <1>6, CyclesAssumption
  <2>2. p[0] = 0
    BY <1>1, <1>4, CyclesAssumption
  <2>3. ASSUME NEW i \in 1 .. n PROVE p[i] = p[i - 1] + s[i]
    <3>1. i \in 0 .. n /\ i - 1 \in 0 .. n
      BY <1>1
    <3>2. p[i] = MaxCycles - m(i) /\ p[i - 1] = MaxCycles - m(i - 1)
      BY <3>1
    <3>3. m(i) \in Nat /\ m(i - 1) \in Nat /\ s[i] \in Nat /\ MaxCycles \in Nat
      BY <1>3, <1>6, <3>1, CyclesAssumption
    <3> QED BY <1>5, <3>2, <3>3
  <2> QED BY <2>1, <2>2, <2>3
<1>8. Sum(s) = p[n]
  <2> HIDE DEF p, s
  <2> QED BY <1>3, <1>7, SumIs
<1>9. p[n] = MaxCycles - machine.max
  BY <1>1
<1> QED BY <1>8, <1>9

(* At any depth of spawns, the running machine and its waiting callers     *)
(* together stay within --max-cycles, unless one of them has spent more    *)
(* than it was given.                                                      *)
THEOREM LiveMachinesFitTheBudget == Spec => []LiveWithinBudget
<1>1. ASSUME IInv PROVE LiveWithinBudget
  <2> SUFFICES ASSUME \A m \in Live : m.cycles <= m.max PROVE LiveCycles <= MaxCycles
    BY DEF LiveWithinBudget
  <2>1. machine.cycles <= machine.max /\ machine.cycles \in Nat /\ machine.max \in Nat
    BY <1>1 DEF Live, IInv, TypeOK, MachineType
  <2>2. LiveCycles = machine.cycles + (MaxCycles - machine.max)
    BY <1>1, CallersCycles DEF LiveCycles
  <2> QED BY <2>1, <2>2, CyclesAssumption
<1> QED BY <1>1, InvHolds, PTL
=============================================================================
