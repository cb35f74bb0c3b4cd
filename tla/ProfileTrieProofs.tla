-------------------------- MODULE ProfileTrieProofs --------------------------
(***************************************************************************)
(* The profiler follows every disciplined program, however deep its        *)
(* recursion and however its tail calls nest: proofs about ProfileTrie for *)
(* every program, word size and bound.                                     *)
(***************************************************************************)
EXTENDS ProfileTrie, WellFoundedInduction, TLAPS

Word0 == 0 .. Word - 1
ActivationType == [fn : Addr, a0 : Word0]
Entry_ == [link : Nat, depth : Nat, act : ActivationType]

(* The frame of the path that a return address of the program belongs to,  *)
(* and the activation below it.                                            *)
Belongs(e) ==
  /\ e.depth \in 1 .. Len(path) - 1
  /\ path[e.depth + 1].link = e.link
  /\ path[e.depth].addr = e.act.fn /\ path[e.depth].a0 = e.act.a0
  /\ e.link - 1 \in CallSites

(* The path and the program's stack: the return addresses sit on the path  *)
(* in their order, and all other frames come from tail calls.              *)
Agreement ==
  /\ Current.addr = act.fn /\ Current.a0 = act.a0
  /\ \A k \in DOMAIN stack : Belongs(stack[k])
  /\ \A k, l \in DOMAIN stack : k < l => stack[k].depth < stack[l].depth
  /\ \A j \in 2 .. Len(path) :
       \/ \E k \in DOMAIN stack : stack[k].depth + 1 = j
       \/ path[j].link - 1 \in Nat \ CallSites

Following == Disciplined /\ ~reset_signal /\ status = "running"

Agrees == Following => Agreement

(* Between exec and the new profile the new program has not moved yet.     *)
ResetIsFresh == reset_signal => act = Activation(Entry, 0) /\ stack = <<>>

IInv == TypeOK /\ Agrees /\ ResetIsFresh /\ ChargesTheRunningFunction /\ HeapIsBreak

-----------------------------------------------------------------------------
(* The largest element of a set of numbers, once it is known.              *)
LEMMA MaxIs ==
  ASSUME NEW S \in SUBSET Nat, NEW m \in S, \A x \in S : x <= m
  PROVE  Max(S) = m
<1>1. \E x \in S : \A y \in S : x >= y
  OBVIOUS
<1>2. Max(S) \in S /\ \A y \in S : Max(S) >= y
  BY <1>1 DEF Max
<1>3. Max(S) \in Nat /\ m \in Nat /\ Max(S) >= m /\ Max(S) <= m
  BY <1>2
<1> QED BY <1>3

(* A set of numbers with an upper bound has a largest element.             *)
LEMMA MaxExists ==
  ASSUME NEW n \in Nat, NEW S \in SUBSET (1 .. n), S # {}
  PROVE  Max(S) \in S
<1> DEFINE T == {n - i : i \in S}
           R == {ss \in Nat \X Nat : ss[1] < ss[2]}
<1>0. IsWellFoundedOn(R, Nat)
  BY NatLessThanWellFounded, Zenon DEF OpToRel
<1>1. T \subseteq Nat /\ T # {}
  <2>1. \A i \in S : n - i \in Nat
    OBVIOUS
  <2> QED BY <2>1
<1> HIDE DEF T
<1>2. \E x \in T : \A y \in T : ~(<<y, x>> \in R)
  BY <1>0, <1>1, WFMin, Zenon
<1>2a. PICK x \in T : \A y \in T : ~(<<y, x>> \in R)
  BY <1>2
<1>3. \A y \in T : x <= y
  <2> TAKE y \in T
  <2>1. x \in Nat /\ y \in Nat
    BY <1>1
  <2>2. y < x => <<y, x>> \in R
    BY <2>1
  <2> QED BY <1>2a, <2>1, <2>2
<1> USE DEF T
<1>4. PICK i \in S : x = n - i
  OBVIOUS
<1>5. \A j \in S : j <= i
  <2> TAKE j \in S
  <2>1. n - j \in T
    OBVIOUS
  <2> QED BY <2>1, <1>3, <1>4
<1>6. S \in SUBSET Nat
  OBVIOUS
<1> QED BY <1>5, <1>6, MaxIs

(* Taking a prefix of a path.                                              *)
LEMMA Prefix ==
  ASSUME NEW S, NEW s \in Seq(S), NEW n \in 0 .. Len(s)
  PROVE  /\ SubSeq(s, 1, n) \in Seq(S)
         /\ Len(SubSeq(s, 1, n)) = n
         /\ DOMAIN SubSeq(s, 1, n) = 1 .. n
         /\ \A i \in 1 .. n : SubSeq(s, 1, n)[i] = s[i]
  OBVIOUS

(* Appending to a path.                                                    *)
LEMMA Appended ==
  ASSUME NEW S, NEW s \in Seq(S), NEW e \in S
  PROVE  /\ Append(s, e) \in Seq(S)
         /\ Len(Append(s, e)) = Len(s) + 1
         /\ DOMAIN Append(s, e) = 1 .. Len(s) + 1
         /\ \A i \in 1 .. Len(s) : Append(s, e)[i] = s[i]
         /\ Append(s, e)[Len(s) + 1] = e
  OBVIOUS

(* Sums of registers wrap.                                                 *)
LEMMA Wrapped ==
  ASSUME NEW x \in Nat
  PROVE  x % Word \in Word0
  BY WordAssumption DEF Word0

(* There is always a current node.                                         *)
LEMMA CurrentIsFrame ==
  ASSUME TypeOK
  PROVE  Len(path) \in DOMAIN path /\ Current \in Frame
<1>1. Len(path) \in Nat \ {0} /\ DOMAIN path = 1 .. Len(path)
  BY DEF TypeOK
<1>2. path[Len(path)] \in Frame
  BY <1>1 DEF TypeOK
<1> QED BY <1>1, <1>2 DEF Current

(* Charging an instruction keeps the nodes and their number.               *)
LEMMA ChargedType ==
  ASSUME TypeOK, NEW c \in Costs
  PROVE  Charged(c) \in Seq(Nat) /\ Len(Charged(c)) = Len(cycles)
  BY CostsAssumption DEF Charged, Current, TypeOK

(* The frame found is one of the path.                                     *)
LEMMA FoundInPath ==
  ASSUME TypeOK, NEW addr, Matches(addr) # {}
  PROVE  Found(addr) \in Matches(addr) /\ Found(addr) \in 1 .. Len(path)
<1>1. Len(path) \in Nat /\ Matches(addr) \in SUBSET (1 .. Len(path))
  BY DEF TypeOK, Matches
<1> QED BY <1>1, MaxExists DEF Found

-----------------------------------------------------------------------------
ProfileTypes ==
  /\ path \in Seq(Frame) /\ path # <<>>
  /\ cycles \in Seq(Nat)
  /\ \A i \in DOMAIN path : path[i].id \in DOMAIN cycles
  /\ sbrk_heap \in Word0

(* A call pushes a well-formed frame with a node of its own.               *)
LEMMA CallType ==
  ASSUME TypeOK, NEW addr \in Addr, NEW a0 \in Word0, NEW c \in Costs, call(addr, a0, c)
  PROVE  ProfileTypes'
<1> DEFINE f == [addr |-> addr, link |-> pc + 1, a0 |-> a0, id |-> Len(cycles) + 1]
<1>1. f \in Frame
  BY DEF Frame, TypeOK, Word0
<1>2. /\ path' \in Seq(Frame) /\ path' # <<>> /\ DOMAIN path' = 1 .. Len(path) + 1
      /\ \A i \in 1 .. Len(path) : path'[i] = path[i]
      /\ path'[Len(path) + 1] = f
  BY <1>1, Appended DEF call, TypeOK
<1>3. cycles' \in Seq(Nat) /\ DOMAIN cycles' = 1 .. Len(cycles) + 1
  BY ChargedType, Appended DEF call
<1>4. \A i \in DOMAIN path' : path'[i].id \in DOMAIN cycles'
  <2> TAKE i \in DOMAIN path'
  <2>1. CASE i \in 1 .. Len(path)
    <3>1. path'[i] = path[i] /\ path[i].id \in 1 .. Len(cycles) /\ Len(cycles) \in Nat
      BY <1>2, <2>1 DEF TypeOK
    <3> QED BY <3>1, <1>3
  <2>2. CASE i = Len(path) + 1
    BY <1>2, <1>3, <2>2 DEF TypeOK
  <2> QED BY <1>2, <2>1, <2>2 DEF TypeOK
<1>5. sbrk_heap' \in Word0
  BY DEF call, TypeOK, Word0
<1> QED BY <1>2, <1>3, <1>4, <1>5 DEF ProfileTypes

(* A return leaves at least the root.                                      *)
LEMMA QuitType ==
  ASSUME TypeOK, NEW addr \in Nat, NEW a0 \in Word0, NEW c \in Costs, quit_or_skip(addr, a0, c)
  PROVE  ProfileTypes'
<1>1. cycles' \in Seq(Nat) /\ DOMAIN cycles' = DOMAIN cycles
  BY ChargedType DEF quit_or_skip, TypeOK
<1>2. CASE Matches(addr) = {}
  BY <1>1, <1>2 DEF quit_or_skip, TypeOK, ProfileTypes, Word0
<1>3. CASE Matches(addr) # {}
  <2>1. Found(addr) \in 1 .. Len(path)
    BY <1>3, FoundInPath
  <2>2. sbrk_heap' \in Word0
    <3>1. Current.a0 + a0 \in Nat
      BY CurrentIsFrame, WordAssumption DEF Frame, Word0
    <3> QED BY <3>1, <1>3, Wrapped DEF quit_or_skip, NewHeap, TypeOK, Word0
  <2>3. CASE Found(addr) = 1
    BY <1>1, <1>3, <2>2, <2>3 DEF quit_or_skip, TypeOK, ProfileTypes
  <2>4. CASE Found(addr) # 1
    <3>1. path' = SubSeq(path, 1, Found(addr) - 1) /\ Found(addr) - 1 \in 1 .. Len(path)
      BY <1>3, <2>1, <2>4 DEF quit_or_skip, TypeOK
    <3>2. /\ path' \in Seq(Frame) /\ Len(path') = Found(addr) - 1
          /\ DOMAIN path' = 1 .. Found(addr) - 1
          /\ \A i \in 1 .. Found(addr) - 1 : path'[i] = path[i]
      BY <3>1, Prefix DEF TypeOK
    <3>3. path' # <<>>
      BY <3>1, <3>2
    <3>4. \A i \in DOMAIN path' : path'[i].id \in DOMAIN cycles'
      BY <1>1, <3>1, <3>2 DEF TypeOK
    <3> QED BY <1>1, <2>2, <3>2, <3>3, <3>4 DEF ProfileTypes
  <2> QED BY <2>3, <2>4
<1> QED BY <1>2, <1>3

(* Whatever the profiler takes a jump for, the tree stays well formed.     *)
LEMMA JumpType ==
  ASSUME TypeOK, NEW addr \in Nat, NEW a0 \in Word0, NEW c \in Costs, Jump(addr, a0, c)
  PROVE  ProfileTypes'
  BY CallType, QuitType, FunsAssumption DEF Jump

(* Instructions that are no jumps only charge the current node.            *)
LEMMA ChargeType ==
  ASSUME TypeOK, NEW c \in Costs, cycles' = Charged(c), UNCHANGED <<path, sbrk_heap>>
  PROVE  ProfileTypes'
  BY ChargedType DEF TypeOK, ProfileTypes, Word0

(* The program's side of the types.                                        *)
ProgramTypes ==
  /\ status \in {"running", "exited", "error", "panicked"}
  /\ reset_signal \in BOOLEAN
  /\ pc \in Nat
  /\ act \in ActivationType
  /\ stack \in Seq(Entry_)
  /\ brk \in Word0
  /\ total \in Nat
  /\ faults \subseteq {"symbol", "entry", "jump", "sbrk"}

(* The two halves of the type invariant.                                   *)
LEMMA TypeSplit == TypeOK <=> ProfileTypes /\ ProgramTypes
  BY DEF TypeOK, ProfileTypes, ProgramTypes, Word0, ActivationType, Entry_

(* The last return address is well formed.                                 *)
LEMMA LastIsEntry ==
  ASSUME TypeOK, stack # <<>>
  PROVE  /\ Len(stack) \in Nat \ {0}
         /\ Last(stack) = stack[Len(stack)]
         /\ Last(stack) \in Entry_
         /\ Front(stack) \in Seq(Entry_)
         /\ Len(Front(stack)) = Len(stack) - 1
         /\ DOMAIN Front(stack) = 1 .. Len(stack) - 1
         /\ \A k \in 1 .. Len(stack) - 1 : Front(stack)[k] = stack[k]
<1>1. stack \in Seq(Entry_)
  BY TypeSplit DEF ProgramTypes
<1>2. Len(stack) \in Nat \ {0} /\ stack[Len(stack)] \in Entry_
  BY <1>1
<1>3. Len(stack) - 1 \in 0 .. Len(stack)
  BY <1>2
<1> QED BY <1>1, <1>2, <1>3, Prefix DEF Last, Front

(* Types are invariant.                                                    *)
LEMMA NextType == TypeOK /\ [Next]_vars => TypeOK'
<1> SUFFICES ASSUME TypeOK, [Next]_vars PROVE ProfileTypes' /\ ProgramTypes'
  BY TypeSplit DEF TypeOK, ProfileTypes, ProgramTypes, Word0, ActivationType, Entry_
<1>0. ProgramTypes
  BY TypeSplit
<1>1. Args \subseteq Word0 /\ Ends \subseteq Word0 /\ Addr \subseteq Nat /\ 0 \in Word0
  BY WordAssumption, AddrAssumption DEF Word0
<1>2. ASSUME NEW c \in Costs, NEW addr \in Addr, NEW a0 \in Args, Call(addr, a0, c)
      PROVE  ProfileTypes' /\ ProgramTypes'
  <2>1. ProfileTypes'
    BY <1>1, <1>2, JumpType DEF Call, Jumped
  <2>2. stack' \in Seq(Entry_)
    <3>1. [link |-> pc + 1, depth |-> Len(path), act |-> act] \in Entry_
      BY <1>0 DEF Entry_, ProgramTypes, TypeOK
    <3> QED BY <3>1, <1>0, <1>2, Appended DEF Call, ProgramTypes
  <2>3. act' \in ActivationType
    BY <1>1, <1>2 DEF Call, Activation, ActivationType
  <2> QED BY <1>0, <1>1, <1>2, <2>1, <2>2, <2>3, CostsAssumption
          DEF Call, Jumped, Stepping, ProgramTypes, If
<1>3. ASSUME NEW c \in Costs, NEW addr \in Addr, NEW a0 \in Args, TailCall(addr, a0, c)
      PROVE  ProfileTypes' /\ ProgramTypes'
  <2>1. ProfileTypes'
    BY <1>1, <1>3, JumpType DEF TailCall, Jumped
  <2>2. act' \in ActivationType
    BY <1>1, <1>3 DEF TailCall, Activation, ActivationType
  <2> QED BY <1>0, <1>1, <1>3, <2>1, <2>2, CostsAssumption
          DEF TailCall, Jumped, Stepping, ProgramTypes
<1>4. ASSUME NEW c \in Costs, NEW addr \in Addr \cup {0}, NEW a0 \in Args, LocalJump(addr, a0, c)
      PROVE  ProfileTypes' /\ ProgramTypes'
  <2>1. addr \in Nat
    BY <1>1
  <2>2. ProfileTypes'
    BY <1>1, <1>4, <2>1, JumpType DEF LocalJump, Jumped
  <2> QED BY <1>0, <1>4, <2>1, <2>2, CostsAssumption
          DEF LocalJump, Jumped, Stepping, ProgramTypes, If
<1>5. ASSUME NEW c \in Costs, NEW r \in 0 .. Word - 1, NEW failed \in BOOLEAN, Return(r, failed, c)
      PROVE  ProfileTypes' /\ ProgramTypes'
  <2>1. r \in Word0 /\ stack # <<>>
    BY <1>5 DEF Word0, Return
  <2>2. Last(stack).link \in Nat /\ Last(stack).act \in ActivationType
    BY <2>1, LastIsEntry DEF Entry_
  <2>3. ProfileTypes'
    BY <1>5, <2>1, <2>2, JumpType DEF Return, Jumped
  <2>4. brk' \in Word0
    <3>1. brk + act.a0 \in Nat
      BY <1>0, WordAssumption DEF ProgramTypes, ActivationType, Word0
    <3> QED BY <1>0, <1>5, <3>1, Wrapped DEF Return, ProgramTypes
  <2>5. stack' \in Seq(Entry_) /\ act' \in ActivationType
    BY <1>5, <2>1, <2>2, LastIsEntry DEF Return
  <2> QED BY <1>0, <1>5, <2>2, <2>3, <2>4, <2>5, CostsAssumption
          DEF Return, Jumped, Stepping, ProgramTypes, If
<1>6. ASSUME NEW c \in Costs, NEW addr \in Addr, Plain(addr, c)
      PROVE  ProfileTypes' /\ ProgramTypes'
  BY <1>0, <1>1, <1>6, ChargeType, CostsAssumption DEF Plain, Stepping, ProgramTypes
<1>7. ASSUME NEW c \in Costs, NEW end \in Ends, Exec(end, c)
      PROVE  ProfileTypes' /\ ProgramTypes'
  <2>1. act' \in ActivationType /\ stack' \in Seq(Entry_) /\ pc' \in Nat
    BY <1>1, <1>7, AddrAssumption DEF Exec, Activation, ActivationType
  <2> QED BY <1>0, <1>1, <1>7, <2>1, ChargeType, CostsAssumption DEF Exec, Stepping, ProgramTypes
<1>8. ASSUME NEW c \in Costs, Exit(c)
      PROVE  ProfileTypes' /\ ProgramTypes'
  BY <1>0, <1>8, ChargeType, CostsAssumption DEF Exit, Stepping, ProgramTypes, program
<1>9. ASSUME NEW c \in Costs, ExecuteFails(c)
      PROVE  ProfileTypes' /\ ProgramTypes'
  <2>1. ProfileTypes'
    BY <1>1, <1>9, ChargeType, JumpType DEF ExecuteFails
  <2> QED BY <1>0, <1>9, <2>1, CostsAssumption DEF ExecuteFails, Stepping, ProgramTypes, program
<1>10. ASSUME NewProfile PROVE ProfileTypes' /\ ProgramTypes'
  <2>1. Root \in Frame
    BY <1>1, AddrAssumption DEF Root, Frame, Word0
  <2>2. ProfileTypes'
    <3>1. path' = <<Root>> /\ cycles' = <<0>> /\ sbrk_heap' = brk
      BY <1>10 DEF NewProfile
    <3>2. path' \in Seq(Frame) /\ DOMAIN path' = {1} /\ path'[1] = Root /\ path' # <<>>
      BY <2>1, <3>1
    <3>3. cycles' \in Seq(Nat) /\ DOMAIN cycles' = {1}
      BY <3>1
    <3> QED BY <1>0, <3>1, <3>2, <3>3 DEF ProfileTypes, ProgramTypes, Root
  <2> QED BY <1>0, <1>10, <2>2 DEF NewProfile, ProgramTypes, program
<1>11. ASSUME Overlap \/ DecodeFails \/ Over \/ UNCHANGED vars
       PROVE  ProfileTypes' /\ ProgramTypes'
  BY <1>0, <1>11, TypeSplit
     DEF Overlap, DecodeFails, Over, vars, profile, program, ProfileTypes, ProgramTypes
<1> QED BY <1>2, <1>3, <1>4, <1>5, <1>6, <1>7, <1>8, <1>9, <1>10, <1>11 DEF Next

-----------------------------------------------------------------------------
(* A call keeps the agreement: one frame and one return address are added. *)
LEMMA CallAgrees ==
  ASSUME TypeOK, Agreement, NEW addr \in Addr, NEW a0 \in Word0, NEW c \in Costs,
         call(addr, a0, c), pc \in CallSites,
         act' = Activation(addr, a0),
         stack' = Append(stack, [link |-> pc + 1, depth |-> Len(path), act |-> act])
  PROVE  Agreement'
<1> DEFINE f == [addr |-> addr, link |-> pc + 1, a0 |-> a0, id |-> Len(cycles) + 1]
           e == [link |-> pc + 1, depth |-> Len(path), act |-> act]
           n == Len(path)
           m == Len(stack)
<1>0. f \in Frame /\ e \in Entry_ /\ stack \in Seq(Entry_) /\ pc \in Nat
  BY TypeSplit DEF Frame, TypeOK, Word0, Entry_, ProgramTypes
<1>1. /\ n \in Nat \ {0} /\ Len(path') = n + 1
      /\ \A i \in 1 .. n : path'[i] = path[i]
      /\ path'[n + 1] = f
  BY <1>0, Appended, CurrentIsFrame DEF call, TypeOK
<1>2. /\ m \in Nat /\ DOMAIN stack = 1 .. m /\ DOMAIN stack' = 1 .. m + 1
      /\ \A k \in 1 .. m : stack'[k] = stack[k] /\ stack[k] \in Entry_
      /\ stack'[m + 1] = e
  BY <1>0, Appended
<1>3. f.addr = addr /\ f.a0 = a0 /\ f.link = pc + 1 /\ e.link = pc + 1 /\ e.depth = n /\ e.act = act
  OBVIOUS
<1>4. path[n].addr = act.fn /\ path[n].a0 = act.a0
  BY DEF Agreement, Current
<1>5. \A k \in 1 .. m : Belongs(stack[k]) /\ stack[k].depth \in 1 .. n - 1
  BY <1>2 DEF Agreement, Belongs
<1> HIDE DEF f, e, n, m
<1>6. Current'.addr = act'.fn /\ Current'.a0 = act'.a0
  BY <1>1, <1>3 DEF Current, Activation, n
<1>7. \A k \in DOMAIN stack' : Belongs(stack[k])'
  <2> TAKE k \in DOMAIN stack'
  <2>1. CASE k \in 1 .. m
    <3>1. stack'[k] = stack[k] /\ Belongs(stack[k]) /\ stack[k].depth \in 1 .. n - 1
      BY <1>2, <1>5, <2>1
    <3>2. stack[k].depth \in 1 .. n /\ stack[k].depth + 1 \in 1 .. n
      BY <1>1, <3>1
    <3>3. path'[stack[k].depth] = path[stack[k].depth] /\ path'[stack[k].depth + 1] = path[stack[k].depth + 1]
      BY <1>1, <3>2
    <3> QED BY <1>1, <3>1, <3>2, <3>3 DEF Belongs
  <2>2. CASE k = m + 1
    <3>1. stack'[k] = e
      BY <1>2, <2>2
    <3>2. e.depth \in 1 .. Len(path') - 1 /\ path'[e.depth + 1] = f /\ path'[e.depth] = path[n]
      BY <1>1, <1>3
    <3>3. e.link - 1 \in CallSites
      BY <1>0, <1>3
    <3> QED BY <1>3, <1>4, <3>1, <3>2, <3>3 DEF Belongs
  <2> QED BY <1>2, <2>1, <2>2
<1>8. \A k, l \in DOMAIN stack' : k < l => stack'[k].depth < stack'[l].depth
  <2> TAKE k, l \in DOMAIN stack'
  <2> HAVE k < l
  <2>1. k \in 1 .. m /\ stack'[k] = stack[k] /\ stack[k].depth \in 1 .. n - 1
    BY <1>2, <1>5
  <2>2. CASE l \in 1 .. m
    BY <1>2, <2>1, <2>2 DEF Agreement
  <2>3. CASE l = m + 1
    BY <1>1, <1>2, <1>3, <2>1, <2>3
  <2> QED BY <1>2, <2>2, <2>3
<1>9. \A j \in 2 .. Len(path') :
        \/ \E k \in DOMAIN stack' : stack'[k].depth + 1 = j
        \/ path'[j].link - 1 \in Nat \ CallSites
  <2> TAKE j \in 2 .. Len(path')
  <2>1. CASE j \in 2 .. n
    <3>1. path'[j] = path[j]
      BY <1>1, <2>1
    <3>2. (\E k \in 1 .. m : stack[k].depth + 1 = j) \/ path[j].link - 1 \in Nat \ CallSites
      BY <1>2, <2>1 DEF Agreement, n
    <3>3. \A k \in 1 .. m : k \in DOMAIN stack' /\ stack'[k] = stack[k]
      BY <1>2
    <3> QED BY <3>1, <3>2, <3>3
  <2>2. CASE j = n + 1
    BY <1>1, <1>2, <1>3, <2>2
  <2> QED BY <1>1, <2>1, <2>2
<1> QED BY <1>6, <1>7, <1>8, <1>9 DEF Agreement

(* A tail call adds a frame that no return address belongs to.             *)
LEMMA TailCallAgrees ==
  ASSUME TypeOK, Agreement, NEW addr \in Addr, NEW a0 \in Word0, NEW c \in Costs,
         call(addr, a0, c), pc \notin CallSites,
         act' = Activation(addr, a0),
         UNCHANGED stack
  PROVE  Agreement'
<1> DEFINE f == [addr |-> addr, link |-> pc + 1, a0 |-> a0, id |-> Len(cycles) + 1]
           n == Len(path)
<1>0. f \in Frame /\ pc \in Nat
  BY DEF Frame, TypeOK, Word0
<1>1. /\ n \in Nat \ {0} /\ Len(path') = n + 1
      /\ \A i \in 1 .. n : path'[i] = path[i]
      /\ path'[n + 1] = f
  BY <1>0, Appended, CurrentIsFrame DEF call, TypeOK
<1>2. f.addr = addr /\ f.a0 = a0 /\ f.link = pc + 1
  OBVIOUS
<1>3. \A k \in DOMAIN stack : Belongs(stack[k]) /\ stack[k].depth \in 1 .. n - 1
  BY DEF Agreement, Belongs
<1> HIDE DEF f, n
<1>4. Current'.addr = act'.fn /\ Current'.a0 = act'.a0
  BY <1>1, <1>2 DEF Current, Activation, n
<1>5. \A k \in DOMAIN stack' : Belongs(stack[k])'
  <2> TAKE k \in DOMAIN stack'
  <2>1. stack'[k] = stack[k] /\ Belongs(stack[k]) /\ stack[k].depth \in 1 .. n - 1
    BY <1>3
  <2>2. path'[stack[k].depth] = path[stack[k].depth] /\ path'[stack[k].depth + 1] = path[stack[k].depth + 1]
    BY <1>1, <2>1
  <2> QED BY <1>1, <2>1, <2>2 DEF Belongs
<1>6. \A j \in 2 .. Len(path') :
        \/ \E k \in DOMAIN stack' : stack'[k].depth + 1 = j
        \/ path'[j].link - 1 \in Nat \ CallSites
  <2> TAKE j \in 2 .. Len(path')
  <2>1. CASE j \in 2 .. n
    <3>1. path'[j] = path[j]
      BY <1>1, <2>1
    <3> QED BY <2>1, <3>1 DEF Agreement, n
  <2>2. CASE j = n + 1
    BY <1>0, <1>1, <1>2, <2>2
  <2> QED BY <1>1, <2>1, <2>2
<1> QED BY <1>4, <1>5, <1>6 DEF Agreement

(* Return addresses sit on the path in the order of the stack ...          *)
LEMMA DepthsAscend ==
  ASSUME Agreement, NEW k \in DOMAIN stack, NEW l \in DOMAIN stack, k < l
  PROVE  stack[k].depth < stack[l].depth
  BY DEF Agreement

(* ... each inside the path.                                               *)
LEMMA DepthInPath ==
  ASSUME TypeOK, Agreement, NEW k \in DOMAIN stack
  PROVE  Belongs(stack[k]) /\ stack[k].depth \in 1 .. Len(path) - 1 /\ stack[k].depth \in Nat
<1>1. Belongs(stack[k])
  BY DEF Agreement
<1>2. stack[k].depth \in 1 .. Len(path) - 1
  BY <1>1 DEF Belongs
<1>3. Len(path) \in Nat
  BY DEF TypeOK
<1> QED BY <1>1, <1>2, <1>3

(* The walk from the current node stops at the frame of the innermost      *)
(* return address: the frames above it come from tail calls.               *)
LEMMA ReturnFound ==
  ASSUME TypeOK, Agreement, stack # <<>>
  PROVE  /\ Found(Last(stack).link) = Last(stack).depth + 1
         /\ Matches(Last(stack).link) # {}
<1> DEFINE top == Last(stack)
           M == Matches(top.link)
           n == Len(stack)
<1>1. n \in Nat \ {0} /\ top = stack[n] /\ DOMAIN stack = 1 .. n /\ top \in Entry_
  BY LastIsEntry DEF TypeOK
<1>2. Belongs(top)
  BY <1>1 DEF Agreement
<1>3. Len(path) \in Nat /\ DOMAIN path = 1 .. Len(path)
  BY DEF TypeOK
<1>4. top.depth \in 1 .. Len(path) - 1 /\ path[top.depth + 1].link = top.link /\ top.link - 1 \in CallSites
      /\ top.link \in Nat
  BY <1>1, <1>2 DEF Belongs, Entry_
<1>5. M \in SUBSET Nat /\ top.depth + 1 \in M
  BY <1>3, <1>4 DEF Matches
<1> HIDE DEF top, n, M
<1>6. \A k \in 1 .. n : stack[k].depth <= top.depth
  <2> TAKE k \in 1 .. n
  <2>1. CASE k = n
    BY <1>1, <1>4, <2>1
  <2>2. CASE k < n
    <3>1. k \in DOMAIN stack /\ n \in DOMAIN stack
      BY <1>1
    <3>2. stack[k].depth < stack[n].depth
      BY <2>2, <3>1, DepthsAscend
    <3>3. stack[k].depth \in Nat
      BY <3>1, DepthInPath
    <3> QED BY <1>1, <1>4, <3>2, <3>3
  <2> QED BY <1>1, <2>1, <2>2
<1>7. \A j \in M : j <= top.depth + 1
  <2> TAKE j \in M
  <2>0. j \in Nat /\ top.depth \in Nat
    BY <1>4, <1>5
  <2> SUFFICES ASSUME j > top.depth + 1 PROVE FALSE
    BY <2>0
  <2>1. j \in 2 .. Len(path) /\ path[j].link = top.link
    BY <1>3, <1>4 DEF Matches, M
  <2>2. PICK k \in 1 .. n : stack[k].depth + 1 = j
    BY <1>1, <1>4, <2>1 DEF Agreement
  <2>3. stack[k].depth \in Nat
    BY <1>1, DepthInPath
  <2> QED BY <1>4, <1>6, <2>2, <2>3
<1> QED BY <1>5, <1>7, MaxIs DEF Found, M, top

(* A return keeps the agreement.                                           *)
LEMMA ReturnAgrees ==
  ASSUME TypeOK, Agreement, stack # <<>>,
         path' = SubSeq(path, 1, Last(stack).depth),
         act' = Last(stack).act,
         stack' = Front(stack)
  PROVE  Agreement'
<1> DEFINE top == Last(stack)
           n == Len(stack)
           d == top.depth
<1>1. n \in Nat \ {0} /\ top = stack[n] /\ DOMAIN stack = 1 .. n /\ DOMAIN stack' = 1 .. n - 1
      /\ \A k \in 1 .. n - 1 : stack'[k] = stack[k]
  BY LastIsEntry DEF TypeOK
<1>2. Belongs(top)
  BY <1>1 DEF Agreement
<1>3. d \in 1 .. Len(path) - 1 /\ Len(path) \in Nat
  BY <1>2 DEF Belongs, TypeOK
<1>4. Len(path') = d /\ \A i \in 1 .. d : path'[i] = path[i]
  <2>1. path \in Seq(Frame) /\ d \in 0 .. Len(path)
    BY <1>3 DEF TypeOK
  <2> QED BY <2>1, Prefix
<1> HIDE DEF top, n, d
<1>5. \A k \in 1 .. n - 1 : Belongs(stack[k]) /\ stack[k].depth \in 1 .. d - 1
  <2> TAKE k \in 1 .. n - 1
  <2>1. k \in DOMAIN stack /\ n \in DOMAIN stack /\ k < n
    BY <1>1
  <2>2. stack[k].depth < stack[n].depth
    BY <2>1, DepthsAscend
  <2>3. Belongs(stack[k]) /\ stack[k].depth \in 1 .. Len(path) - 1
    BY <2>1, DepthInPath
  <2> QED BY <1>1, <1>3, <2>2, <2>3 DEF d
<1>6. Current'.addr = act'.fn /\ Current'.a0 = act'.a0
  BY <1>2, <1>3, <1>4 DEF Current, Belongs, d, top
<1>7. \A k \in DOMAIN stack' : Belongs(stack[k])'
  <2> TAKE k \in DOMAIN stack'
  <2>1. stack'[k] = stack[k] /\ Belongs(stack[k]) /\ stack[k].depth \in 1 .. d - 1
    BY <1>1, <1>5
  <2>2. stack[k].depth \in 1 .. d /\ stack[k].depth + 1 \in 1 .. d
    BY <1>3, <2>1
  <2>3. path'[stack[k].depth] = path[stack[k].depth] /\ path'[stack[k].depth + 1] = path[stack[k].depth + 1]
    BY <1>4, <2>2
  <2> QED BY <1>3, <1>4, <2>1, <2>2, <2>3 DEF Belongs
<1>8. \A k, l \in DOMAIN stack' : k < l => stack'[k].depth < stack'[l].depth
  <2> TAKE k, l \in DOMAIN stack'
  <2>1. stack'[k] = stack[k] /\ stack'[l] = stack[l] /\ k \in DOMAIN stack /\ l \in DOMAIN stack
    BY <1>1
  <2> QED BY <2>1 DEF Agreement
<1>9. \A j \in 2 .. Len(path') :
        \/ \E k \in DOMAIN stack' : stack'[k].depth + 1 = j
        \/ path'[j].link - 1 \in Nat \ CallSites
  <2> TAKE j \in 2 .. Len(path')
  <2>0. j \in 2 .. d
    BY <1>4
  <2>1. j \in 2 .. Len(path) /\ j \in 1 .. d /\ j <= d /\ path'[j] = path[j]
    <3>1. j \in Int /\ 2 <= j /\ j <= d /\ d \in Int /\ Len(path) \in Int /\ d < Len(path)
      BY <1>3, <2>0
    <3>2. j \in 2 .. Len(path) /\ j \in 1 .. d
      BY <3>1
    <3> QED BY <1>4, <3>1, <3>2
  <2>2. CASE path[j].link - 1 \in Nat \ CallSites
    BY <2>1, <2>2
  <2>3. ASSUME NEW k \in 1 .. n, stack[k].depth + 1 = j
        PROVE  \E l \in DOMAIN stack' : stack'[l].depth + 1 = j
    <3>1. k # n
      BY <1>1, <1>3, <2>1, <2>3 DEF d
    <3>2. k \in 1 .. n - 1
      BY <1>1, <3>1
    <3> QED BY <1>1, <2>3, <3>2
  <2> QED BY <1>1, <2>1, <2>2, <2>3 DEF Agreement
<1> QED BY <1>6, <1>7, <1>8, <1>9 DEF Agreement

-----------------------------------------------------------------------------
(* The invariant holds before the first instruction.                       *)
LEMMA InitInv == Init => IInv
<1> SUFFICES ASSUME Init PROVE IInv
  OBVIOUS
<1>1. 0 \in Word0 /\ brk \in Word0
  BY WordAssumption DEF Word0, Init
<1>2. Root \in Frame /\ path = <<Root>> /\ cycles = <<0>>
  BY <1>1, AddrAssumption DEF Root, Frame, Word0, Init
<1>3. /\ path \in Seq(Frame) /\ DOMAIN path = {1} /\ path[1] = Root /\ path # <<>> /\ Len(path) = 1
      /\ cycles \in Seq(Nat) /\ DOMAIN cycles = {1}
  BY <1>2
<1>4. ProfileTypes
  BY <1>1, <1>3 DEF ProfileTypes, Init, Root
<1>5. ProgramTypes
  <2>1. act \in ActivationType /\ stack \in Seq(Entry_) /\ pc \in Nat
    BY <1>1, AddrAssumption DEF Init, Activation, ActivationType
  <2> QED BY <1>1, <2>1 DEF ProgramTypes, Init
<1>6. Agreement
  <2>1. Current = Root
    BY <1>3 DEF Current
  <2>2. stack = <<>> /\ DOMAIN stack = {}
    BY DEF Init
  <2> QED BY <1>3, <2>1, <2>2 DEF Agreement, Root, Activation, Init
<1> QED BY <1>4, <1>5, <1>6, TypeSplit
        DEF IInv, Agrees, ResetIsFresh, ChargesTheRunningFunction, HeapIsBreak, Init, Agreement

(* A jump that the profiler takes for a return of a disciplined program,   *)
(* and the heap it computes from it.                                       *)
LEMMA ReturnStep ==
  ASSUME IInv, NEW r \in Word0, NEW failed \in BOOLEAN, NEW c \in Costs,
         Return(r, failed, c), Disciplined'
  PROVE  /\ Agreement'
         /\ status' = "running"
         /\ faults' = {} => sbrk_heap' = brk'
<1>1. /\ status = "running" /\ ~reset_signal /\ stack # <<>> /\ TypeOK /\ Disciplined
      /\ Last(stack).link \notin Funs
  BY DEF Return, Stepping, IInv, Disciplined, If
<1>2. Agreement
  BY <1>1 DEF IInv, Agrees, Following
<1>3. /\ Matches(Last(stack).link) # {} /\ Found(Last(stack).link) = Last(stack).depth + 1
      /\ Last(stack).depth \in Nat \ {0}
  <2>1. Last(stack) = stack[Len(stack)] /\ Len(stack) \in DOMAIN stack
    BY <1>1, LastIsEntry DEF TypeOK
  <2>2. Last(stack).depth \in Nat \ {0}
    BY <1>2, <2>1 DEF Agreement, Belongs
  <2> QED BY <1>1, <1>2, <2>2, ReturnFound
<1>4. quit_or_skip(Last(stack).link, r, c)
  BY <1>1 DEF Return, Jumped, Jump
<1>5. path' = SubSeq(path, 1, Last(stack).depth)
  BY <1>3, <1>4 DEF quit_or_skip
<1>6. Agreement'
  BY <1>1, <1>2, <1>5, ReturnAgrees DEF Return
<1>7. status' = "running"
  BY <1>1, <1>3 DEF Return, Jumped, Panics
<1>8. ASSUME faults' = {} PROVE sbrk_heap' = brk'
  <2>1. ~failed /\ faults = {}
    BY <1>8 DEF Return, If
  <2>2. sbrk_heap = brk
    BY <1>1, <2>1 DEF IInv, HeapIsBreak
  <2>3. Current.addr = act.fn /\ Current.a0 = act.a0
    BY <1>2 DEF Agreement
  <2>4. CASE act.fn = Sbrk
    <3>1. r = brk /\ brk' = (brk + act.a0) % Word
      BY <2>1, <2>4 DEF Return
    <3>2. sbrk_heap' = (act.a0 + r) % Word
      BY <1>3, <1>4, <2>3, <2>4 DEF quit_or_skip, NewHeap
    <3>3. brk \in Nat /\ act.a0 \in Nat
      BY <1>1, TypeSplit, WordAssumption DEF ProgramTypes, ActivationType, Word0
    <3>4. act.a0 + r = brk + act.a0
      BY <3>1, <3>3
    <3> QED BY <3>1, <3>2, <3>4
  <2>5. CASE act.fn # Sbrk
    BY <1>3, <1>4, <2>1, <2>2, <2>3, <2>5 DEF quit_or_skip, Return
  <2> QED BY <2>4, <2>5
<1> QED BY <1>6, <1>7, <1>8

(* The invariant is inductive.                                             *)
LEMMA NextInv == IInv /\ [Next]_vars => IInv'
<1> SUFFICES ASSUME IInv, [Next]_vars PROVE IInv'
  OBVIOUS
<1>0. TypeOK /\ TypeOK'
  BY NextType DEF IInv
<1>1. Args \subseteq Word0
  BY WordAssumption DEF Word0
<1> USE DEF Agrees, Following, ResetIsFresh, ChargesTheRunningFunction, HeapIsBreak
<1>2. ASSUME NEW c \in Costs, NEW addr \in Addr, NEW a0 \in Args, Call(addr, a0, c)
      PROVE  IInv'
  <2>1. CASE addr \notin Funs
    <3>1. ~Disciplined' /\ ~reset_signal' /\ faults' # {}
      BY <1>2, <2>1 DEF Call, Jumped, Stepping, If, Disciplined
    <3> QED BY <1>0, <3>1 DEF IInv
  <2>2. CASE addr \in Funs
    <3>1. call(addr, a0, c) /\ status' = "running" /\ status = "running" /\ ~reset_signal'
          /\ ~reset_signal /\ faults' = faults
      BY <1>2, <2>2 DEF Call, Jumped, Jump, Panics, Stepping, If
    <3>2. Disciplined => Agreement'
      BY <1>0, <1>1, <1>2, <3>1, CallAgrees DEF IInv, Call
    <3>3. UNCHANGED <<sbrk_heap, brk>>
      BY <1>2, <3>1 DEF Call, call
    <3> QED BY <1>0, <3>1, <3>2, <3>3 DEF IInv, Disciplined, Agreement
  <2> QED BY <2>1, <2>2
<1>3. ASSUME NEW c \in Costs, NEW addr \in Addr, NEW a0 \in Args, TailCall(addr, a0, c)
      PROVE  IInv'
  <2>1. call(addr, a0, c) /\ status' = "running" /\ status = "running" /\ ~reset_signal'
        /\ ~reset_signal /\ faults' = faults
    BY <1>3 DEF TailCall, Jumped, Jump, Panics, Stepping
  <2>2. Disciplined => Agreement'
    BY <1>0, <1>1, <1>3, <2>1, TailCallAgrees DEF IInv, TailCall
  <2>3. UNCHANGED <<sbrk_heap, brk>>
    BY <1>3, <2>1 DEF TailCall, call
  <2> QED BY <1>0, <2>1, <2>2, <2>3 DEF IInv, Disciplined, Agreement
<1>4. ASSUME NEW c \in Costs, NEW addr \in Addr \cup {0}, NEW a0 \in Args, LocalJump(addr, a0, c)
      PROVE  IInv'
  <2>1. CASE Matches(addr) # {}
    <3>1. ~Disciplined' /\ ~reset_signal' /\ faults' # {}
      BY <1>4, <2>1 DEF LocalJump, Jumped, Stepping, If, Disciplined
    <3> QED BY <1>0, <3>1 DEF IInv
  <2>2. CASE Matches(addr) = {}
    <3>1. UNCHANGED <<path, sbrk_heap, status, reset_signal, act, stack, brk, faults>>
      BY <1>4, <2>2 DEF LocalJump, Jumped, Jump, Panics, quit_or_skip, If
    <3> QED BY <1>0, <3>1 DEF IInv, Disciplined, Agreement, Belongs, Current
  <2> QED BY <2>1, <2>2
<1>5. ASSUME NEW c \in Costs, NEW r \in 0 .. Word - 1, NEW failed \in BOOLEAN, Return(r, failed, c)
      PROVE  IInv'
  <2>1. ~reset_signal'
    BY <1>5 DEF Return, Jumped, Stepping
  <2>2. CASE ~Disciplined'
    <3>1. faults' # {}
      BY <2>2 DEF Disciplined
    <3> QED BY <1>0, <2>1, <2>2, <3>1 DEF IInv
  <2>3. CASE Disciplined'
    BY <1>0, <1>5, <2>1, <2>3, ReturnStep DEF IInv, Word0, Agreement
  <2> QED BY <2>2, <2>3
<1>6. ASSUME NEW c \in Costs, NEW addr \in Addr, Plain(addr, c)
      PROVE  IInv'
  BY <1>0, <1>6 DEF IInv, Plain, Disciplined, Agreement, Belongs, Current
<1>7. ASSUME NEW c \in Costs, NEW end \in Ends, Exec(end, c)
      PROVE  IInv'
  BY <1>0, <1>7 DEF IInv, Exec
<1>8. ASSUME NEW c \in Costs, Exit(c) \/ ExecuteFails(c)
      PROVE  IInv'
  <2>1. status' \in {"exited", "error"} /\ ~reset_signal'
    BY <1>8 DEF Exit, ExecuteFails, Stepping
  <2> QED BY <1>0, <2>1 DEF IInv
<1>9. ASSUME NewProfile PROVE IInv'
  <2>1. act = Activation(Entry, 0) /\ stack = <<>> /\ UNCHANGED <<act, stack, status, brk, faults>>
        /\ status = "running" /\ path' = <<Root>> /\ sbrk_heap' = brk
    BY <1>9 DEF IInv, NewProfile, program
  <2>2. path'[Len(path')] = Root /\ Len(path') = 1
    BY <2>1
  <2>3. Agreement'
    BY <2>1, <2>2 DEF Agreement, Current, Root, Activation
  <2> QED BY <1>0, <1>9, <2>1, <2>3 DEF IInv, NewProfile, Agreement
<1>10. ASSUME Overlap \/ DecodeFails PROVE IInv'
  <2>1. status' = "error" /\ ~reset_signal'
    BY <1>10 DEF Overlap, DecodeFails
  <2> QED BY <1>0, <2>1 DEF IInv
<1>11. ASSUME Over \/ UNCHANGED vars PROVE IInv'
  BY <1>0, <1>11
     DEF IInv, Over, vars, profile, program, Disciplined, Agreement, Belongs, Current
<1> QED BY <1>2, <1>3, <1>4, <1>5, <1>6, <1>7, <1>8, <1>9, <1>10, <1>11 DEF Next

(* So it always holds.                                                     *)
LEMMA InvHolds == Spec => []IInv
  BY InitInv, NextInv, PTL DEF Spec

(* The tree of calls stays well formed, whatever the program does.         *)
THEOREM TreeIsWellFormed == Spec => []TypeOK
<1>1. IInv => TypeOK
  BY DEF IInv
<1> QED BY <1>1, InvHolds, PTL

(* However deep its recursion and however its tail calls nest, every       *)
(* instruction of a disciplined program is charged to the function that    *)
(* executes it, and the walk up the path never reaches the root.           *)
THEOREM RunningFunctionIsCharged == Spec => []ChargesTheRunningFunction
<1>1. IInv => ChargesTheRunningFunction
  BY DEF IInv
<1> QED BY <1>1, InvHolds, PTL

(* The profiler knows where the heap ends as long as _sbrk does not fail.  *)
THEOREM HeapIsAlwaysBreak == Spec => []HeapIsBreak
<1>1. IInv => HeapIsBreak
  BY DEF IInv
<1> QED BY <1>1, InvHolds, PTL

-----------------------------------------------------------------------------
(* Sums of sequences of any length.  The library's induction theorems      *)
(* quantify over operators; these arguments use the least element of a set *)
(* of indices instead.                                                     *)

(* Induction over the indices of a sequence: a set of indices that holds 0 *)
(* and with every index the next one holds them all.                       *)
LEMMA IndexInduction ==
  ASSUME NEW n \in Nat, NEW P, 0 \in P, \A i \in 1 .. n : i - 1 \in P => i \in P
  PROVE  \A i \in 0 .. n : i \in P
<1> DEFINE T == {i \in 0 .. n : i \notin P}
           R == {ss \in Nat \X Nat : ss[1] < ss[2]}
<1> SUFFICES ASSUME T # {} PROVE FALSE
  OBVIOUS
<1>1. IsWellFoundedOn(R, Nat)
  BY NatLessThanWellFounded, Zenon DEF OpToRel
<1>2. T \in SUBSET Nat
  OBVIOUS
<1>3. PICK x \in T : \A y \in T : ~(<<y, x>> \in R)
  <2> HIDE DEF T, R
  <2> QED BY <1>1, <1>2, WFMin, Zenon
<1>4. x \in 1 .. n /\ x - 1 \in 0 .. n
  OBVIOUS
<1>5. x - 1 \notin T
  <2>1. <<x - 1, x>> \in R
    BY <1>4
  <2> QED BY <1>3, <2>1
<1> QED BY <1>4, <1>5

(* Partial sums: what a sequence p of numbers must satisfy to be them.     *)
Adds(p, s, n) ==
  /\ p \in [0 .. n -> Nat]
  /\ p[0] = 0
  /\ \A i \in 1 .. n : p[i] = p[i - 1] + s[i]

(* There are partial sums.                                                 *)
LEMMA PartialSumsExist ==
  ASSUME NEW s \in Seq(Nat)
  PROVE  \E p : Adds(p, s, Len(s))
<1> DEFINE P == {n \in 0 .. Len(s) : \E p : Adds(p, s, n)}
<1>1. 0 \in P
  <2>1. Adds([i \in 0 .. 0 |-> 0], s, 0)
    BY DEF Adds
  <2> QED BY <2>1
<1>2. ASSUME NEW n \in 1 .. Len(s), n - 1 \in P PROVE n \in P
  <2>1. PICK p : Adds(p, s, n - 1)
    BY <1>2
  <2> DEFINE q == [i \in 0 .. n |-> IF i < n THEN p[i] ELSE p[n - 1] + s[n]]
  <2>2. s[n] \in Nat /\ p[n - 1] \in Nat
    BY <2>1 DEF Adds
  <2>3. q \in [0 .. n -> Nat] /\ q[0] = 0
    BY <2>1, <2>2 DEF Adds
  <2>4. ASSUME NEW i \in 1 .. n PROVE q[i] = q[i - 1] + s[i]
    <3>1. CASE i < n
      <4>1. i \in 1 .. n - 1 /\ q[i] = p[i] /\ q[i - 1] = p[i - 1]
        BY <3>1
      <4> QED BY <2>1, <4>1 DEF Adds
    <3>2. CASE i = n
      <4>1. q[n] = p[n - 1] + s[n] /\ q[n - 1] = p[n - 1]
        OBVIOUS
      <4> QED BY <3>2, <4>1
    <3> QED BY <3>1, <3>2
  <2>5. Adds(q, s, n)
    BY <2>3, <2>4 DEF Adds
  <2> QED BY <2>5
<1>3. Len(s) \in P
  <2>1. Len(s) \in Nat
    OBVIOUS
  <2> HIDE DEF P
  <2>2. \A i \in 0 .. Len(s) : i \in P
    BY <1>1, <1>2, <2>1, IndexInduction
  <2> QED BY <2>1, <2>2
<1> QED BY <1>3

(* So PartialSums has the values its definition says.                      *)
LEMMA PartialSumsAre ==
  ASSUME NEW s \in Seq(Nat)
  PROVE  Adds(PartialSums(s), s, Len(s))
<1> DEFINE n == Len(s)
           Step(p) == [i \in 0 .. n |-> IF i = 0 THEN 0 ELSE p[i - 1] + s[i]]
           ps == PartialSums(s)
<1>1. \E p : p = Step(p)
  <2>1. PICK p : Adds(p, s, n)
    BY PartialSumsExist
  <2>2. DOMAIN p = 0 .. n /\ p = [i \in 0 .. n |-> p[i]]
    BY <2>1 DEF Adds
  <2>3. ASSUME NEW i \in 0 .. n PROVE p[i] = Step(p)[i]
    <3>1. CASE i = 0
      BY <2>1, <3>1 DEF Adds
    <3>2. CASE i # 0
      <4>1. i \in 1 .. n
        BY <3>2
      <4> QED BY <2>1, <3>2, <4>1 DEF Adds
    <3> QED BY <3>1, <3>2
  <2>4. p = Step(p)
    BY <2>2, <2>3
  <2> QED BY <2>4
<1>2. ps = Step(ps)
  BY <1>1 DEF PartialSums
<1>3. ps[0] = 0 /\ \A i \in 1 .. n : ps[i] = ps[i - 1] + s[i]
  <2> HIDE DEF ps
  <2>1. n \in Nat
    OBVIOUS
  <2>2. ps[0] = 0
    BY <1>2, <2>1
  <2>3. ASSUME NEW i \in 1 .. n PROVE ps[i] = ps[i - 1] + s[i]
    <3>1. i \in 0 .. n /\ i # 0
      BY <2>1
    <3>2. ps[i] = Step(ps)[i]
      BY <1>2
    <3> QED BY <3>1, <3>2
  <2> QED BY <2>2, <2>3
<1>4. \A i \in 0 .. n : ps[i] \in Nat
  <2> DEFINE P == {i \in 0 .. n : ps[i] \in Nat}
  <2> HIDE DEF ps
  <2>1. n \in Nat /\ 0 \in P
    BY <1>3
  <2>2. ASSUME NEW i \in 1 .. n, i - 1 \in P PROVE i \in P
    <3>1. s[i] \in Nat /\ ps[i - 1] \in Nat
      BY <2>2
    <3> QED BY <1>3, <3>1
  <2> HIDE DEF P
  <2>3. \A i \in 0 .. n : i \in P
    BY <2>1, <2>2, IndexInduction
  <2> QED BY <2>3 DEF P
<1>5. ps \in [0 .. n -> Nat]
  <2>1. DOMAIN ps = 0 .. n /\ ps = [i \in 0 .. n |-> ps[i]]
    <3> HIDE DEF ps
    <3> QED BY <1>2
  <2> HIDE DEF ps
  <2> QED BY <1>4, <2>1
<1> QED BY <1>3, <1>5 DEF Adds

(* Whatever adds up like the partial sums ends in the sum.                 *)
LEMMA SumIs ==
  ASSUME NEW s \in Seq(Nat), NEW p, Adds(p, s, Len(s))
  PROVE  Sum(s) = p[Len(s)]
<1> DEFINE ps == PartialSums(s)
           P == {i \in 0 .. Len(s) : ps[i] = p[i]}
<1>1. Adds(ps, s, Len(s))
  BY PartialSumsAre
<1> HIDE DEF ps
<1>2. Len(s) \in Nat /\ 0 \in P
  BY <1>1 DEF Adds
<1>3. ASSUME NEW i \in 1 .. Len(s), i - 1 \in P PROVE i \in P
  BY <1>1, <1>3 DEF Adds
<1> HIDE DEF P
<1>4. \A i \in 0 .. Len(s) : i \in P
  BY <1>2, <1>3, IndexInduction
<1>5. Len(s) \in P
  BY <1>2, <1>4
<1> QED BY <1>5 DEF P, Sum, ps

(* The sum of numbers is a number.                                         *)
LEMMA SumType ==
  ASSUME NEW s \in Seq(Nat)
  PROVE  Sum(s) \in Nat
  BY PartialSumsAre DEF Sum, Adds

(* Nothing adds up to nothing.                                             *)
LEMMA SumEmpty == Sum(<<>>) = 0
<1>1. <<>> \in Seq(Nat) /\ Len(<<>>) = 0
  OBVIOUS
<1>2. Adds(PartialSums(<<>>), <<>>, 0)
  BY <1>1, PartialSumsAre
<1> QED BY <1>1, <1>2 DEF Sum, Adds

(* One number more.                                                        *)
LEMMA SumAppend ==
  ASSUME NEW s \in Seq(Nat), NEW x \in Nat
  PROVE  Sum(Append(s, x)) = Sum(s) + x
<1> DEFINE ps == PartialSums(s)
           t == Append(s, x)
           n == Len(s)
           p == [i \in 0 .. n + 1 |-> IF i <= n THEN ps[i] ELSE ps[n] + x]
<1>1. Adds(ps, s, n) /\ n \in Nat
  BY PartialSumsAre
<1>2. t \in Seq(Nat) /\ Len(t) = n + 1 /\ t[n + 1] = x /\ \A i \in 1 .. n : t[i] = s[i]
  OBVIOUS
<1>3. Sum(s) = ps[n]
  BY DEF Sum
<1> HIDE DEF ps, t
<1>4. p \in [0 .. n + 1 -> Nat] /\ p[0] = 0
  BY <1>1 DEF Adds
<1>5. ASSUME NEW i \in 1 .. n + 1 PROVE p[i] = p[i - 1] + t[i]
  <2>1. CASE i <= n
    <3>1. i \in 1 .. n /\ p[i] = ps[i] /\ p[i - 1] = ps[i - 1] /\ t[i] = s[i]
      BY <1>1, <1>2, <2>1
    <3> QED BY <1>1, <3>1 DEF Adds
  <2>2. CASE i = n + 1
    BY <1>1, <1>2, <2>2
  <2> QED BY <1>1, <2>1, <2>2
<1>6. Adds(p, t, Len(t))
  BY <1>2, <1>4, <1>5 DEF Adds
<1>7. p[n + 1] = ps[n] + x
  BY <1>1
<1> HIDE DEF p
<1>8. Sum(t) = p[n + 1]
  BY <1>2, <1>6, SumIs
<1> QED BY <1>3, <1>7, <1>8 DEF t

(* One number raised.                                                      *)
LEMMA SumRaised ==
  ASSUME NEW s \in Seq(Nat), NEW k \in 1 .. Len(s), NEW c \in Nat
  PROVE  Sum([s EXCEPT ![k] = @ + c]) = Sum(s) + c
<1> DEFINE ps == PartialSums(s)
           t == [s EXCEPT ![k] = @ + c]
           n == Len(s)
           p == [i \in 0 .. n |-> IF i < k THEN ps[i] ELSE ps[i] + c]
<1>1. Adds(ps, s, n) /\ n \in Nat
  BY PartialSumsAre
<1>2. t \in Seq(Nat) /\ Len(t) = n /\ t[k] = s[k] + c /\ \A i \in 1 .. n : i # k => t[i] = s[i]
  OBVIOUS
<1>3. Sum(s) = ps[n] /\ \A i \in 1 .. n : s[i] \in Nat
  BY DEF Sum
<1> HIDE DEF ps, t
<1>4. p \in [0 .. n -> Nat] /\ p[0] = 0
  BY <1>1 DEF Adds
<1>5. ASSUME NEW i \in 1 .. n PROVE p[i] = p[i - 1] + t[i]
  <2>0. ps[i] = ps[i - 1] + s[i] /\ ps[i] \in Nat /\ ps[i - 1] \in Nat /\ s[i] \in Nat
    <3>1. i - 1 \in 0 .. n /\ i \in 0 .. n
      BY <1>1
    <3> QED BY <1>1, <1>3, <3>1 DEF Adds
  <2>1. CASE i < k
    BY <1>2, <2>0, <2>1
  <2>2. CASE i = k
    <3>1. p[i] = ps[i] + c /\ p[i - 1] = ps[i - 1] /\ t[i] = s[i] + c
      BY <1>1, <1>2, <2>2
    <3> QED BY <2>0, <3>1
  <2>3. CASE i > k
    <3>1. p[i] = ps[i] + c /\ p[i - 1] = ps[i - 1] + c /\ t[i] = s[i]
      BY <1>1, <1>2, <2>3
    <3> QED BY <2>0, <3>1
  <2> QED BY <2>1, <2>2, <2>3
<1>6. Adds(p, t, Len(t))
  BY <1>2, <1>4, <1>5 DEF Adds
<1>7. p[n] = ps[n] + c
  BY <1>1
<1> HIDE DEF p
<1>8. Sum(t) = p[n]
  BY <1>2, <1>6, SumIs
<1> QED BY <1>3, <1>7, <1>8 DEF t

-----------------------------------------------------------------------------
(* An instruction charged to the current node raises the sum by its cost.  *)
LEMMA ChargedSum ==
  ASSUME TypeOK, NEW c \in Costs
  PROVE  /\ Sum(Charged(c)) = Sum(cycles) + c
         /\ Sum(Append(Charged(c), 0)) = Sum(cycles) + c
<1>1. cycles \in Seq(Nat) /\ Current.id \in 1 .. Len(cycles) /\ c \in Nat
  BY CurrentIsFrame, CostsAssumption DEF TypeOK, Current
<1>2. Sum(Charged(c)) = Sum(cycles) + c
  BY <1>1, SumRaised DEF Charged
<1>3. Sum(cycles) \in Nat
  BY <1>1, SumType
<1>4. Sum(Append(Charged(c), 0)) = Sum(Charged(c)) + 0
  BY ChargedType, SumAppend
<1> QED BY <1>1, <1>2, <1>3, <1>4

(* Whatever a jump is taken for, its cost is charged once.                 *)
LEMMA JumpSum ==
  ASSUME TypeOK, NEW addr, NEW a0, NEW c \in Costs, Jump(addr, a0, c)
  PROVE  Sum(cycles') = Sum(cycles) + c
  BY ChargedSum DEF Jump, call, quit_or_skip

(* A new tree has no cycles.                                               *)
LEMMA SumOfNewTree == Sum(<<0>>) = 0
<1>1. <<0>> = Append(<<>>, 0) /\ <<>> \in Seq(Nat)
  OBVIOUS
<1>2. Sum(Append(<<>>, 0)) = Sum(<<>>) + 0
  BY <1>1, SumAppend
<1> QED BY <1>1, <1>2, SumEmpty

(* Every step of the program charges what it costs, and no other step      *)
(* touches the tree before exec replaces it.                               *)
LEMMA NextConserves == TypeOK /\ CyclesConserved /\ [Next]_vars => CyclesConserved'
<1> SUFFICES ASSUME TypeOK, CyclesConserved, [Next]_vars, ~reset_signal'
             PROVE  Sum(cycles') = total'
  BY DEF CyclesConserved
<1>1. ASSUME NEW c \in Costs, Stepping(c), Sum(cycles') = Sum(cycles) + c
      PROVE  Sum(cycles') = total'
  BY <1>1 DEF Stepping, CyclesConserved
<1>2. ASSUME NEW c \in Costs, NEW addr \in Addr, NEW a0 \in Args,
             Call(addr, a0, c) \/ TailCall(addr, a0, c)
      PROVE  Sum(cycles') = total'
  BY <1>1, <1>2, JumpSum DEF Call, TailCall, Jumped
<1>3. ASSUME NEW c \in Costs, NEW addr \in Addr \cup {0}, NEW a0 \in Args, LocalJump(addr, a0, c)
      PROVE  Sum(cycles') = total'
  BY <1>1, <1>3, JumpSum DEF LocalJump, Jumped
<1>4. ASSUME NEW c \in Costs, NEW r \in 0 .. Word - 1, NEW failed \in BOOLEAN, Return(r, failed, c)
      PROVE  Sum(cycles') = total'
  BY <1>1, <1>4, JumpSum DEF Return, Jumped
<1>5. ASSUME NEW c \in Costs, (\E addr \in Addr : Plain(addr, c)) \/ Exit(c)
      PROVE  Sum(cycles') = total'
  BY <1>1, <1>5, ChargedSum DEF Plain, Exit
<1>6. ASSUME NEW c \in Costs, ExecuteFails(c)
      PROVE  Sum(cycles') = total'
  BY <1>1, <1>6, ChargedSum, JumpSum DEF ExecuteFails
<1>7. ASSUME NEW c \in Costs, NEW end \in Ends, Exec(end, c)
      PROVE  Sum(cycles') = total'
  BY <1>7 DEF Exec
<1>8. ASSUME NewProfile PROVE Sum(cycles') = total'
  BY <1>8, SumOfNewTree DEF NewProfile
<1>9. ASSUME Overlap \/ DecodeFails \/ Over \/ UNCHANGED vars
      PROVE  Sum(cycles') = total'
  BY <1>9 DEF Overlap, DecodeFails, Over, vars, profile, CyclesConserved
<1> QED BY <1>2, <1>3, <1>4, <1>5, <1>6, <1>7, <1>8, <1>9 DEF Next

(* Through calls, returns over several frames and a new program, the nodes *)
(* of the tree add up to the instructions executed, however large it is.   *)
THEOREM NoCycleIsLost == Spec => []CyclesConserved
<1>1. Init => CyclesConserved
  BY SumOfNewTree DEF Init, CyclesConserved
<1> QED BY <1>1, NextConserves, TreeIsWellFormed, PTL DEF Spec
=============================================================================
