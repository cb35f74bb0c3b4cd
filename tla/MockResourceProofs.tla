------------------------- MODULE MockResourceProofs --------------------------
(***************************************************************************)
(* What check accepts can be loaded, what has been loaded can be resolved, *)
(* and scripts see the cells of the file: proofs about MockResource for    *)
(* files of any size.                                                      *)
(***************************************************************************)
EXTENDS MockResource, FiniteSetTheorems, WellFoundedInduction, TLAPS

(* What the loops have left behind them, as long as nothing has failed.    *)
DoneInputs == {i \in DOMAIN tx.inputs :
                 \/ phase = "inputs" /\ i < next
                 \/ phase \in {"deps", "headers", "resolve", "ready"}}
DoneDeps == {i \in DOMAIN tx.deps :
               \/ phase = "deps" /\ i < next
               \/ phase \in {"headers", "resolve", "ready"}}
DoneHeaders == {i \in DOMAIN tx.headers :
                  \/ phase = "headers" /\ i < next
                  \/ phase \in {"resolve", "ready"}}

(* The verdict of check stays what it was: the file does not change.       *)
WarningIsKept ==
  /\ phase = "check" => next = 1
  /\ phase # "check" => (warned <=> ~Checks)

DataOf(o) == Found(get_dep_cell(o)).data

InputsLoaded == \A i \in DoneInputs : tx.inputs[i].previous_output \in DOMAIN required_cells

(* A dependency overwrites a cell only with what any other would write.    *)
DepsLoaded ==
  \A i \in DoneDeps :
    /\ Loadable(tx.deps[i])
    /\ \A o \in DOMAIN CellsOf(tx.deps[i]) :
         o \in DOMAIN required_cells /\ required_cells[o] = DataOf(o)

HeadersLoaded == \A i \in DoneHeaders : tx.headers[i] \in DOMAIN required_headers

OfTheFile == \A o \in DOMAIN required_cells : [out_point |-> o, data |-> required_cells[o]] \in Cells

NoDep(o) == \A m \in Range(tx.mock_deps) : m.cell_dep.out_point # o

OfTheInput(input) ==
  \E m \in Range(tx.mock_inputs) :
    m.input = input /\ m.data = required_cells[input.previous_output]

(* Cells of inputs are overwritten only by dependencies.                   *)
InputsKept ==
  SpentOnce => \A i \in DoneInputs :
                 NoDep(tx.inputs[i].previous_output) => OfTheInput(tx.inputs[i])

ReadyIsSpentOnce == phase = "ready" => SpentOnce

IInv ==
  /\ TypeOK
  /\ WarningIsKept
  /\ InputsLoaded /\ DepsLoaded /\ HeadersLoaded
  /\ OfTheFile /\ InputsKept /\ ReadyIsSpentOnce
  /\ CheckedIsReady

-----------------------------------------------------------------------------
(* A list that has an entry of some kind has a first one.                  *)
LEMMA FirstPlace ==
  ASSUME NEW n \in Nat, NEW I \in SUBSET (1 .. n), I # {}
  PROVE  \E i \in I : \A j \in 1 .. i - 1 : j \notin I
<1> DEFINE R == {ss \in Nat \X Nat : ss[1] < ss[2]}
<1>1. IsWellFoundedOn(R, Nat)
  BY NatLessThanWellFounded, Zenon DEF OpToRel
<1>2. I \in SUBSET Nat
  OBVIOUS
<1>3. PICK i \in I : \A j \in I : ~(<<j, i>> \in R)
  <2> HIDE DEF R
  <2> QED BY <1>1, <1>2, WFMin, Zenon
<1>4. ASSUME NEW j \in 1 .. i - 1 PROVE j \notin I
  <2>1. <<j, i>> \in R
    BY <1>2
  <2> QED BY <1>3, <2>1
<1> QED BY <1>4

(* What is on a list.                                                      *)
LEMMA Listed ==
  ASSUME NEW S, NEW s \in Seq(S), NEW x \in Range(s)
  PROVE  x \in S
  BY DEF Range

(* The lists of a file.                                                    *)
LEMMA Lists ==
  ASSUME tx \in Transaction
  PROVE  /\ tx.inputs \in Seq(CellInput)
         /\ tx.mock_inputs \in Seq([input : CellInput, data : Data])
         /\ tx.deps \in Seq(CellDep)
         /\ tx.mock_deps \in Seq([cell_dep : CellDep, data : Data])
         /\ tx.headers \in Seq(Hash)
         /\ tx.mock_headers \in Seq([hash : Hash, block : Hash])
  BY DEF Transaction

(* An entry for an out point is found if there is one ...                  *)
LEMMA DepFound ==
  ASSUME tx \in Transaction, NEW m \in Range(tx.mock_deps)
  PROVE  get_dep_cell(m.cell_dep.out_point) # {}
<1> DEFINE s == tx.mock_deps
           o == m.cell_dep.out_point
           I == {i \in 1 .. Len(s) : s[i].cell_dep.out_point = o}
<1>1. Len(s) \in Nat /\ DOMAIN s = 1 .. Len(s)
  BY Lists
<1>2. I # {}
  BY <1>1 DEF Range
<1>3. PICK i \in I : \A j \in 1 .. i - 1 : j \notin I
  BY <1>1, <1>2, FirstPlace
<1>4. \A j \in 1 .. i - 1 : s[j].cell_dep.out_point # o
  BY <1>1, <1>3
<1>5. s[i] \in get_dep_cell(o)
  BY <1>1, <1>3, <1>4 DEF get_dep_cell, First
<1> QED BY <1>5

(* ... and only then.                                                      *)
LEMMA DepFoundIs ==
  ASSUME tx \in Transaction, NEW o, get_dep_cell(o) # {}
  PROVE  /\ Found(get_dep_cell(o)) \in Range(tx.mock_deps)
         /\ Found(get_dep_cell(o)).cell_dep.out_point = o
         /\ o \in OutPoint /\ DataOf(o) \in Data
         /\ [out_point |-> o, data |-> DataOf(o)] \in Cells
<1> DEFINE m == Found(get_dep_cell(o))
<1>1. m \in get_dep_cell(o)
  BY DEF Found
<1> HIDE DEF m
<1>2. m \in Range(tx.mock_deps) /\ m.cell_dep.out_point = o
  <2>1. PICK i \in DOMAIN tx.mock_deps : tx.mock_deps[i] = m /\ m.cell_dep.out_point = o
    BY <1>1 DEF get_dep_cell, First
  <2> QED BY <2>1 DEF Range
<1>3. m \in [cell_dep : CellDep, data : Data]
  BY <1>2, Lists, Listed
<1>4. m.cell_dep \in CellDep /\ m.data \in Data
  BY <1>3
<1>5. o \in OutPoint
  BY <1>2, <1>4 DEF CellDep
<1>6. [out_point |-> o, data |-> m.data] \in Cells
  BY <1>2 DEF Cells
<1> QED BY <1>2, <1>4, <1>5, <1>6 DEF m, DataOf

(* The same for inputs ...                                                 *)
LEMMA InputFound ==
  ASSUME tx \in Transaction, NEW k \in DOMAIN tx.mock_inputs
  PROVE  get_input_cell(tx.mock_inputs[k].input) # {}
<1> DEFINE s == tx.mock_inputs
           input == s[k].input
           I == {i \in 1 .. Len(s) : s[i].input = input}
<1>1. Len(s) \in Nat /\ DOMAIN s = 1 .. Len(s)
  BY Lists
<1>2. I # {}
  BY <1>1
<1>3. PICK i \in I : \A j \in 1 .. i - 1 : j \notin I
  BY <1>1, <1>2, FirstPlace
<1>4. \A j \in 1 .. i - 1 : s[j].input # input
  BY <1>1, <1>3
<1>5. s[i] \in get_input_cell(input)
  BY <1>1, <1>3, <1>4 DEF get_input_cell, First
<1> QED BY <1>5

(* What is found for an input is an entry for it.                          *)
LEMMA InputFoundIs ==
  ASSUME tx \in Transaction, NEW input, NEW m \in get_input_cell(input)
  PROVE  /\ m \in Range(tx.mock_inputs) /\ m.input = input
         /\ input.previous_output \in OutPoint /\ m.data \in Data
         /\ [out_point |-> input.previous_output, data |-> m.data] \in Cells
<1>1. m \in Range(tx.mock_inputs) /\ m.input = input
  <2>1. PICK i \in DOMAIN tx.mock_inputs : tx.mock_inputs[i] = m /\ m.input = input
    BY DEF get_input_cell, First
  <2> QED BY <2>1 DEF Range
<1>2. m \in [input : CellInput, data : Data]
  BY <1>1, Lists, Listed
<1>3. m.input \in CellInput /\ m.data \in Data
  BY <1>2
<1>4. input.previous_output \in OutPoint
  BY <1>1, <1>3 DEF CellInput
<1>5. [out_point |-> input.previous_output, data |-> m.data] \in Cells
  BY <1>1 DEF Cells
<1> QED BY <1>1, <1>3, <1>4, <1>5

(* ... and headers.                                                        *)
LEMMA HeaderFound ==
  ASSUME tx \in Transaction, NEW m \in Range(tx.mock_headers)
  PROVE  get_header(m.hash) # {}
<1> DEFINE s == tx.mock_headers
           I == {i \in 1 .. Len(s) : s[i].hash = m.hash}
<1>1. Len(s) \in Nat /\ DOMAIN s = 1 .. Len(s)
  BY Lists
<1>2. I # {}
  BY <1>1 DEF Range
<1>3. PICK i \in I : \A j \in 1 .. i - 1 : j \notin I
  BY <1>1, <1>2, FirstPlace
<1>4. \A j \in 1 .. i - 1 : s[j].hash # m.hash
  BY <1>1, <1>3
<1>5. s[i] \in get_header(m.hash)
  BY <1>1, <1>3, <1>4 DEF get_header, First, HeaderHash
<1> QED BY <1>5

(* What is found for a hash is a header.                                   *)
LEMMA HeaderFoundIs ==
  ASSUME tx \in Transaction, NEW hash, NEW m \in get_header(hash)
  PROVE  hash \in Hash /\ m.block \in Hash
<1>1. m \in Range(tx.mock_headers) /\ m.hash = hash
  <2>1. PICK i \in DOMAIN tx.mock_headers : tx.mock_headers[i] = m /\ m.hash = hash
    BY DEF get_header, First, HeaderHash
  <2> QED BY <2>1 DEF Range
<1>2. m \in [hash : Hash, block : Hash]
  BY <1>1, Lists, Listed
<1> QED BY <1>1, <1>2

-----------------------------------------------------------------------------
(* Counting: what is counted at least once is on the list.                 *)
LEMMA Counts ==
  ASSUME NEW n \in Nat, NEW s, DOMAIN s = 1 .. n, NEW x
  PROVE  Count(s, x) \in Nat /\ (Count(s, x) # 0 <=> \E i \in DOMAIN s : s[i] = x)
<1> DEFINE I == {i \in DOMAIN s : s[i] = x}
<1>1. IsFiniteSet(1 .. n)
  BY FS_Interval
<1>2. IsFiniteSet(I)
  BY <1>1, FS_Subset
<1>3. Cardinality(I) \in Nat /\ (Cardinality(I) = 0 <=> I = {})
  BY <1>2, FS_CardinalityType, FS_EmptySet
<1> QED BY <1>3 DEF Count

(* If every group of the file is one, members can be counted.              *)
LEMMA MembersCount ==
  ASSUME tx \in Transaction, GroupsParse, NEW dep
  PROVE  IsFiniteSet(UNION {MemberPlaces(i, dep) : i \in Groups})
<1> DEFINE T == {MemberPlaces(i, dep) : i \in Groups}
           f == [i \in Groups |-> MemberPlaces(i, dep)]
<1>1. IsFiniteSet(Groups)
  <2>1. Len(tx.mock_deps) \in Nat /\ DOMAIN tx.mock_deps = 1 .. Len(tx.mock_deps)
    BY Lists
  <2>2. IsFiniteSet(1 .. Len(tx.mock_deps)) /\ Groups \in SUBSET (1 .. Len(tx.mock_deps))
    BY <2>1, FS_Interval DEF Groups
  <2> QED BY <2>2, FS_Subset
<1>2. IsFiniteSet(T)
  <2>1. f \in Surjection(Groups, T)
    BY DEF Surjection
  <2> HIDE DEF f, T
  <2> QED BY <1>1, <2>1, FS_Surjection
<1>3. ASSUME NEW i \in Groups PROVE IsFiniteSet(MemberPlaces(i, dep))
  <2> DEFINE d == tx.mock_deps[i].data
  <2>1. tx.mock_deps[i] \in [cell_dep : CellDep, data : Data]
    <3>1. tx.mock_deps[i] \in Range(tx.mock_deps)
      BY DEF Groups, Range
    <3> QED BY <3>1, Lists, Listed
  <2>2. d \in Seq(OutPoint)
    BY <2>1 DEF GroupsParse, IsGroup, Data
  <2>3. IsFiniteSet(1 .. Len(d)) /\ DOMAIN d = 1 .. Len(d)
    BY <2>2, FS_Interval
  <2>4. IsFiniteSet({i})
    BY FS_Singleton
  <2>5. IsFiniteSet({i} \X (1 .. Len(d)))
    BY <2>3, <2>4, FS_Product
  <2>6. MemberPlaces(i, dep) \in SUBSET ({i} \X (1 .. Len(d)))
    BY <2>3 DEF MemberPlaces
  <2> QED BY <2>5, <2>6, FS_Subset
<1>4. \A S \in T : IsFiniteSet(S)
  BY <1>3
<1> HIDE DEF T
<1>5. IsFiniteSet(UNION T)
  BY <1>2, <1>4, FS_UNION
<1> QED BY <1>5 DEF T

(* A file that passes check has an entry for every dependency ...          *)
LEMMA NeededIsGiven ==
  ASSUME tx \in Transaction, GroupsParse, SameDeps, NEW dep \in CellDep,
         \/ dep \in Range(tx.deps)
         \/ \E i \in Groups : MemberPlaces(i, dep) # {}
  PROVE  \E m \in Range(tx.mock_deps) : m.cell_dep = dep
<1> DEFINE mock == [i \in DOMAIN tx.mock_deps |-> tx.mock_deps[i].cell_dep]
           places == UNION {MemberPlaces(i, dep) : i \in Groups}
           n == Len(tx.mock_deps)
<1>1. n \in Nat /\ DOMAIN tx.mock_deps = 1 .. n /\ DOMAIN mock = 1 .. n
  BY Lists
<1>2. IsFiniteSet(places)
  BY MembersCount
<1>3. Cardinality(places) \in Nat /\ (Cardinality(places) = 0 <=> places = {})
  <2> HIDE DEF places
  <2> QED BY <1>2, FS_CardinalityType, FS_EmptySet
<1>4. Len(tx.deps) \in Nat /\ DOMAIN tx.deps = 1 .. Len(tx.deps)
  BY Lists
<1>5. /\ Count(tx.deps, dep) \in Nat
      /\ dep \in Range(tx.deps) => Count(tx.deps, dep) # 0
  BY <1>4, Counts DEF Range
<1>6. (\E i \in Groups : MemberPlaces(i, dep) # {}) => places # {}
  OBVIOUS
<1>7. Needed(dep) # 0
  BY <1>3, <1>5, <1>6 DEF Needed
<1>8. Count(mock, dep) # 0
  BY <1>7 DEF SameDeps
<1>9. PICK i \in DOMAIN mock : mock[i] = dep
  BY <1>1, <1>8, Counts
<1> QED BY <1>9 DEF Range

(* ... and for every member of every group.                                *)
LEMMA MemberIsGiven ==
  ASSUME tx \in Transaction, GroupsParse, SameDeps,
         NEW m \in Range(tx.mock_deps), m.cell_dep.dep_type = "dep_group",
         NEW o \in Range(m.data)
  PROVE  \E k \in Range(tx.mock_deps) : k.cell_dep.out_point = o
<1>1. PICK i \in DOMAIN tx.mock_deps : tx.mock_deps[i] = m
  BY DEF Range
<1>2. m \in [cell_dep : CellDep, data : Data] /\ IsGroup(m.data)
  <2>1. m \in [cell_dep : CellDep, data : Data]
    BY Lists, Listed
  <2> QED BY <1>1, <2>1 DEF GroupsParse, Groups
<1>3. m.data \in Seq(OutPoint)
  BY <1>2 DEF IsGroup, Data
<1>4. PICK j \in DOMAIN m.data : m.data[j] = o
  BY DEF Range
<1>5. Code(o) \in CellDep
  BY <1>3, <1>4 DEF Code, CellDep
<1>6. i \in Groups /\ MemberPlaces(i, Code(o)) # {}
  BY <1>1, <1>4 DEF Groups, MemberPlaces
<1>7. PICK k \in Range(tx.mock_deps) : k.cell_dep = Code(o)
  BY <1>5, <1>6, NeededIsGiven
<1> QED BY <1>7 DEF Code

(* So every dependency of such a file can be loaded, if cells have one     *)
(* content.                                                                *)
LEMMA CheckedIsLoadable ==
  ASSUME tx \in Transaction, Checks, OneContent, NEW i \in DOMAIN tx.deps
  PROVE  Loadable(tx.deps[i])
<1> DEFINE dep == tx.deps[i]
           o == dep.out_point
           f == Found(get_dep_cell(o))
<1>0. GroupsParse /\ SameDeps
  BY DEF Checks
<1>1. dep \in CellDep /\ dep \in Range(tx.deps)
  BY Lists DEF Range
<1>2. PICK m \in Range(tx.mock_deps) : m.cell_dep = dep
  BY <1>0, <1>1, NeededIsGiven
<1>3. get_dep_cell(o) # {}
  BY <1>2, DepFound
<1>4. f \in Range(tx.mock_deps) /\ f.cell_dep.out_point = o
  BY <1>3, DepFoundIs
<1>5. f.data = m.data
  <2>1. [out_point |-> o, data |-> f.data] \in Cells /\ [out_point |-> o, data |-> m.data] \in Cells
    BY <1>2, <1>4 DEF Cells
  <2> QED BY <2>1 DEF OneContent
<1>6. ASSUME dep.dep_type = "dep_group"
      PROVE  m.data \notin {Opaque, Empty} /\ \A p \in Range(m.data) : get_dep_cell(p) # {}
  <2>1. IsGroup(m.data)
    BY <1>0, <1>2, <1>6 DEF GroupsParse, Groups, Range
  <2>2. ASSUME NEW p \in Range(m.data) PROVE get_dep_cell(p) # {}
    <3>1. PICK k \in Range(tx.mock_deps) : k.cell_dep.out_point = p
      BY <1>0, <1>2, <1>6, MemberIsGiven
    <3> QED BY <3>1, DepFound
  <2> QED BY <2>1, <2>2 DEF IsGroup
<1> QED BY <1>3, <1>5, <1>6 DEF Loadable

-----------------------------------------------------------------------------
(* What depends on the file alone does not change.                         *)
LEMMA FileIsKept ==
  ASSUME tx' = tx
  PROVE  /\ Cells' = Cells
         /\ (Checks <=> Checks') /\ (OneContent <=> OneContent')
         /\ (SpentOnce <=> SpentOnce') /\ (HeadersGiven <=> HeadersGiven')
<1>1. Cells' = Cells
  BY DEF Cells
<1>2. OneContent <=> OneContent'
  BY <1>1 DEF OneContent
<1>3. (SpentOnce <=> SpentOnce') /\ (HeadersGiven <=> HeadersGiven')
  BY DEF SpentOnce, HeadersGiven
<1>4. Checks <=> Checks'
  BY DEF Checks, GroupsParse, SameDeps, SameInputs, Needed, Groups, MemberPlaces, Count, IsGroup
<1> QED BY <1>1, <1>2, <1>3, <1>4

(* Nor does what is found for an out point ...                             *)
LEMMA LookupIsKept ==
  ASSUME tx' = tx, NEW o
  PROVE  DataOf(o)' = DataOf(o) /\ (NoDep(o)' <=> NoDep(o))
  BY DEF DataOf, Found, get_dep_cell, First, NoDep

(* ... or what a dependency needs.                                         *)
LEMMA LoadingIsKept ==
  ASSUME tx' = tx, NEW dep
  PROVE  (Loadable(dep)' <=> Loadable(dep)) /\ CellsOf(dep)' = CellsOf(dep)
  BY DEF Loadable, CellsOf, Found, get_dep_cell, First

-----------------------------------------------------------------------------
(* The cells of a dependency that can be loaded are those of its entries.  *)
LEMMA CellsOfIs ==
  ASSUME tx \in Transaction, NEW dep \in CellDep, Loadable(dep)
  PROVE  /\ dep.out_point \in DOMAIN CellsOf(dep)
         /\ dep.dep_type = "dep_group" =>
              Range(DataOf(dep.out_point)) \subseteq DOMAIN CellsOf(dep)
         /\ \A o \in DOMAIN CellsOf(dep) :
              get_dep_cell(o) # {} /\ CellsOf(dep)[o] = DataOf(o)
  BY DEF CellsOf, Loadable, DataOf

(* The next input.                                                         *)
LEMMA LoadInputStep ==
  ASSUME IInv, LoadInput
  PROVE  IInv'
<1>0. /\ tx \in Transaction /\ tx' = tx /\ next \in Nat \ {0} /\ next <= Len(tx.inputs)
      /\ phase = "inputs" /\ phase' = "inputs" /\ next' = next + 1
      /\ UNCHANGED <<warned, required_headers>>
  BY DEF IInv, TypeOK, LoadInput
<1> DEFINE input == tx.inputs[next]
           o == input.previous_output
<1>1. PICK m \in get_input_cell(input) :
        required_cells' = Inserted(required_cells, [k \in {m.input.previous_output} |-> m.data])
  BY DEF LoadInput
<1>2. /\ m \in Range(tx.mock_inputs) /\ m.input = input /\ o \in OutPoint /\ m.data \in Data
      /\ [out_point |-> o, data |-> m.data] \in Cells
  BY <1>0, <1>1, InputFoundIs
<1>3. /\ DOMAIN required_cells' = DOMAIN required_cells \cup {o}
      /\ required_cells'[o] = m.data
      /\ \A k \in DOMAIN required_cells \ {o} : required_cells'[k] = required_cells[k]
  <2> DEFINE new == [k \in {o} |-> m.data]
  <2>1. DOMAIN new = {o} /\ new[o] = m.data /\ required_cells' = Inserted(required_cells, new)
    BY <1>1, <1>2
  <2> HIDE DEF new
  <2>2. /\ DOMAIN required_cells' = DOMAIN required_cells \cup DOMAIN new
        /\ \A k \in DOMAIN new : required_cells'[k] = new[k]
        /\ \A k \in DOMAIN required_cells \ DOMAIN new : required_cells'[k] = required_cells[k]
    BY <2>1 DEF Inserted
  <2> QED BY <2>1, <2>2
<1>4. DOMAIN tx.inputs = 1 .. Len(tx.inputs) /\ Len(tx.inputs) \in Nat
  BY <1>0, Lists
<1>5. \A i \in DoneInputs' : i \in DoneInputs \/ i = next
  BY <1>0, <1>4 DEF DoneInputs
<1>6. TypeOK'
  BY <1>0, <1>2, <1>3 DEF IInv, TypeOK
<1>7. WarningIsKept' /\ ReadyIsSpentOnce' /\ CheckedIsReady'
  BY <1>0, FileIsKept DEF IInv, WarningIsKept, ReadyIsSpentOnce, CheckedIsReady
<1>8. InputsLoaded'
  BY <1>0, <1>3, <1>5 DEF IInv, InputsLoaded
<1>9. DepsLoaded' /\ HeadersLoaded'
  BY <1>0 DEF DepsLoaded, HeadersLoaded, DoneDeps, DoneHeaders
<1>10. OfTheFile'
  BY <1>0, <1>2, <1>3, FileIsKept DEF IInv, OfTheFile
<1>11. InputsKept'
  <2> SUFFICES ASSUME SpentOnce, NEW i \in DoneInputs', NoDep(tx.inputs[i].previous_output)
               PROVE  OfTheInput(tx.inputs[i])'
    <3>1. \A i \in DoneInputs' : NoDep(tx.inputs[i].previous_output)' = NoDep(tx.inputs[i].previous_output)
      BY <1>0 DEF NoDep
    <3> QED BY <1>0, <3>1, FileIsKept DEF InputsKept
  <2>1. CASE i = next
    BY <1>0, <1>2, <1>3, <2>1 DEF OfTheInput
  <2>2. CASE i \in DoneInputs /\ i # next
    <3>1. tx.inputs[i].previous_output # o /\ tx.inputs[i].previous_output \in DOMAIN required_cells
      BY <1>0, <1>4, <2>2 DEF SpentOnce, IInv, InputsLoaded, DoneInputs
    <3>2. OfTheInput(tx.inputs[i])
      BY <2>2 DEF IInv, InputsKept
    <3> QED BY <1>0, <1>3, <3>1, <3>2 DEF OfTheInput
  <2> QED BY <1>5, <2>1, <2>2
<1> QED BY <1>6, <1>7, <1>8, <1>9, <1>10, <1>11 DEF IInv

(* The next dependency.                                                    *)
LEMMA LoadDepStep ==
  ASSUME IInv, LoadDep
  PROVE  IInv'
<1>0. /\ tx \in Transaction /\ tx' = tx /\ next \in Nat \ {0} /\ next <= Len(tx.deps)
      /\ phase = "deps" /\ phase' = "deps" /\ next' = next + 1
      /\ UNCHANGED <<warned, required_headers>>
  BY DEF IInv, TypeOK, LoadDep
<1> DEFINE dep == tx.deps[next]
           new == CellsOf(dep)
<1>1. Loadable(dep) /\ required_cells' = Inserted(required_cells, new)
  BY DEF LoadDep
<1>2. DOMAIN tx.deps = 1 .. Len(tx.deps) /\ Len(tx.deps) \in Nat /\ dep \in CellDep
  BY <1>0, Lists
<1>3. \A o \in DOMAIN new : get_dep_cell(o) # {} /\ new[o] = DataOf(o)
  BY <1>0, <1>1, <1>2, CellsOfIs
<1> HIDE DEF new
<1>4. /\ DOMAIN required_cells' = DOMAIN required_cells \cup DOMAIN new
      /\ \A o \in DOMAIN new : required_cells'[o] = DataOf(o)
      /\ \A o \in DOMAIN required_cells \ DOMAIN new : required_cells'[o] = required_cells[o]
  <2>1. /\ DOMAIN required_cells' = DOMAIN required_cells \cup DOMAIN new
        /\ \A o \in DOMAIN new : required_cells'[o] = new[o]
        /\ \A o \in DOMAIN required_cells \ DOMAIN new : required_cells'[o] = required_cells[o]
    BY <1>1 DEF Inserted
  <2> QED BY <1>3, <2>1
<1>5. \A o \in DOMAIN new : /\ o \in OutPoint /\ DataOf(o) \in Data
                            /\ [out_point |-> o, data |-> DataOf(o)] \in Cells
                            /\ ~NoDep(o)
  BY <1>0, <1>3, DepFoundIs DEF NoDep
<1>6. \A i \in DoneDeps' : i \in DoneDeps \/ i = next
  BY <1>0, <1>2 DEF DoneDeps
<1>7. TypeOK'
  <2>1. DOMAIN required_cells' \subseteq OutPoint
    BY <1>4, <1>5 DEF IInv, TypeOK
  <2>2. ASSUME NEW o \in DOMAIN required_cells' PROVE required_cells'[o] \in Data
    BY <1>4, <1>5 DEF IInv, TypeOK
  <2> QED BY <1>0, <2>1, <2>2 DEF IInv, TypeOK
<1>8. WarningIsKept' /\ ReadyIsSpentOnce' /\ CheckedIsReady'
  BY <1>0, FileIsKept DEF IInv, WarningIsKept, ReadyIsSpentOnce, CheckedIsReady
<1>9. InputsLoaded'
  BY <1>0, <1>4 DEF IInv, InputsLoaded, DoneInputs
<1>10. DepsLoaded'
  <2> SUFFICES ASSUME NEW i \in DoneDeps'
               PROVE  /\ Loadable(tx.deps[i])
                      /\ \A o \in DOMAIN CellsOf(tx.deps[i]) :
                           o \in DOMAIN required_cells' /\ required_cells'[o] = DataOf(o)
    <3>1. \A d : (Loadable(d)' <=> Loadable(d)) /\ CellsOf(d)' = CellsOf(d)
      BY <1>0, LoadingIsKept
    <3>2. \A o : DataOf(o)' = DataOf(o)
      BY <1>0, LookupIsKept
    <3> QED BY <1>0, <3>1, <3>2 DEF DepsLoaded
  <2>1. CASE i = next
    BY <1>1, <1>4, <2>1 DEF new
  <2>2. CASE i \in DoneDeps
    BY <1>4, <2>2 DEF IInv, DepsLoaded
  <2> QED BY <1>6, <2>1, <2>2
<1>11. HeadersLoaded'
  BY <1>0 DEF HeadersLoaded, DoneHeaders
<1>12. OfTheFile'
  <2>1. ASSUME NEW o \in DOMAIN required_cells'
        PROVE  [out_point |-> o, data |-> required_cells'[o]] \in Cells
    BY <1>4, <1>5 DEF IInv, OfTheFile
  <2> QED BY <1>0, <2>1, FileIsKept DEF OfTheFile
<1>13. InputsKept'
  <2> SUFFICES ASSUME SpentOnce, NEW i \in DoneInputs, NoDep(tx.inputs[i].previous_output)
               PROVE  OfTheInput(tx.inputs[i])'
    <3>1. \A i \in DoneInputs' : NoDep(tx.inputs[i].previous_output)' = NoDep(tx.inputs[i].previous_output)
      BY <1>0 DEF NoDep
    <3>2. DoneInputs' = DoneInputs
      BY <1>0 DEF DoneInputs
    <3> QED BY <1>0, <3>1, <3>2, FileIsKept DEF InputsKept
  <2>1. OfTheInput(tx.inputs[i]) /\ tx.inputs[i].previous_output \in DOMAIN required_cells \ DOMAIN new
    BY <1>5 DEF IInv, InputsKept, InputsLoaded
  <2> QED BY <1>0, <1>4, <2>1 DEF OfTheInput
<1> QED BY <1>7, <1>8, <1>9, <1>10, <1>11, <1>12, <1>13 DEF IInv

(* The part of the invariant that is about cells, after a step.            *)
CellsKept == InputsLoaded' /\ DepsLoaded' /\ OfTheFile' /\ InputsKept'

(* A step that loads no cell keeps it.                                     *)
LEMMA CellsStay ==
  ASSUME InputsLoaded, DepsLoaded, OfTheFile, InputsKept,
         tx' = tx, required_cells' = required_cells,
         DoneInputs' \subseteq DoneInputs, DoneDeps' \subseteq DoneDeps
  PROVE  CellsKept
<1>1. InputsLoaded'
  BY DEF InputsLoaded
<1>2. DepsLoaded'
  <2>1. \A d : (Loadable(d)' <=> Loadable(d)) /\ CellsOf(d)' = CellsOf(d)
    BY LoadingIsKept
  <2>2. \A o : DataOf(o)' = DataOf(o)
    BY LookupIsKept
  <2> QED BY <2>1, <2>2 DEF DepsLoaded
<1>3. OfTheFile'
  BY FileIsKept DEF OfTheFile
<1>4. InputsKept'
  BY FileIsKept DEF InputsKept, NoDep, OfTheInput
<1> QED BY <1>1, <1>2, <1>3, <1>4 DEF CellsKept

(* The next header.                                                        *)
LEMMA LoadHeaderStep ==
  ASSUME IInv, LoadHeader
  PROVE  IInv'
<1>0. /\ tx \in Transaction /\ tx' = tx /\ next \in Nat \ {0} /\ next <= Len(tx.headers)
      /\ phase = "headers" /\ phase' = "headers" /\ next' = next + 1
      /\ UNCHANGED <<warned, required_cells>>
  BY DEF IInv, TypeOK, LoadHeader
<1> DEFINE h == tx.headers[next]
<1>1. PICK m \in get_header(h) :
        required_headers' = Inserted(required_headers, [k \in {h} |-> m.block])
  BY DEF LoadHeader
<1>2. h \in Hash /\ m.block \in Hash
  BY <1>0, <1>1, HeaderFoundIs
<1>3. /\ required_headers' \in [DOMAIN required_headers' -> Hash]
      /\ DOMAIN required_headers' = DOMAIN required_headers \cup {h}
  <2>1. required_headers \in [DOMAIN required_headers -> Hash]
    BY DEF IInv, TypeOK
  <2> DEFINE new == [k \in {h} |-> m.block]
  <2>2. DOMAIN new = {h} /\ new[h] = m.block
    OBVIOUS
  <2> HIDE DEF new
  <2> QED BY <1>1, <1>2, <2>1, <2>2 DEF Inserted, new
<1>4. DOMAIN tx.headers = 1 .. Len(tx.headers) /\ Len(tx.headers) \in Nat
  BY <1>0, Lists
<1>5. TypeOK'
  BY <1>0, <1>2, <1>3 DEF IInv, TypeOK
<1>6. WarningIsKept' /\ ReadyIsSpentOnce' /\ CheckedIsReady'
  BY <1>0, FileIsKept DEF IInv, WarningIsKept, ReadyIsSpentOnce, CheckedIsReady
<1>7. DoneInputs' = DoneInputs /\ DoneDeps' = DoneDeps
  BY <1>0 DEF DoneInputs, DoneDeps
<1>8. CellsKept
  BY <1>0, <1>7, CellsStay DEF IInv
<1>9. HeadersLoaded'
  <2>1. \A i \in DoneHeaders' : i \in DoneHeaders \/ i = next
    BY <1>0, <1>4 DEF DoneHeaders
  <2> QED BY <1>0, <1>3, <2>1 DEF IInv, HeadersLoaded
<1> QED BY <1>5, <1>6, <1>8, <1>9 DEF IInv, CellsKept

(* A step that fails, if it does so only for files check has warned about. *)
LEMMA FailStep ==
  ASSUME IInv, phase # "check", Fail,
         Checks /\ OneContent /\ SpentOnce /\ HeadersGiven => FALSE
  PROVE  IInv'
<1>0. /\ tx' = tx /\ phase' = "error" /\ tx \in Transaction
      /\ UNCHANGED <<warned, next, required_cells, required_headers>>
  BY DEF IInv, TypeOK, Fail
<1>1. TypeOK' /\ ReadyIsSpentOnce'
  BY <1>0 DEF IInv, TypeOK, ReadyIsSpentOnce
<1>2. WarningIsKept' /\ CheckedIsReady'
  BY <1>0, FileIsKept DEF IInv, WarningIsKept, CheckedIsReady
<1>3. DoneInputs' = {} /\ DoneDeps' = {} /\ DoneHeaders' = {}
  BY <1>0 DEF DoneInputs, DoneDeps, DoneHeaders
<1>4. CellsKept /\ HeadersLoaded'
  BY <1>0, <1>3, CellsStay DEF IInv, HeadersLoaded
<1> QED BY <1>1, <1>2, <1>4 DEF IInv, CellsKept

(* The three loops fail for no other files.                                *)
LEMMA LoopsFail ==
  ASSUME IInv, InputFails \/ DepFails \/ HeaderFails
  PROVE  IInv'
<1>0. tx \in Transaction /\ next \in Nat \ {0} /\ phase # "check" /\ Fail
  BY DEF IInv, TypeOK, InputFails, DepFails, HeaderFails
<1>1. ASSUME Checks, OneContent, SpentOnce, HeadersGiven PROVE FALSE
  <2>1. CASE InputFails
    <3>1. next \in DOMAIN tx.inputs /\ next \in DOMAIN tx.mock_inputs
      <4>1. Len(tx.mock_inputs) = Len(tx.inputs) /\ next <= Len(tx.inputs)
        BY <1>1, <2>1 DEF Checks, SameInputs, InputFails
      <4> QED BY <1>0, <4>1, Lists
    <3>2. tx.mock_inputs[next].input = tx.inputs[next]
      BY <1>1, <3>1 DEF Checks, SameInputs
    <3>3. get_input_cell(tx.mock_inputs[next].input) # {}
      BY <1>0, <3>1, InputFound
    <3> QED BY <2>1, <3>2, <3>3 DEF InputFails
  <2>2. CASE DepFails
    <3>1. next \in DOMAIN tx.deps
      BY <1>0, <2>2, Lists DEF DepFails
    <3>2. Loadable(tx.deps[next])
      BY <1>0, <1>1, <3>1, CheckedIsLoadable
    <3> QED BY <2>2, <3>2 DEF DepFails
  <2>3. CASE HeaderFails
    <3>1. next \in DOMAIN tx.headers
      BY <1>0, <2>3, Lists DEF HeaderFails
    <3>2. PICK m \in Range(tx.mock_headers) : m.hash = tx.headers[next]
      BY <1>1, <3>1 DEF HeadersGiven, Range
    <3>3. get_header(m.hash) # {}
      BY <1>0, <3>2, HeaderFound
    <3> QED BY <2>3, <3>2, <3>3 DEF HeaderFails
  <2> QED BY <2>1, <2>2, <2>3
<1> QED BY <1>0, <1>1, FailStep

(* What the loops have loaded is what resolving asks for.                  *)
LEMMA LoadedResolves ==
  ASSUME IInv
  PROVE  LoadedIsResolvable
<1> SUFFICES ASSUME phase = "resolve", SpentOnce,
                    \A dep \in Range(tx.deps) :
                      ~(dep.dep_type = "dep_group" /\ required_cells[dep.out_point] = <<>>)
             PROVE  Resolvable
  BY DEF LoadedIsResolvable
<1>0. tx \in Transaction
  BY DEF IInv, TypeOK
<1>1. DoneInputs = DOMAIN tx.inputs /\ DoneDeps = DOMAIN tx.deps /\ DoneHeaders = DOMAIN tx.headers
  BY DEF DoneInputs, DoneDeps, DoneHeaders
<1>2. \A input \in Range(tx.inputs) : input.previous_output \in DOMAIN required_cells
  BY <1>1 DEF IInv, InputsLoaded, Range
<1>3. ASSUME NEW dep \in Range(tx.deps)
      PROVE  /\ dep.out_point \in DOMAIN required_cells
             /\ dep.dep_type = "dep_group" =>
                  /\ IsGroup(required_cells[dep.out_point])
                  /\ Range(required_cells[dep.out_point]) \subseteq DOMAIN required_cells
  <2>1. dep \in CellDep
    BY <1>0, Lists, Listed
  <2>2. /\ Loadable(dep)
        /\ \A o \in DOMAIN CellsOf(dep) : o \in DOMAIN required_cells /\ required_cells[o] = DataOf(o)
    BY <1>1 DEF IInv, DepsLoaded, Range
  <2>3. /\ dep.out_point \in DOMAIN CellsOf(dep)
        /\ dep.dep_type = "dep_group" => Range(DataOf(dep.out_point)) \subseteq DOMAIN CellsOf(dep)
    BY <1>0, <2>1, <2>2, CellsOfIs
  <2>4. dep.dep_type = "dep_group" => DataOf(dep.out_point) \notin {Opaque, Empty}
    BY <2>2 DEF Loadable, DataOf
  <2> QED BY <2>2, <2>3, <2>4 DEF IsGroup
<1>4. Range(tx.headers) \subseteq DOMAIN required_headers
  BY <1>1 DEF IInv, HeadersLoaded, Range
<1> QED BY <1>2, <1>3, <1>4 DEF Resolvable, SpentOnce

(* Resolving.                                                              *)
LEMMA ResolveStep ==
  ASSUME IInv, Resolve
  PROVE  IInv'
<1>0. /\ tx' = tx /\ phase = "resolve" /\ tx \in Transaction
      /\ UNCHANGED <<warned, next, required_cells, required_headers>>
  BY DEF IInv, TypeOK, Resolve
<1>1. CASE Resolvable
  <2>1. phase' = "ready"
    BY <1>1 DEF Resolve
  <2>2. TypeOK'
    BY <1>0, <2>1 DEF IInv, TypeOK
  <2>3. WarningIsKept' /\ CheckedIsReady'
    BY <1>0, <2>1, FileIsKept DEF IInv, WarningIsKept, CheckedIsReady
  <2>4. ReadyIsSpentOnce'
    BY <1>0, <1>1, FileIsKept DEF ReadyIsSpentOnce, Resolvable, SpentOnce
  <2>5. DoneInputs' = DoneInputs /\ DoneDeps' = DoneDeps /\ DoneHeaders' = DoneHeaders
    BY <1>0, <2>1 DEF DoneInputs, DoneDeps, DoneHeaders
  <2>6. CellsKept /\ HeadersLoaded'
    BY <1>0, <2>5, CellsStay DEF IInv, HeadersLoaded
  <2> QED BY <2>2, <2>3, <2>4, <2>6 DEF IInv, CellsKept
<1>2. CASE ~Resolvable
  <2>1. ASSUME Checks, OneContent, SpentOnce, HeadersGiven PROVE FALSE
    <3>1. PICK dep \in Range(tx.deps) :
            dep.dep_type = "dep_group" /\ required_cells[dep.out_point] = <<>>
      BY <1>0, <1>2, <2>1, LoadedResolves DEF LoadedIsResolvable
    <3>2. PICK i \in DOMAIN tx.deps : tx.deps[i] = dep
      BY DEF Range
    <3>3. dep \in CellDep /\ GroupsParse /\ SameDeps
      BY <1>0, <2>1, Lists, Listed DEF Checks
    <3>4. PICK m \in Range(tx.mock_deps) : m.cell_dep = dep
      BY <1>0, <3>3, NeededIsGiven
    <3>5. [out_point |-> dep.out_point, data |-> m.data] \in Cells /\ m.data # <<>>
      BY <3>1, <3>3, <3>4 DEF Cells, GroupsParse, Groups, IsGroup, Range
    <3>6. dep.out_point \in DOMAIN required_cells
      <4>1. i \in DoneDeps
        BY <1>0, <3>2 DEF DoneDeps
      <4>2. dep.out_point \in DOMAIN CellsOf(dep)
        BY <1>0, <3>2, <3>3, <4>1, CellsOfIs DEF IInv, DepsLoaded
      <4> QED BY <3>2, <4>1, <4>2 DEF IInv, DepsLoaded
    <3>7. [out_point |-> dep.out_point, data |-> required_cells[dep.out_point]] \in Cells
      BY <3>6 DEF IInv, OfTheFile
    <3> QED BY <2>1, <3>1, <3>5, <3>7 DEF OneContent
  <2>2. Fail /\ phase # "check"
    BY <1>0, <1>2 DEF Resolve, Fail
  <2> QED BY <2>1, <2>2, FailStep
<1> QED BY <1>1, <1>2

(* The end of a loop, which has left nothing out.                          *)
LEMMA LoopEndsStep ==
  ASSUME IInv, LoopEnds
  PROVE  IInv'
<1>0. /\ tx' = tx /\ tx \in Transaction /\ next' = 1 /\ next \in Nat
      /\ phase \in {"inputs", "deps", "headers"} /\ phase' \in {"deps", "headers", "resolve"}
      /\ UNCHANGED <<warned, required_cells, required_headers>>
  BY DEF IInv, TypeOK, LoopEnds
<1>1. /\ DOMAIN tx.inputs = 1 .. Len(tx.inputs) /\ Len(tx.inputs) \in Nat
      /\ DOMAIN tx.deps = 1 .. Len(tx.deps) /\ Len(tx.deps) \in Nat
      /\ DOMAIN tx.headers = 1 .. Len(tx.headers) /\ Len(tx.headers) \in Nat
  BY <1>0, Lists
<1>2. DoneInputs' \subseteq DoneInputs /\ DoneDeps' \subseteq DoneDeps /\ DoneHeaders' \subseteq DoneHeaders
  BY <1>0, <1>1 DEF DoneInputs, DoneDeps, DoneHeaders, LoopEnds
<1>3. TypeOK' /\ ReadyIsSpentOnce'
  BY <1>0 DEF IInv, TypeOK, ReadyIsSpentOnce
<1>4. WarningIsKept' /\ CheckedIsReady'
  BY <1>0, FileIsKept DEF IInv, WarningIsKept, CheckedIsReady
<1>5. CellsKept /\ HeadersLoaded'
  BY <1>0, <1>2, CellsStay DEF IInv, HeadersLoaded
<1> QED BY <1>3, <1>4, <1>5 DEF IInv, CellsKept

(* The invariant holds before anything is loaded ...                       *)
LEMMA InitInv == Init => IInv
<1> SUFFICES ASSUME Init PROVE IInv
  OBVIOUS
<1>1. tx \in Transaction
  BY FilesAssumption DEF Init
<1>2. DOMAIN required_cells = {} /\ DOMAIN required_headers = {}
  BY DEF Init, NoMap
<1>3. required_headers \in [DOMAIN required_headers -> Hash]
  BY DEF Init, NoMap
<1>4. TypeOK
  <2>1. warned \in BOOLEAN
    BY Zenon DEF Init
  <2>2. phase = "check" /\ next \in Nat \ {0}
    BY DEF Init
  <2> QED BY <1>1, <1>2, <1>3, <2>1, <2>2 DEF TypeOK
<1>5. WarningIsKept /\ ReadyIsSpentOnce /\ CheckedIsReady
  BY DEF Init, WarningIsKept, ReadyIsSpentOnce, CheckedIsReady
<1>6. DoneInputs = {} /\ DoneDeps = {} /\ DoneHeaders = {}
  BY DEF Init, DoneInputs, DoneDeps, DoneHeaders
<1>7. InputsLoaded /\ DepsLoaded /\ HeadersLoaded /\ OfTheFile /\ InputsKept
  BY <1>2, <1>6 DEF InputsLoaded, DepsLoaded, HeadersLoaded, OfTheFile, InputsKept
<1> QED BY <1>4, <1>5, <1>7 DEF IInv

(* ... and is inductive.                                                   *)
LEMMA NextInv == IInv /\ [Next]_vars => IInv'
<1> SUFFICES ASSUME IInv, [Next]_vars PROVE IInv'
  OBVIOUS
<1>1. ASSUME Check PROVE IInv'
  <2>0. /\ tx' = tx /\ tx \in Transaction /\ next' = 1 /\ phase = "check" /\ phase' = "inputs"
        /\ UNCHANGED <<required_cells, required_headers>>
    BY <1>1 DEF IInv, TypeOK, WarningIsKept, Check
  <2>1. warned' \in BOOLEAN /\ (warned' <=> ~Checks)
    BY <1>1 DEF Check
  <2>2. TypeOK' /\ ReadyIsSpentOnce' /\ CheckedIsReady'
    BY <2>0, <2>1 DEF IInv, TypeOK, ReadyIsSpentOnce, CheckedIsReady
  <2>3. WarningIsKept'
    BY <2>0, <2>1, FileIsKept DEF WarningIsKept
  <2>4. DoneInputs' = {} /\ DoneDeps' = {} /\ DoneHeaders' = {}
    <3>1. DOMAIN tx.inputs = 1 .. Len(tx.inputs) /\ Len(tx.inputs) \in Nat
      BY <2>0, Lists
    <3> QED BY <2>0, <3>1 DEF DoneInputs, DoneDeps, DoneHeaders
  <2>5. CellsKept /\ HeadersLoaded'
    BY <2>0, <2>4, CellsStay DEF IInv, HeadersLoaded
  <2> QED BY <2>2, <2>3, <2>5 DEF IInv, CellsKept
<1>2. ASSUME Over \/ UNCHANGED vars PROVE IInv'
  <2>0. tx' = tx /\ UNCHANGED <<warned, phase, next, required_cells, required_headers>>
    BY <1>2 DEF Over, vars
  <2>1. TypeOK'
    BY <2>0 DEF IInv, TypeOK
  <2>2. WarningIsKept' /\ ReadyIsSpentOnce' /\ CheckedIsReady'
    BY <2>0, FileIsKept DEF IInv, WarningIsKept, ReadyIsSpentOnce, CheckedIsReady
  <2>3. DoneInputs' = DoneInputs /\ DoneDeps' = DoneDeps /\ DoneHeaders' = DoneHeaders
    BY <2>0 DEF DoneInputs, DoneDeps, DoneHeaders
  <2>4. CellsKept /\ HeadersLoaded'
    BY <2>0, <2>3, CellsStay DEF IInv, HeadersLoaded
  <2> QED BY <2>1, <2>2, <2>4 DEF IInv, CellsKept
<1> QED BY <1>1, <1>2, LoadInputStep, LoadDepStep, LoadHeaderStep, LoopsFail, LoopEndsStep, ResolveStep
        DEF Next

(* So it always holds.                                                     *)
LEMMA InvHolds == Spec => []IInv
  BY InitInv, NextInv, PTL DEF Spec

(* The file, and what is collected from it, are well formed.               *)
THEOREM TypeCorrect == Spec => []TypeOK
<1>1. IInv => TypeOK
  BY DEF IInv
<1> QED BY <1>1, InvHolds, PTL

(* A file of any size that check accepts without a warning, and that is    *)
(* true to a chain, is loaded and resolved (up to the limit on expanded    *)
(* dependencies that Resolvable leaves out).                               *)
THEOREM CheckedFilesAreReady == Spec => []CheckedIsReady
<1>1. IInv => CheckedIsReady
  BY DEF IInv
<1> QED BY <1>1, InvHolds, PTL

(* Whatever the file, resolving finds every cell and header the loops of   *)
(* from_loader_and_block_extensions were to load.                          *)
THEOREM LoadedFilesResolve == Spec => []LoadedIsResolvable
  BY LoadedResolves, InvHolds, PTL

(* Scripts see the cells of the file, inputs overwritten by no other input.*)
THEOREM ScriptsSeeTheFile == Spec => []CellsAreOfTheFile
<1>1. ASSUME IInv PROVE CellsAreOfTheFile
  <2> SUFFICES ASSUME phase = "ready" PROVE CellsAreOfTheFile!2
    BY DEF CellsAreOfTheFile
  <2>1. DoneInputs = DOMAIN tx.inputs /\ SpentOnce
    BY <1>1 DEF DoneInputs, IInv, ReadyIsSpentOnce
  <2> QED BY <1>1, <2>1 DEF IInv, OfTheFile, InputsKept, NoDep, OfTheInput
<1> QED BY <1>1, InvHolds, PTL
=============================================================================
