---------------------------- MODULE MockResource ----------------------------
(***************************************************************************)
(* Mock transactions: check (ckb-debugger-api), the warning the debugger   *)
(* prints about a transaction file, and Resource::from_both                *)
(* (ckb-mock-tx-types), which collects from the file the cells and headers *)
(* the transaction refers to; then resolve_transaction (external,          *)
(* ckb-types) looks all of them up again.                                  *)
(*                                                                         *)
(* A transaction is a record: inputs, deps and headers are what it refers  *)
(* to, mock_inputs, mock_deps and mock_headers what the file says they     *)
(* are.  The data of a cell is a sequence of out points if it can be read  *)
(* as one, and Opaque or Empty if not.  The loader is the dummy one, which *)
(* finds nothing.                                                          *)
(***************************************************************************)
EXTENDS Naturals, Sequences, FiniteSets, SequencesExt

CONSTANTS OutPoint,     (* out points                                       *)
          Hash,         (* block hashes                                     *)
          Opaque,       (* data that is no list of out points               *)
          Empty,        (* no data                                          *)
          Files         (* the files considered: a sequence of sets         *)

CellDep == [out_point : OutPoint, dep_type : {"code", "dep_group"}]
CellInput == [previous_output : OutPoint, since : Nat]
Data == Seq(OutPoint) \cup {Opaque, Empty}
Transaction ==
  [inputs : Seq(CellInput), mock_inputs : Seq([input : CellInput, data : Data]),
   deps : Seq(CellDep), mock_deps : Seq([cell_dep : CellDep, data : Data]),
   headers : Seq(Hash), mock_headers : Seq([hash : Hash, block : Hash])]

ASSUME OpaqueAssumption == Opaque # Empty /\ {Opaque, Empty} \cap Seq(OutPoint) = {}
ASSUME FilesAssumption == \A i \in DOMAIN Files : Files[i] \subseteq Transaction

VARIABLES tx,
          warned,            (* check has found something                   *)
          phase,             (* "check", "inputs", "deps", "headers",       *)
                             (* "resolve", "ready" or "error"               *)
          next,              (* the next input, dep or header               *)
          required_cells,    (* out point -> data, for the cells found      *)
          required_headers   (* hash -> block                               *)

vars == <<tx, warned, phase, next, required_cells, required_headers>>

-----------------------------------------------------------------------------
(* check                                                                   *)

(* parse_dep_group_data succeeds.                                          *)
IsGroup(data) == data \notin {Opaque, Empty} /\ data # <<>>

Code(out_point) == [out_point |-> out_point, dep_type |-> "code"]

Count(seq, x) == Cardinality({i \in DOMAIN seq : seq[i] = x})

(* The entries of the file that are groups.                                *)
Groups == {i \in DOMAIN tx.mock_deps : tx.mock_deps[i].cell_dep.dep_type = "dep_group"}

(* The places where a dependency is a member of a group.                   *)
MemberPlaces(i, dep) ==
  LET data == tx.mock_deps[i].data
  IN {<<i, j>> : j \in {k \in DOMAIN data : Code(data[k]) = dep}}

(* How often it is needed, by the transaction or by a group.               *)
Needed(dep) == Count(tx.deps, dep) + Cardinality(UNION {MemberPlaces(i, dep) : i \in Groups})

(* Mutant: the file may name fewer dependencies than are needed.           *)
SameDeps_NoMembers ==
  Range(tx.deps) \subseteq Range([i \in DOMAIN tx.mock_deps |-> tx.mock_deps[i].cell_dep])

(* Both lists of dependencies are the same once they are sorted.           *)
SameDeps ==
  LET mock == [i \in DOMAIN tx.mock_deps |-> tx.mock_deps[i].cell_dep]
  IN \A dep \in CellDep : Count(mock, dep) = Needed(dep)

GroupsParse ==
  \A i \in Groups : IsGroup(tx.mock_deps[i].data)

SameInputs ==
  /\ Len(tx.mock_inputs) = Len(tx.inputs)
  /\ \A i \in DOMAIN tx.inputs : tx.mock_inputs[i].input = tx.inputs[i]

Checks ==
  /\ GroupsParse
  /\ SameDeps
  /\ SameInputs
  /\ Len(tx.mock_headers) = Len(tx.headers)

(* The debugger goes on whatever check says.                               *)
Check ==
  /\ phase = "check"
  /\ warned' = ~Checks
  /\ phase' = "inputs"
  /\ UNCHANGED <<tx, next, required_cells, required_headers>>

-----------------------------------------------------------------------------
(* Resource::from_loader_and_block_extensions                              *)

(* The first entry of a list that satisfies P; none or one.                *)
First(seq, P(_)) ==
  LET I == {i \in DOMAIN seq : P(seq[i]) /\ \A j \in 1 .. i - 1 : ~P(seq[j])}
  IN {seq[i] : i \in I}

(* Mutant: inputs are compared by their out points.                        *)
get_input_cell_OutPoint(input) ==
  First(tx.mock_inputs, LAMBDA m : m.input.previous_output = input.previous_output)

get_input_cell(input) == First(tx.mock_inputs, LAMBDA m : m.input = input)

(* Entries are compared by their out points only.                          *)
get_dep_cell(out_point) == First(tx.mock_deps, LAMBDA m : m.cell_dep.out_point = out_point)

(* "Keep the user given hash": the conversion from JSON fakes it.          *)
HeaderHash(header) == header.hash

get_header(hash) == First(tx.mock_headers, LAMBDA m : HeaderHash(m) = hash)

(* Mutant: what is already there is kept.                                  *)
Inserted_Keep(map, new) ==
  [k \in DOMAIN map \cup DOMAIN new |-> IF k \in DOMAIN map THEN map[k] ELSE new[k]]

(* HashMap::insert                                                         *)
Inserted(map, new) ==
  [k \in DOMAIN map \cup DOMAIN new |-> IF k \in DOMAIN new THEN new[k] ELSE map[k]]

Fail == phase' = "error" /\ UNCHANGED <<tx, warned, next, required_cells, required_headers>>

LoadInput ==
  /\ phase = "inputs" /\ next <= Len(tx.inputs)
  /\ \E m \in get_input_cell(tx.inputs[next]) :
       required_cells' = Inserted(required_cells, [k \in {m.input.previous_output} |-> m.data])
  /\ next' = next + 1
  /\ UNCHANGED <<tx, warned, phase, required_headers>>

InputFails ==
  /\ phase = "inputs" /\ next <= Len(tx.inputs)
  /\ get_input_cell(tx.inputs[next]) = {}
  /\ Fail

Found(cell) == CHOOSE m \in cell : TRUE

(* A dependency is found and, if it is a group, it is one and its members  *)
(* are found.                                                              *)
Loadable(dep) ==
  /\ get_dep_cell(dep.out_point) # {}
  /\ dep.dep_type = "dep_group" =>
       LET data == Found(get_dep_cell(dep.out_point)).data
       IN /\ data \notin {Opaque, Empty}
          /\ \A out_point \in Range(data) : get_dep_cell(out_point) # {}

(* Its cells: itself and, if it is a group, its members.                   *)
CellsOf(dep) ==
  LET data == Found(get_dep_cell(dep.out_point)).data
      members == IF dep.dep_type = "dep_group" THEN Range(data) ELSE {}
  IN [k \in members \cup {dep.out_point} |-> Found(get_dep_cell(k)).data]

LoadDep ==
  /\ phase = "deps" /\ next <= Len(tx.deps)
  /\ Loadable(tx.deps[next])
  /\ required_cells' = Inserted(required_cells, CellsOf(tx.deps[next]))
  /\ next' = next + 1
  /\ UNCHANGED <<tx, warned, phase, required_headers>>

DepFails ==
  /\ phase = "deps" /\ next <= Len(tx.deps)
  /\ ~Loadable(tx.deps[next])
  /\ Fail

LoadHeader ==
  /\ phase = "headers" /\ next <= Len(tx.headers)
  /\ \E m \in get_header(tx.headers[next]) :
       required_headers' = Inserted(required_headers, [k \in {tx.headers[next]} |-> m.block])
  /\ next' = next + 1
  /\ UNCHANGED <<tx, warned, phase, required_cells>>

HeaderFails ==
  /\ phase = "headers" /\ next <= Len(tx.headers)
  /\ get_header(tx.headers[next]) = {}
  /\ Fail

(* The end of one of the three loops.                                      *)
LoopEnds ==
  /\ \/ phase = "inputs" /\ next > Len(tx.inputs) /\ phase' = "deps"
     \/ phase = "deps" /\ next > Len(tx.deps) /\ phase' = "headers"
     \/ phase = "headers" /\ next > Len(tx.headers) /\ phase' = "resolve"
  /\ next' = 1
  /\ UNCHANGED <<tx, warned, required_cells, required_headers>>

-----------------------------------------------------------------------------
(* resolve_transaction: an input may be spent once, every cell and header  *)
(* must be known, and a group must have members.  It also refuses          *)
(* transactions whose groups expand to more than 2048 dependencies, which  *)
(* is left out.                                                            *)
Resolvable ==
  /\ \A i, j \in DOMAIN tx.inputs :
       i # j => tx.inputs[i].previous_output # tx.inputs[j].previous_output
  /\ \A input \in Range(tx.inputs) : input.previous_output \in DOMAIN required_cells
  /\ \A dep \in Range(tx.deps) :
       /\ dep.out_point \in DOMAIN required_cells
       /\ dep.dep_type = "dep_group" =>
            /\ IsGroup(required_cells[dep.out_point])
            /\ Range(required_cells[dep.out_point]) \subseteq DOMAIN required_cells
  /\ Range(tx.headers) \subseteq DOMAIN required_headers

Resolve ==
  /\ phase = "resolve"
  /\ phase' = IF Resolvable THEN "ready" ELSE "error"
  /\ UNCHANGED <<tx, warned, next, required_cells, required_headers>>

NoMap == [k \in {} |-> 0]

Init ==
  /\ \E i \in DOMAIN Files : tx \in Files[i]
  /\ warned = FALSE
  /\ phase = "check" /\ next = 1
  /\ required_cells = NoMap /\ required_headers = NoMap

Over == phase \in {"ready", "error"} /\ UNCHANGED vars

Next ==
  \/ Check
  \/ LoadInput \/ InputFails
  \/ LoadDep \/ DepFails
  \/ LoadHeader \/ HeaderFails
  \/ LoopEnds
  \/ Resolve
  \/ Over

Spec == Init /\ [][Next]_vars

-----------------------------------------------------------------------------
(* Properties.                                                             *)

TypeOK ==
  /\ tx \in Transaction
  /\ warned \in BOOLEAN
  /\ phase \in {"check", "inputs", "deps", "headers", "resolve", "ready", "error"}
  /\ next \in Nat \ {0}
  /\ DOMAIN required_cells \subseteq OutPoint
  /\ \A o \in DOMAIN required_cells : required_cells[o] \in Data
  /\ required_headers \in [DOMAIN required_headers -> Hash]
  /\ DOMAIN required_headers \subseteq Hash

(* What every chain guarantees of a transaction, and a file made by hand   *)
(* need not: a cell has one content, an input is spent once.               *)
Cells == {[out_point |-> m.cell_dep.out_point, data |-> m.data] : m \in Range(tx.mock_deps)}
           \cup {[out_point |-> m.input.previous_output, data |-> m.data] : m \in Range(tx.mock_inputs)}
OneContent == \A c, d \in Cells : c.out_point = d.out_point => c.data = d.data
SpentOnce ==
  \A i, j \in DOMAIN tx.inputs :
    i # j => tx.inputs[i].previous_output # tx.inputs[j].previous_output
HeadersGiven == \A h \in Range(tx.headers) : \E m \in Range(tx.mock_headers) : m.hash = h

(* A file without a warning that is true to some chain, headers included   *)
(* (of which check counts only how many there are), can be loaded and      *)
(* resolved: check and the two loops agree on what a transaction needs.    *)
CheckedIsReady ==
  phase = "error" => warned \/ ~OneContent \/ ~SpentOnce \/ ~HeadersGiven

(* What has been loaded can be resolved, warned or not and true to a chain *)
(* or not: lookups by out point find the groups that were expanded, even   *)
(* when one cell is an input, a dependency and a member of a group.        *)
LoadedIsResolvable ==
  phase = "resolve" /\ SpentOnce =>
    \/ Resolvable
    \/ \E dep \in Range(tx.deps) : dep.dep_type = "dep_group" /\ required_cells[dep.out_point] = <<>>

(* The script sees the cells of the file: the data of every cell is that   *)
(* of an entry for it, and of the entry for the input if the cell is no    *)
(* dependency.                                                             *)
CellsAreOfTheFile ==
  phase = "ready" =>
    /\ \A o \in DOMAIN required_cells : [out_point |-> o, data |-> required_cells[o]] \in Cells
    /\ \A i \in DOMAIN tx.inputs :
         (\A m \in Range(tx.mock_deps) : m.cell_dep.out_point # tx.inputs[i].previous_output) =>
           \E m \in Range(tx.mock_inputs) :
             m.input = tx.inputs[i] /\ m.data = required_cells[tx.inputs[i].previous_output]
=============================================================================
