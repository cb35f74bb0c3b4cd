----------------------------- MODULE PprofTable ------------------------------
(***************************************************************************)
(* The two writers of pprof profiles: Report of ckb-vm-signal-profiler     *)
(* (record, pprof), which is given stacks leaf first, one per signal, and  *)
(* ckb-vm-pprof-converter, which is given lines "root; ...; leaf cycles".  *)
(* Both turn stacks of symbols into a string table, a function table, a    *)
(* location table and samples that refer to them by number.                *)
(*                                                                         *)
(* Strings are model values.  The second value of a sample, its time, is   *)
(* its first times a constant and left out, as are the times in the        *)
(* header.  Function names hold no "; ": the converter splits those that   *)
(* do, such as that of a function on [u8; 32], into two frames.  A line of *)
(* another form, on which the converter panics, is not given to it.        *)
(***************************************************************************)
EXTENDS Integers, Sequences, FiniteSets, SequencesExt, FiniteSetsExt, Functions

CONSTANTS String,      (* strings                                           *)
          EmptyString, (* ""                                                *)
          Unknown,     (* "<Unknown>", for a symbol with no name or no file *)
          Units,       (* the strings of the sample types                   *)
          Normal,      (* normalize_function_name, a function on strings    *)
          Lines,       (* source lines                                      *)
          Stacks,      (* the stacks that the profilers come across         *)
          Cycles,      (* the cycles of a line of the converter's input     *)
          MaxGiven     (* bound: stacks given to the writer                 *)

Symbol == [name : String, file : String, line : Lines]

ASSUME StringAssumption ==
  {EmptyString, Unknown} \subseteq String /\ Units \subseteq String /\ IsFiniteSet(String)
ASSUME NormalAssumption == Normal \in [String -> String]
ASSUME LinesAssumption == 0 \in Lines /\ Lines \subseteq Nat
ASSUME StacksAssumption == Stacks \subseteq Seq(Symbol)
ASSUME CyclesAssumption == Cycles \subseteq Nat /\ MaxGiven \in Nat

VARIABLES tool,       (* "signal-profiler" or "converter"                   *)
          given,      (* history: the stacks given, with their weights      *)
          frames,     (* the stacks as the tool keeps them                  *)
          phase,      (* "collect", "encode" or "written"                   *)
          todo,       (* the frames not encoded yet                         *)
          string_table, function, location, sample,  (* the profile         *)
          functions   (* function name -> id                                *)

vars == <<tool, given, frames, phase, todo, string_table, function, location, sample, functions>>
profile == <<string_table, function, location, sample, functions>>

Weighted(stack, n) == [stack |-> stack, count |-> n]

-----------------------------------------------------------------------------
(* Collecting.                                                             *)

(* Mutant: a known frame is counted as one again.                          *)
Recorded_Reset(stack) ==
  IF \E i \in DOMAIN frames : frames[i].stack = stack THEN frames ELSE Append(frames, Weighted(stack, 1))

(* Report::record: frames are equal when all their symbols are.            *)
Recorded(stack) ==
  LET known == {i \in DOMAIN frames : frames[i].stack = stack}
  IN IF known = {} THEN Append(frames, Weighted(stack, 1))
     ELSE [i \in DOMAIN frames |-> IF i \in known THEN Weighted(stack, frames[i].count + 1) ELSE frames[i]]

Record(stack) ==
  /\ tool = "signal-profiler"
  /\ phase = "collect"
  /\ Len(given) < MaxGiven
  /\ given' = Append(given, Weighted(stack, 1))
  /\ frames' = Recorded(stack)
  /\ UNCHANGED <<tool, phase, todo, profile>>

(* A symbol of a line is file:name; the name is normalised and has no line.*)
Parsed(symbol) == [name |-> Normal[symbol.name], file |-> symbol.file, line |-> 0]

(* A line of the input, root first: the converter turns it round.          *)
ReadLine(stack, cycles) ==
  /\ tool = "converter"
  /\ phase = "collect"
  /\ Len(given) < MaxGiven
  /\ given' = Append(given, Weighted(stack, cycles))
  /\ frames' = Append(frames, Weighted(Reverse([i \in DOMAIN stack |-> Parsed(stack[i])]), cycles))
  /\ UNCHANGED <<tool, phase, todo, profile>>

-----------------------------------------------------------------------------
(* Encoding.  Ids and indexes are those of the file: ids count from 1,     *)
(* indexes into the string table from 0.                                   *)

(* dedup_str                                                               *)
StringsUsed ==
  UNION {UNION {{s.name, s.file} : s \in Range(frames[i].stack)} : i \in DOMAIN frames} \cup Units

(* Mutant: the string table does not start with the empty string.          *)
Tabled_NoEmpty(order) == order

Tabled(order) == <<EmptyString>> \o order

(* A HashSet is iterated in any order.                                     *)
BuildStrings ==
  /\ phase = "collect"
  /\ \E order \in SetToSeqs(StringsUsed) : string_table' = Tabled(order)
  /\ todo' = DOMAIN frames
  /\ phase' = "encode"
  /\ UNCHANGED <<tool, given, frames, function, location, sample, functions>>

(* strings: of two entries of one string the later one counts.             *)
IndexOf(s) == Max({i \in DOMAIN string_table : string_table[i] = s}) - 1

FunctionOf(id, symbol) == [id |-> id, name |-> IndexOf(symbol.name), filename |-> IndexOf(symbol.file)]
LocationOf(id, symbol) == [id |-> id, function_id |-> id, line |-> symbol.line]

(* One symbol of a frame: a function is known by its name alone, whatever  *)
(* its file and line.                                                      *)
AddSymbol(acc, symbol) ==
  LET name == symbol.name
      id == Len(acc.fn_tbl) + 1
  IN IF name \in DOMAIN acc.functions
       THEN [acc EXCEPT !.locs = Append(@, acc.functions[name])]
       ELSE [fn_tbl |-> Append(acc.fn_tbl, FunctionOf(id, symbol)),
             loc_tbl |-> Append(acc.loc_tbl, LocationOf(id, symbol)),
             functions |-> [n \in DOMAIN acc.functions \cup {name} |-> IF n = name THEN id ELSE acc.functions[n]],
             locs |-> Append(acc.locs, id)]

(* A HashMap is iterated in any order, the converter's vector in its own.  *)
EncodeFrame(i) ==
  /\ phase = "encode"
  /\ i \in todo
  /\ tool = "converter" => i = Min(todo)
  /\ LET acc == FoldLeft(AddSymbol, [fn_tbl |-> function, loc_tbl |-> location, functions |-> functions, locs |-> <<>>],
                         frames[i].stack)
     IN /\ function' = acc.fn_tbl
        /\ location' = acc.loc_tbl
        /\ functions' = acc.functions
        /\ sample' = Append(sample, [location_id |-> acc.locs, count |-> frames[i].count])
  /\ todo' = todo \ {i}
  /\ UNCHANGED <<tool, given, frames, phase, string_table>>

Write ==
  /\ phase = "encode"
  /\ todo = {}
  /\ phase' = "written"
  /\ UNCHANGED <<tool, given, frames, todo, profile>>

Init ==
  /\ tool \in {"signal-profiler", "converter"}
  /\ given = <<>> /\ frames = <<>>
  /\ phase = "collect" /\ todo = {}
  /\ string_table = <<>> /\ function = <<>> /\ location = <<>> /\ sample = <<>>
  /\ functions = <<>>

Over == phase = "written" /\ UNCHANGED vars

Next ==
  \/ \E stack \in Stacks : Record(stack) \/ \E cycles \in Cycles : ReadLine(stack, cycles)
  \/ BuildStrings
  \/ \E i \in DOMAIN frames : EncodeFrame(i)
  \/ Write
  \/ Over

Spec == Init /\ [][Next]_vars

-----------------------------------------------------------------------------
(* Properties.                                                             *)

TypeOK ==
  /\ tool \in {"signal-profiler", "converter"}
  /\ phase \in {"collect", "encode", "written"}
  /\ given \in Seq([stack : Stacks, count : Nat])
  /\ frames \in Seq([stack : Seq(Symbol), count : Nat])
  /\ todo \subseteq DOMAIN frames
  /\ string_table \in Seq(String)
  /\ function \in Seq([id : Nat, name : Nat, filename : Nat])
  /\ location \in Seq([id : Nat, function_id : Nat, line : Lines])
  /\ sample \in Seq([location_id : Seq(Nat), count : Nat])

(* What profile.proto asks of a file, at every stage of the encoding: the  *)
(* string table starts with the empty string, ids are unique and not 0,    *)
(* and every reference (sample to location, location to function, function *)
(* to string) leads to an entry; no two functions share a name.            *)
ProfileIsWellFormed ==
  /\ phase # "collect" => string_table[1] = EmptyString
  /\ \A i \in DOMAIN function :
       function[i].id = i /\ {function[i].name, function[i].filename} \subseteq 0 .. Len(string_table) - 1
  /\ \A i \in DOMAIN location : location[i].id = i /\ location[i].function_id \in DOMAIN function
  /\ \A i \in DOMAIN sample : Range(sample[i].location_id) \subseteq DOMAIN location
  /\ \A i, j \in DOMAIN function : function[i].name = function[j].name => i = j

(* What a reader of the profile makes of a sample.                         *)
NameOf(id) == string_table[function[location[id].function_id].name + 1]
NamesOf(s) == [i \in DOMAIN s.location_id |-> NameOf(s.location_id[i])]

(* The names of a stack that was given to the tool, leaf first.            *)
GivenNames(g) ==
  IF tool = "converter" THEN Reverse([i \in DOMAIN g.stack |-> Normal[g.stack[i].name]])
                        ELSE [i \in DOMAIN g.stack |-> g.stack[i].name]

SumOf(seq, Chosen(_)) == FoldLeft(LAMBDA sum, x : sum + IF Chosen(x) THEN x.count ELSE 0, 0, seq)

(* A written profile gives every stack of function names exactly the       *)
(* weight the profiler has given it, whatever order the hash tables are    *)
(* walked in and however many frames differ only in files or lines; and a  *)
(* function has the file of some symbol of its name.                       *)
ProfileIsFaithful ==
  phase = "written" =>
    /\ \A names \in {NamesOf(sample[i]) : i \in DOMAIN sample} \cup {GivenNames(given[i]) : i \in DOMAIN given} :
         SumOf(sample, LAMBDA s : NamesOf(s) = names) = SumOf(given, LAMBDA g : GivenNames(g) = names)
    /\ \A i \in DOMAIN function :
         \E g \in Range(frames) : \E s \in Range(g.stack) :
           /\ s.name = string_table[function[i].name + 1]
           /\ s.file = string_table[function[i].filename + 1]
=============================================================================
