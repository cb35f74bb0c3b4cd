---- MODULE MCMockResource ----
(* Files over three cells: every list of at most three entries for           *)
(* dependencies, and every small list of inputs and headers.               *)
EXTENDS MockResource

CONSTANTS o1, o2, o3, h1, h2

MCOutPoint == {o1, o2, o3}
MCHash == {h1, h2}
MCData == {Opaque, <<>>, <<o1>>, <<o2>>, <<o1, o2>>}

UpTo(S, n) == UNION {[1 .. k -> S] : k \in 0 .. n}
Dep(o, t) == [out_point |-> o, dep_type |-> t]
MockDep(dep, d) == [cell_dep |-> dep, data |-> d]
Input(o, since) == [previous_output |-> o, since |-> since]

(* Codes hold opaque data or a list, groups any data.                      *)
Entries == {MockDep(Dep(o, t), d) : o \in MCOutPoint, t \in {"code", "dep_group"}, d \in {Opaque, <<o1>>, <<o2>>}}
             \cup {MockDep(Dep(o1, "dep_group"), d) : d \in MCData \cup {Empty}}

DepFiles ==
  [inputs : {<<>>, <<Input(o1, 0)>>}, mock_inputs : UpTo([input : {Input(o1, 0)}, data : {Opaque, <<o2>>, <<o3>>}], 1),
   deps : UpTo(CellDep, 2), mock_deps : UpTo(Entries, 2), headers : {<<>>}, mock_headers : {<<>>}]
GroupFiles ==
  [inputs : {<<>>}, mock_inputs : {<<>>}, deps : UpTo(CellDep, 2),
   mock_deps : {<<MockDep(Dep(o1, "dep_group"), g), e, f>> :
                  g \in {<<o1>>, <<o2>>, <<o1, o2>>, <<o2, o3>>}, e \in Entries, f \in Entries},
   headers : {<<>>}, mock_headers : {<<>>}]
InputFiles ==
  [inputs : UpTo({Input(o1, 0), Input(o1, 1), Input(o2, 0)}, 2),
   mock_inputs : UpTo({[input |-> Input(o, s), data |-> Opaque] : o \in MCOutPoint, s \in {0, 1}}, 2),
   deps : UpTo({Dep(o1, "code")}, 1), mock_deps : UpTo({MockDep(Dep(o1, "code"), Opaque)}, 1),
   headers : UpTo(MCHash, 1), mock_headers : UpTo([hash : MCHash, block : MCHash], 1)]

MCFiles == <<DepFiles, GroupFiles, InputFiles>>
====
