---------------------------- MODULE MCPprofTable -----------------------------
(* PprofTable with recursion, one name in two files, one function at two   *)
(* lines, a function whose name is a unit's, and an empty name.            *)
EXTENDS PprofTable

CONSTANTS f, raw, norm, samples

MCString == {EmptyString, Unknown, f, raw, norm, samples}
MCUnits == {samples}
MCNormal == [s \in MCString |-> IF s \in {raw, Unknown} THEN norm ELSE s]

Sym(name, file, line) == [name |-> name, file |-> file, line |-> line]
MCStacks ==
  {<<Sym(f, Unknown, 0)>>, <<Sym(f, f, 1), Sym(f, f, 2)>>, <<Sym(raw, f, 1), Sym(f, Unknown, 1)>>,
   <<Sym(raw, Unknown, 2), Sym(f, f, 1)>>, <<Sym(samples, EmptyString, 1), Sym(EmptyString, f, 0)>>,
   <<Sym(norm, f, 1), Sym(f, f, 1)>>}
=============================================================================
