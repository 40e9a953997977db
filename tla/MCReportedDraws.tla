-------------------------- MODULE MCReportedDraws --------------------------
(* ReportedDraws with sizes below, at and above the least legal one, and   *)
(* all programs of three types that refer to one another; a word is two    *)
(* bytes of two bits.                                                      *)
EXTENDS ReportedDraws, TLC

ModelSizes == {-1, 0, 2}
GoroutineSymmetry == Permutations(Goroutines)

TypeNames == {"a", "b", "c"}
Part(name, exported) == [type |-> name, exported |-> exported]
Exported(name) == Part(name, TRUE)
Kinds ==
    [kind : {"primitive", "known", "unsupported"}, parts : {<<>>}]
    \cup [kind : {"pointer", "empty array"}, parts : {<<Exported(n)>> : n \in TypeNames}]
    \cup [kind : {"map"}, parts : {<<Exported("b"), Exported(n)>> : n \in {"a", "c"}}]
    \cup [kind : {"struct"},
          parts : {<<Exported(m), Exported(n)>> : m, n \in TypeNames}
                  \cup {<<Exported("b"), Part("c", FALSE)>>}]

ModelPrograms == [TypeNames -> Kinds]
Override(name, field) == [type |-> name, field |-> field]
ModelOptions ==
    {<<Override("c", 0)>>,
     <<Override("a", 2), Override("b", 0), Override("a", 2)>>,
     <<Override("b", 1), Override("a", 0), Override("b", 1), Override("a", 1)>>,
     <<Override("b", 2), Override("a", 1)>>}

(* A lower case and an upper case letter, a digit, and a surrogate.        *)
ModelCharacters == <<{"L", "Ll"}, {"L", "Lu"}, {"N", "Nd"}, {"C", "Cs"}>>
CallOf(method, arg) == [method |-> method, arg |-> arg]
ModelCalls ==
    {CallOf("categories", {"L"}), CallOf("categories", {"C", "N"}),
     CallOf("excludeCategories", {"Lu"}), CallOf("excludeCategories", {}),
     CallOf("includeCharacters", {3}), CallOf("excludeCharacters", {1}),
     CallOf("minCodepoint", 2), CallOf("maxCodepoint", 3),
     CallOf("Alphabet", {1, 3})}
=============================================================================
