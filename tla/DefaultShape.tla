---------------------------- MODULE DefaultShape ----------------------------
(***************************************************************************)
(* How Default constructs a generator from a type: the options, the walk   *)
(* of buildDefault over the type, and the sources of values that           *)
(* compileDefault puts together (default.go).                              *)
(*                                                                         *)
(* The types of a program are a function from names to their kind and      *)
(* their parts: the fields of a struct, the key and the element of a map,  *)
(* the element of anything else.  An override is for a type, field 0, or   *)
(* for the field of a struct.  A source of values is an override, given by *)
(* its position among the options, or "itself": the generator of its type, *)
(* known or by structure.                                                  *)
(***************************************************************************)
EXTENDS Naturals, Sequences, SequencesExt, FiniteSetsExt

Part(name, exported) == [type |-> name, exported |-> exported]
Override(name, field) == [type |-> name, field |-> field]
Itself == 0

Positions(seq) == [i \in DOMAIN seq |-> i]

(* The map of overrides: of several options for one key the last one stays. *)
Kept(options, m, i) ==
    [k \in DOMAIN m \cup {options[i]} |-> IF k = options[i] THEN i ELSE m[k]]

Overrides(options) ==
    FoldLeft(LAMBDA m, i : Kept(options, m, i), [k \in {} |-> 0], Positions(options))

ForType(overrides, name) == Override(name, 0) \in DOMAIN overrides

(* A field override counts unless there is one for the field's type.        *)
ForField(types, overrides, name, i) ==
    /\ types[name].kind = "struct"
    /\ Override(name, i) \in DOMAIN overrides
    /\ ~ForType(overrides, types[name].parts[i].type)

(* The type is never taken out of `active`: a faulty variant of Left.       *)
StillActive(active, name) == active

(* The deferred delete.                                                     *)
Left(active, name) == active \ {name}

Failed(active) == [ok |-> FALSE, nodes |-> {}, active |-> active]

(* The parts the walk goes into: not the element of an array of length 0.   *)
Entered(types, name) ==
    IF types[name].kind \in {"primitive", "empty array"} THEN <<>>
    ELSE Positions(types[name].parts)

Call(name, nodes, active) == [name |-> name, nodes |-> nodes, active |-> active]

(* buildDefault: `nodes` are the types that are done, `active` those whose  *)
(* walk has begun; both are shared by the whole walk.  A part ends it with  *)
(* an error, which leaves the later parts alone.  `Build` is the recursive  *)
(* call.                                                                    *)
Walk(types, overrides, name, Build, before, i) ==
    LET part == types[name].parts[i] IN
    CASE ~before.ok -> before
      [] before.ok /\ ~part.exported -> Failed(before.active)
      [] before.ok /\ part.exported ->
            IF ForField(types, overrides, name, i) THEN before
            ELSE Build[Call(part.type, before.nodes, before.active)]

WalkParts(types, overrides, name, Build, begun) ==
    FoldLeft(LAMBDA before, i : Walk(types, overrides, name, Build, before, i),
             begun, Entered(types, name))

Visit(types, overrides, name, Build, nodes, active) ==
    LET done == [ok |-> TRUE, nodes |-> nodes \cup {name}, active |-> active]
    IN CASE name \in active -> Failed(active)
         [] name \in nodes \ active -> done
         [] name \notin nodes \cup active ->
            IF ForType(overrides, name) \/ types[name].kind = "known" THEN done
            ELSE IF types[name].kind = "unsupported"
            THEN Failed(Left(active \cup {name}, name))
            ELSE LET walked == WalkParts(types, overrides, name, Build,
                            [ok |-> TRUE, nodes |-> nodes, active |-> active \cup {name}])
                 IN [ok |-> walked.ok, active |-> Left(walked.active, name),
                     nodes |-> walked.nodes \cup (IF walked.ok THEN {name} ELSE {})]

BuildDefault(types, overrides, root) ==
    LET Build[call \in [name : DOMAIN types, nodes : SUBSET DOMAIN types,
                        active : SUBSET DOMAIN types]] ==
            Visit(types, overrides, call.name, Build, call.nodes, call.active)
    IN Build[Call(root, {}, {})]

(* compileDefault: where the values of a type and of a part come from.      *)
SourceOf(overrides, name) ==
    IF ForType(overrides, name) THEN overrides[Override(name, 0)] ELSE Itself

PartSource(types, overrides, name, i) ==
    IF ForField(types, overrides, name, i) THEN overrides[Override(name, i)]
    ELSE SourceOf(overrides, types[name].parts[i].type)

Structural(types, overrides, name) ==
    ~ForType(overrides, name) /\ types[name].kind # "known"

NewDefaultGenerator(types, options, root) ==
    LET overrides == Overrides(options)
        built == BuildDefault(types, overrides, root)
    IN IF ~built.ok THEN [ok |-> FALSE, sources |-> {}]
       ELSE [ok |-> TRUE,
             sources |->
                {[type |-> root, part |-> 0, source |-> SourceOf(overrides, root)]}
                \cup UNION {{[type |-> name, part |-> i,
                              source |-> PartSource(types, overrides, name, i)] :
                                i \in Range(Entered(types, name))} :
                            name \in {n \in built.nodes :
                                        Structural(types, overrides, n)}}]

-----------------------------------------------------------------------------
(* The same as Default's comment says it, without a walk.                   *)

LastOption(options, key) ==
    LET given == {i \in DOMAIN options : options[i] = key}
    IN IF given = {} THEN Itself ELSE Max(given)

(* "Type overrides for T take precedence over field overrides.  An override *)
(* for S replaces the whole struct."                                        *)
Wanted(types, options, name, i) ==
    LET type == types[name].parts[i].type
        forType == LastOption(options, Override(type, 0))
    IN IF forType # Itself \/ types[name].kind # "struct" THEN forType
       ELSE LastOption(options, Override(name, i))

Inside(types, options, name) ==
    \/ types[name].kind \in {"known", "primitive", "empty array"}
    \/ LastOption(options, Override(name, 0)) # Itself

(* The types whose structure the generator of `name` needs.                 *)
Needs(types, options, name) ==
    IF Inside(types, options, name) THEN {}
    ELSE {types[name].parts[i].type :
            i \in {j \in DOMAIN types[name].parts :
                     \/ Wanted(types, options, name, j) = Itself
                     \/ LastOption(options,
                            Override(types[name].parts[j].type, 0)) # Itself}}

Reached(types, options, from) ==
    LET R[n \in Nat] ==
            IF n = 0 THEN from
            ELSE R[n - 1] \cup UNION {Needs(types, options, m) : m \in R[n - 1]}
    IN R[Cardinality(DOMAIN types)]

Unbuildable(types, options, name) ==
    /\ ~Inside(types, options, name)
    /\ \/ types[name].kind = "unsupported"
       \/ \E i \in DOMAIN types[name].parts : ~types[name].parts[i].exported
       \/ name \in Reached(types, options, Needs(types, options, name))

(* "It panics at construction for ... recursive or unsupported types that   *)
(* are not handled by an override."                                         *)
Constructible(types, options, root) ==
    \A name \in Reached(types, options, {root}) : ~Unbuildable(types, options, name)

Conforms(types, options, root, generator) ==
    /\ generator.ok = Constructible(types, options, root)
    /\ generator.ok => generator.sources =
        {[type |-> root, part |-> 0,
          source |-> LastOption(options, Override(root, 0))]}
        \cup UNION {{[type |-> name, part |-> i,
                      source |-> Wanted(types, options, name, i)] :
                        i \in DOMAIN types[name].parts} :
                    name \in {n \in Reached(types, options, {root}) :
                                ~Inside(types, options, n)}}
=============================================================================
