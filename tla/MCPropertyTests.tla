-------------------------- MODULE MCPropertyTests --------------------------
(* PropertyTests with the values of a few options.                          *)
EXTENDS PropertyTests, TLC

Setting(field, value) == [field |-> field, value |-> {value}]

(* Options in an order that matters: twice the same setting, a profile in   *)
(* between, one that the engine refuses although a later one overrides it.  *)
ModelSlices ==
    {<<>>,
     <<Setting("testCases", "many"), Setting("profile", "ci"), Setting("printBlob", "yes")>>,
     <<Setting("testCases", "refused"), Setting("testCases", "many")>>,
     <<Setting("profile", "nosuch")>>}

(* Repeated flags, and one with a value that is no health check.            *)
ModelCommandLines ==
    {<<>>,
     <<Setting("testCases", "few"), Setting("suppressHealthCheck", "slow"),
       Setting("testCases", "one"), Setting("suppressHealthCheck", "large")>>,
     <<Setting("database", "off"), Setting("suppressHealthCheck", "nosuch")>>}

ModelProfiles ==
    LET base == [testCases |-> {"hundred"}, database |-> {}, databaseKey |-> {},
                 derandomize |-> {}, printBlob |-> {}, testLocation |-> {},
                 suppressHealthCheck |-> {}]
    IN [name \in {{""}, {"ci"}} |->
            IF name = {""} THEN base
            ELSE [base EXCEPT !["testCases"] = {"five"}, !["printBlob"] = {"no"},
                              !["database"] = {"off"},
                              !["suppressHealthCheck"] = {"filter"}]]

TestSymmetry == Permutations(Tests)
=============================================================================
