SPECIFICATION RunSpec
CONSTANTS
    Rules <- MCRules
    RuleGroup <- MCRuleGroup
    NumInvariants = 2
    AlwaysCheck <- MCAlwaysCheck
    MaxConcurrency = 3
    StepCount = 2
    MaxDraws = 2
    NoRule = "NoRule"
    Machines <- MCMachines
    OptionLists <- MCOptionLists
INVARIANTS
    TypeOK
    GroupsNeverOverlap
    InvariantsRunAlone
    HandlesFollowWorkers
    AlwaysCheckedAtJoins
    FailuresAccountedFor
    MachineAsAsked
PROPERTIES
    ImplementsRuleRounds
    Termination
