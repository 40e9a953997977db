----------------------------- MODULE MachineRun -----------------------------
(***************************************************************************)
(* RunStateful: newStateMachine makes a machine of the user's methods and  *)
(* options, or an error with which RunStateful panics, and stateMachine.Run *)
(* drives it.                                                              *)
(*                                                                         *)
(* StatefulRun is the Run of one machine, the one that its constants       *)
(* describe; a call of RunStateful that makes another is not followed.     *)
(***************************************************************************)
EXTENDS StatefulRun

CONSTANTS
    Machines,    \* the methods that machines may have
    OptionLists  \* the options that calls of RunStateful may have

VARIABLE machine  \* what RunStateful is asked for and makes, until it is run

Config == INSTANCE MachineConfig

ASSUME MachinesAssumption ==
    /\ Machines \subseteq Seq(Config!AnyMethod)
    /\ OptionLists \subseteq Seq(Config!AnyOption)

Run == [at |-> "run"]
runVars == <<vars, machine>>

(* newStateMachine, and the panic of RunStateful.                           *)
Configure ==
    /\ machine.at = "asked"
    /\ LET made == Config!NewStateMachine(machine.methods, machine.options)
       IN /\ machine' = [at |-> "made", methods |-> machine.methods,
                         options |-> machine.options, made |-> made]
          /\ IF made.ok THEN UNCHANGED <<pc, outcome>> ELSE Abort(Failure("panic"))
    /\ UNCHANGED <<policy, concurrency, round, group, invariant, handle, workVars,
                   joinVars, checked, dropped>>

(* The machine of StatefulRun.                                              *)
Modelled(made) ==
    /\ made.rules = Rules /\ made.ruleGroups = RuleGroup
    /\ Len(made.invariants) = NumInvariants /\ made.alwaysCheck = AlwaysCheck
    /\ made.maxConcurrency = MaxConcurrency /\ made.stepCount = StepCount

StartRun ==
    /\ machine.at = "made" /\ machine.made.ok
    /\ Modelled(machine.made)
    /\ machine' = Run
    /\ UNCHANGED vars

NotFollowed == machine.at = "made" /\ machine.made.ok /\ ~Modelled(machine.made)

InRun(Action) == machine = Run /\ Action /\ UNCHANGED machine

RunNext ==
    \/ Configure
    \/ StartRun
    \/ InRun(MainStep)
    \/ \E w \in Workers : InRun(WorkerStep(w))
    \/ (Over \/ NotFollowed) /\ UNCHANGED runVars

RunInit ==
    /\ Init
    /\ machine \in [at : {"asked"}, methods : Machines, options : OptionLists]

RunSpec ==
    /\ RunInit
    /\ [][RunNext]_runVars
    /\ WF_runVars(Configure) /\ WF_runVars(StartRun)
    /\ WF_runVars(InRun(MainStep))
    /\ \A w \in Workers : WF_runVars(InRun(WorkerStep(w)))

-----------------------------------------------------------------------------
(* RunStateful refuses and makes what the comments on it and its options    *)
(* say, to the letter where they agree with each other and with the code.   *)
(* Where they do not (an overridden step count, two calls with one group    *)
(* name, a rule twice in one call) it is what the code makes of them: the   *)
(* last count, one group with the rules of all its calls, a panic.          *)
MachineAsAsked ==
    machine.at = "made" => Config!AsAsked(machine.methods, machine.options, machine.made)

(* RunStateful ends: no round waits for a result that nobody sends.         *)
Termination == <>(Over \/ NotFollowed)
=============================================================================
