----------------------------- MODULE Workgroup -----------------------------
(***************************************************************************)
(* The error half of the `workgroup` of stateful.go: how Wait orders the   *)
(* errors that the workers of one round returned, which of them aborts the *)
(* test case and which are only logged.                                    *)
(*                                                                         *)
(* A result is a record [worker, kind].  The kind of an error is what the  *)
(* code can tell apart with errors.As and errors.Is: "user" is an          *)
(* *invocationError (a failed assertion or a captured panic), "assume" is  *)
(* E_ASSUME, "overrun" is E_STOP_TEST and "control" is everything else.    *)
(***************************************************************************)
EXTENDS Integers

ErrorKinds == {"control", "overrun", "assume", "user"}

Results == [worker : Nat, kind : ErrorKinds]

(* Faulty variant of Priority: a user failure hides a rejection.            *)
PriorityUserFirst == [control |-> 0, overrun |-> 1, assume |-> 3, user |-> 2]

(* Wait's local function priority.                                          *)
Priority == [control |-> 0, overrun |-> 1, assume |-> 2, user |-> 3]

(* The less function Wait sorts the results with. *)
Before(a, b) ==
    \/ Priority[a.kind] < Priority[b.kind]
    \/ Priority[a.kind] = Priority[b.kind] /\ a.worker < b.worker

(* errs[0]: the head of the sorted results.  A worker sends one result per  *)
(* round, so the order is total on the results of a round.                  *)
Selected(results) ==
    CHOOSE a \in results : \A b \in results \ {a} : Before(a, b)

(* The workers named by the "Dropped concurrent ..." lines: errs[1:], of    *)
(* which only the invocation errors are logged.                             *)
DroppedWorkers(results) ==
    {r.worker : r \in {q \in results \ {Selected(results)} : q.kind = "user"}}
=============================================================================
