---------------------------- MODULE EntryPromise ----------------------------
(***************************************************************************)
(* What a consumer-group route promises about each entry, without loops,   *)
(* buffers, commands or failures: an entry the group delivers is pending   *)
(* until a handler call succeeds or the delivery cap gives it up, settled  *)
(* from then on for good, and dead-lettered only when given up and settled.*)
(***************************************************************************)
EXTENDS Naturals

CONSTANTS Entries, HasCap

VARIABLES
  status,  \* "new", "pending" or "settled"
  ok,      \* entries some handler call succeeded for
  over,    \* entries given up by the delivery cap
  dead     \* dead letters written for an entry

vars == <<status, ok, over, dead>>

Init ==
  /\ status = [e \in Entries |-> "new"]
  /\ ok = {}
  /\ over = {}
  /\ dead = [e \in Entries |-> 0]

Hand(E) ==
  /\ \A e \in E : status[e] = "new"
  /\ status' = [e \in Entries |-> IF e \in E THEN "pending" ELSE status[e]]
  /\ UNCHANGED <<ok, over, dead>>

Succeed(e) ==
  /\ status[e] # "new"
  /\ ok' = ok \cup {e}
  /\ UNCHANGED <<status, over, dead>>

GiveUp(e) ==
  /\ HasCap
  /\ status[e] # "new"
  /\ over' = over \cup {e}
  /\ UNCHANGED <<status, ok, dead>>

Settle(e) ==
  /\ status[e] = "pending"
  /\ e \in ok \cup over
  /\ status' = [status EXCEPT ![e] = "settled"]
  /\ UNCHANGED <<ok, over, dead>>

DeadLetter(e) ==
  /\ status[e] = "settled"
  /\ e \in over
  /\ dead' = [dead EXCEPT ![e] = @ + 1]
  /\ UNCHANGED <<status, ok, over>>

Next ==
  \/ \E E \in SUBSET Entries : Hand(E)
  \/ \E e \in Entries : Succeed(e) \/ GiveUp(e) \/ Settle(e) \/ DeadLetter(e)

Spec == Init /\ [][Next]_vars

=============================================================================
