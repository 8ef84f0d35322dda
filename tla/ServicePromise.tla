--------------------------- MODULE ServicePromise ---------------------------
(***************************************************************************)
(* What a service promises its application, without streams, routes,       *)
(* topics or failing commands: it starts in full or not at all, takes each *)
(* message at most once and one at a time, passes one verdict on it, and   *)
(* afterwards may reply, then report a failure or acknowledge a success;   *)
(* it closes between two messages, and the shutdown hook comes last, once. *)
(***************************************************************************)
EXTENDS Naturals

CONSTANTS Ids, NoMsg

VARIABLES
  stage,     \* "starting", "open", "closing", "done" or "failed"
  current,   \* the message in hand, or NoMsg
  verdict,   \* "new", "taken", "ok", "err" or "unrouted"
  answered,  \* messages whose reply was published
  reported,  \* messages whose failure was published
  acked,     \* messages acknowledged to their broker
  hook       \* "none", "armed" or "ran"

vars == <<stage, current, verdict, answered, reported, acked, hook>>

Init ==
  /\ stage = "starting"
  /\ current = NoMsg
  /\ verdict = [m \in Ids |-> "new"]
  /\ answered = {} /\ reported = {} /\ acked = {}
  /\ hook \in {"none", "armed"}

Move(from, to) == stage \in from /\ stage' = to

Open == Move({"starting"}, "open") /\ UNCHANGED <<current, verdict, answered, reported, acked, hook>>
Fail == Move({"starting"}, "failed") /\ UNCHANGED <<current, verdict, answered, reported, acked, hook>>

Close ==
  /\ Move({"starting", "open"}, "closing") /\ current = NoMsg
  /\ UNCHANGED <<current, verdict, answered, reported, acked, hook>>

RunHook ==
  /\ Move({"closing"}, "done")
  /\ hook' = IF hook = "armed" THEN "ran" ELSE hook
  /\ UNCHANGED <<current, verdict, answered, reported, acked>>

Take(m) ==
  /\ stage = "open" /\ current = NoMsg /\ verdict[m] = "new"
  /\ current' = m
  /\ verdict' = [verdict EXCEPT ![m] = "taken"]
  /\ UNCHANGED <<stage, answered, reported, acked, hook>>

InHand(m, verdicts) == stage = "open" /\ current = m /\ verdict[m] \in verdicts

Judge(m, v) ==
  /\ InHand(m, {"taken"})
  /\ verdict' = [verdict EXCEPT ![m] = v]
  /\ current' = IF v = "unrouted" THEN NoMsg ELSE m
  /\ UNCHANGED <<stage, answered, reported, acked, hook>>

Answer(m) ==
  /\ InHand(m, {"ok", "err"}) /\ m \notin reported
  /\ answered' = answered \cup {m}
  /\ UNCHANGED <<stage, current, verdict, reported, acked, hook>>

Report(m) ==
  /\ InHand(m, {"err"})
  /\ reported' = reported \cup {m}
  /\ UNCHANGED <<stage, current, verdict, answered, acked, hook>>

\* The service is done with a message; a success may be acknowledged by then.
Release(m) ==
  /\ InHand(m, {"ok", "err"})
  /\ acked' \in {acked} \cup {acked \cup {n \in {m} : verdict[m] = "ok"}}
  /\ current' = NoMsg
  /\ UNCHANGED <<stage, verdict, answered, reported, hook>>

Next ==
  \/ Open \/ Fail \/ Close \/ RunHook
  \/ \E m \in Ids :
       \/ Take(m) \/ Answer(m) \/ Report(m) \/ Release(m)
       \/ \E v \in {"ok", "err", "unrouted"} : Judge(m, v)

Spec == Init /\ [][Next]_vars

=============================================================================
