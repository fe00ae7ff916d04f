--------------------------- MODULE WorkerPromise ----------------------------
(***************************************************************************)
(* What a classifier process promises to those who call it: a call that    *)
(* was made is decided once, with the answer to this very call or with an  *)
(* error, and after Close nothing is answered any more.                    *)
(***************************************************************************)
CONSTANT Call

VARIABLES verdict, shut

promiseVars == <<verdict, shut>>

Init ==
  /\ verdict = [c \in Call |-> "unasked"]
  /\ shut = FALSE

Decide(c, from, to) ==
  /\ verdict[c] = from
  /\ verdict' = [verdict EXCEPT ![c] = to]
  /\ UNCHANGED shut

Ask(c) == Decide(c, "unasked", "asked")
Answer(c) == ~shut /\ Decide(c, "asked", "own")
Fail(c) == Decide(c, "asked", "error")
Shut == ~shut /\ shut' = TRUE /\ UNCHANGED verdict

Next == Shut \/ \E c \in Call : Ask(c) \/ Answer(c) \/ Fail(c)

Spec == Init /\ [][Next]_promiseVars
=============================================================================
