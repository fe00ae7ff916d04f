------------------------------ MODULE Exchange ------------------------------
(***************************************************************************)
(* What proxying promises about a request: it is sent to different         *)
(* upstreams one after the other, to more than one only if repeating it is *)
(* harmless, and never again once the client got the beginning of an       *)
(* answer; the answer comes from the upstream asked last, or is a page of  *)
(* the agent's own; there is at most one.                                  *)
(***************************************************************************)
CONSTANTS Request, Target, Harmless

VARIABLES
  sent,    \* upstreams each request was sent to
  at,      \* the last of them
  answer   \* where the client's answer comes from, if it has one

exchangeVars == <<sent, at, answer>>

Init ==
  /\ sent = [r \in Request |-> {}]
  /\ at \in [Request -> Target \cup {"nobody"}]
  /\ answer = [r \in Request |-> {}]

Send(r, t) ==
  /\ answer[r] = {}
  /\ t \notin sent[r] /\ (sent[r] # {} => r \in Harmless)
  /\ sent' = [sent EXCEPT ![r] = @ \cup {t}]
  /\ at' = [at EXCEPT ![r] = t]
  /\ UNCHANGED answer

Answer(r) ==
  /\ answer[r] = {} /\ sent[r] # {}
  /\ answer' = [answer EXCEPT ![r] = {at[r]}]
  /\ UNCHANGED <<sent, at>>

Page(r) ==
  /\ answer[r] = {}
  /\ answer' = [answer EXCEPT ![r] = {"page"}]
  /\ UNCHANGED <<sent, at>>

Next == \E r \in Request : (\E t \in Target : Send(r, t)) \/ Answer(r) \/ Page(r)

Spec == Init /\ [][Next]_exchangeVars
=============================================================================
