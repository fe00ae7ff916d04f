----------------------------- MODULE ConfigFeed -----------------------------
(***************************************************************************)
(* What the agent promises about its configuration, seen from outside: it  *)
(* accepts ever newer configurations, it serves an accepted one, and what  *)
(* it serves only moves forward. Being down interrupts the service; it     *)
(* resumes with the last configuration served or a newer accepted one      *)
(* (README.md:5, "continue serving the last known-good configuration").    *)
(***************************************************************************)
EXTENDS Naturals

VARIABLES
  accepted, \* version of the newest configuration accepted
  served,   \* version of the configuration served last
  up        \* are requests being served

feedVars == <<accepted, served, up>>

Init == accepted = 0 /\ served = 0 /\ up = FALSE

Accept ==
  /\ up
  /\ accepted' \in Nat /\ accepted' > accepted
  /\ UNCHANGED <<served, up>>

Advance ==
  /\ up
  /\ served' \in served .. accepted
  /\ UNCHANGED <<accepted, up>>

Stop ==
  /\ up /\ up' = FALSE
  /\ UNCHANGED <<accepted, served>>

Resume ==
  /\ ~up /\ up' = TRUE
  /\ served' \in served .. accepted
  /\ UNCHANGED accepted

Next == Accept \/ Advance \/ Stop \/ Resume

Spec == Init /\ [][Next]_feedVars
=============================================================================
