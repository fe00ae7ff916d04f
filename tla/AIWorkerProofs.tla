--------------------------- MODULE AIWorkerProofs ---------------------------
(***************************************************************************)
(* Proofs about classifier processes, for any number of calls and whatever *)
(* the child does. That each call is given its own answer or an error is   *)
(* proved for children that write no line above the limit; for the others  *)
(* it does not hold.                                                       *)
(***************************************************************************)
EXTENDS AIWorker, TLAPS

Unchecked == Owning \ {"holding"}

\* How far a call is determines its reader and whether there is a child.
Consistent(c) ==
  /\ outcome[c] = "pending" <=> stage[c] # "returned"
  /\ stage[c] \in {"ready", "reading"} => process # Nothing
  /\ stage[c] = "reading" => reader[c] \in {"blocked"} \cup Results
  /\ stage[c] = "reaping" => process = Nothing /\ reader[c] \in {"orphaned"} \cup Results
  /\ stage[c] \notin {"reading", "reaping"} => reader[c] = "off"
  /\ isClosed => stage[c] \notin Unchecked

\* Who owns the worker took the token.
OneOwner ==
  /\ \A c, d \in Call : stage[c] \in Owning /\ stage[d] \in Owning => c = d
  /\ token <=> \A c \in Call : stage[c] \notin Owning

\* The inductive invariant of the pipes.
WorkerInv ==
  /\ WorkerTypeOK
  /\ OneOwner
  /\ \A c \in Call : Consistent(c)
  /\ isClosed => process = Nothing

LEMMA FreshIsChild == Fresh \in Child /\ Fresh # Nothing
<1>1. Fresh \in Child
  BY DEF Fresh, Child
<1> QED
  BY <1>1, CallAssumption

LEMMA InitWorkerInv == WorkerInit => WorkerInv
<1> SUFFICES ASSUME WorkerInit PROVE WorkerInv
  OBVIOUS
<1>1. WorkerTypeOK
  <2>1. process \in Child \cup {Nothing} /\ attempts \in 0 .. MaxAttempts
    BY FreshIsChild DEF WorkerInit, MaxAttempts
  <2>2. stage \in [Call -> {"idle", "queued", "returned"} \cup Owning]
    BY DEF WorkerInit
  <2>3. /\ reader \in [Call -> {"off", "blocked", "orphaned"} \cup Results]
        /\ outcome \in [Call -> Call \cup {"pending", "error"}]
    BY DEF WorkerInit
  <2>4. expired \in [Call -> BOOLEAN] /\ token \in BOOLEAN /\ isClosed \in BOOLEAN
    BY DEF WorkerInit
  <2> QED
    BY <2>1, <2>2, <2>3, <2>4 DEF WorkerTypeOK
<1> QED
  BY <1>1 DEF WorkerInit, WorkerInv, OneOwner, Consistent, Owning, Unchecked

\* The owner of the worker, or nobody, moves on; nobody else is touched.
LEMMA OwnerMoves ==
  ASSUME WorkerInv, NEW c \in Call, NEW s \in {"idle", "queued", "returned"} \cup Owning, To(c, s),
         s \in Owning => stage[c] \in Owning \/ token,
         stage[c] \in Owning \/ (s \in Owning /\ token) \/ s \notin Owning,
         token' = IF s \in Owning THEN FALSE ELSE IF stage[c] \in Owning THEN TRUE ELSE token
  PROVE  OneOwner'
<1>1. \A d \in Call : stage'[d] = IF d = c THEN s ELSE stage[d]
  BY DEF To, WorkerInv, WorkerTypeOK
<1>2. s \in Owning => \A d \in Call : stage[d] \in Owning => d = c
  BY DEF WorkerInv, OneOwner
<1>3. \A d, e \in Call : stage'[d] \in Owning /\ stage'[e] \in Owning => d = e
  BY <1>1, <1>2 DEF WorkerInv, OneOwner
<1>4. CASE s \in Owning
  BY <1>1, <1>3, <1>4 DEF OneOwner
<1>5. CASE s \notin Owning /\ stage[c] \in Owning
  <2>1. \A d \in Call : stage'[d] \notin Owning
    BY <1>1, <1>5 DEF WorkerInv, OneOwner
  <2> QED
    BY <1>3, <1>5, <2>1 DEF OneOwner
<1>6. CASE s \notin Owning /\ stage[c] \notin Owning
  <2>1. (\A d \in Call : stage'[d] \notin Owning) <=> (\A d \in Call : stage[d] \notin Owning)
    BY <1>1, <1>6
  <2> QED
    BY <1>3, <1>6, <2>1 DEF OneOwner, WorkerInv
<1> QED
  BY <1>4, <1>5, <1>6

LEMMA SubmitKeepsInv == ASSUME WorkerInv, NEW c \in Call, Submit(c) PROVE WorkerInv'
<1>1. WorkerTypeOK'
  BY DEF WorkerInv, WorkerTypeOK, Submit, To
<1>2. OneOwner'
  BY OwnerMoves DEF Submit, Owning
<1>3. \A d \in Call : Consistent(d)'
  BY DEF WorkerInv, WorkerTypeOK, Submit, To, Consistent, Unchecked, Owning
<1> QED
  BY <1>1, <1>2, <1>3 DEF WorkerInv, Submit

LEMMA ExpireKeepsInv == ASSUME WorkerInv, NEW c \in Call, Expire(c) PROVE WorkerInv'
BY DEF WorkerInv, WorkerTypeOK, Expire, OneOwner, Consistent, Unchecked, Owning

LEMMA LeaveQueueKeepsInv == ASSUME WorkerInv, NEW c \in Call, LeaveQueue(c) PROVE WorkerInv'
<1>1. WorkerTypeOK'
  BY DEF WorkerInv, WorkerTypeOK, LeaveQueue, To
<1>2. OneOwner'
  BY OwnerMoves DEF LeaveQueue, Owning
<1>3. \A d \in Call : Consistent(d)'
  BY CallAssumption DEF WorkerInv, WorkerTypeOK, LeaveQueue, To, Consistent, Unchecked, Owning
<1> QED
  BY <1>1, <1>2, <1>3 DEF WorkerInv, LeaveQueue

LEMMA TakeTokenKeepsInv == ASSUME WorkerInv, NEW c \in Call, TakeToken(c) PROVE WorkerInv'
<1>1. WorkerTypeOK'
  BY DEF WorkerInv, WorkerTypeOK, TakeToken, To, Owning
<1>2. OneOwner'
  BY OwnerMoves DEF TakeToken, Owning
<1>3. \A d \in Call : Consistent(d)'
  BY DEF WorkerInv, WorkerTypeOK, TakeToken, To, Consistent, Unchecked, Owning
<1> QED
  BY <1>1, <1>2, <1>3 DEF WorkerInv, TakeToken

LEMMA BeginKeepsInv == ASSUME WorkerInv, NEW c \in Call, Begin(c) PROVE WorkerInv'
<1>1. process' \in Child \cup {Nothing} /\ (process # Nothing => process' = process)
  BY FreshIsChild DEF WorkerInv, WorkerTypeOK, Begin, StartChild
<1>2. \/ Return(c, "error") /\ (process' = process \/ ~isClosed)
      \/ /\ To(c, "ready") /\ attempts' = 1 /\ outcome' = outcome /\ token' = token
         /\ process' # Nothing /\ ~isClosed
  BY DEF Begin
<1>3. stage[c] = "holding" /\ UNCHANGED <<expired, reader, isClosed>>
  BY DEF Begin
<1>4. WorkerTypeOK'
  <2>1. CASE Return(c, "error")
    BY <1>1, <1>3, <2>1 DEF WorkerInv, WorkerTypeOK, Return, To, MaxAttempts
  <2>2. CASE To(c, "ready") /\ attempts' = 1 /\ outcome' = outcome /\ token' = token
    BY <1>1, <1>3, <2>2 DEF WorkerInv, WorkerTypeOK, To, Owning, MaxAttempts
  <2> QED
    BY <1>2, <2>1, <2>2
<1>5. OneOwner'
  <2>1. token = FALSE
    BY <1>3 DEF WorkerInv, OneOwner, WorkerTypeOK, Owning
  <2> QED
    BY <1>2, <1>3, <2>1, OwnerMoves DEF Return, Owning
<1>6. \A d \in Call : d # c => stage[d] \notin Owning
  BY <1>3 DEF WorkerInv, OneOwner, Owning
<1>7. \A d \in Call : Consistent(d)'
  BY <1>2, <1>3, <1>6, CallAssumption
  DEF WorkerInv, WorkerTypeOK, Return, To, Consistent, Unchecked, Owning
<1> QED
  BY <1>2, <1>3, <1>4, <1>5, <1>7 DEF WorkerInv

LEMMA WriteRequestKeepsInv == ASSUME WorkerInv, NEW c \in Call, WriteRequest(c) PROVE WorkerInv'
<1>1. stage[c] = "ready" /\ process # Nothing /\ process \in Child
  BY DEF WorkerInv, WorkerTypeOK, Consistent, WriteRequest
<1>2. [process EXCEPT !.request = c] \in Child /\ [process EXCEPT !.request = c] # Nothing
  <2>1. [process EXCEPT !.request = c] \in Child
    BY <1>1 DEF Child
  <2> QED
    BY <2>1, CallAssumption
<1>3. \/ /\ To(c, "reading") /\ reader' = [reader EXCEPT ![c] = "blocked"]
         /\ process' = [process EXCEPT !.request = c]
      \/ To(c, "failed") /\ UNCHANGED <<process, reader>>
  BY DEF WriteRequest
<1>4. UNCHANGED <<expired, attempts, token, isClosed, outcome>>
  BY DEF WriteRequest
<1>5. process' \in Child /\ process' # Nothing
  BY <1>1, <1>2, <1>3
<1>6. WorkerTypeOK'
  BY <1>3, <1>4, <1>5 DEF WorkerInv, WorkerTypeOK, To, Owning
<1>7. OneOwner'
  <2>1. token = FALSE
    BY <1>1 DEF WorkerInv, OneOwner, WorkerTypeOK, Owning
  <2> QED
    BY <1>1, <1>3, <1>4, <2>1, OwnerMoves DEF Owning
<1>8. \A d \in Call : Consistent(d)'
  <2>1. \A d \in Call : d # c => stage[d] \notin Owning
    BY <1>1 DEF WorkerInv, OneOwner, Owning
  <2> QED
    BY <1>1, <1>3, <1>4, <1>5, <2>1 DEF WorkerInv, WorkerTypeOK, To, Consistent, Unchecked, Owning
<1> QED
  BY <1>1, <1>4, <1>6, <1>7, <1>8 DEF WorkerInv

LEMMA TakeResultKeepsInv == ASSUME WorkerInv, NEW c \in Call, TakeResult(c) PROVE WorkerInv'
<1>1. stage[c] = "reading" /\ process # Nothing /\ isClosed = FALSE
  BY DEF WorkerInv, WorkerTypeOK, Consistent, Unchecked, Owning, TakeResult
<1>2. /\ reader' = [reader EXCEPT ![c] = "off"] /\ UNCHANGED <<expired, process, isClosed>>
      /\ \/ reader[c] \in Call /\ Return(c, reader[c])
         \/ To(c, "failed") /\ UNCHANGED <<outcome, token, attempts>>
  BY DEF TakeResult
<1>3. WorkerTypeOK'
  <2>1. CASE reader[c] \in Call /\ Return(c, reader[c])
    BY <1>2, <2>1 DEF WorkerInv, WorkerTypeOK, Return, To, MaxAttempts
  <2>2. CASE To(c, "failed") /\ UNCHANGED <<outcome, token, attempts>>
    BY <1>2, <2>2 DEF WorkerInv, WorkerTypeOK, To, Owning
  <2> QED
    BY <1>2, <2>1, <2>2
<1>4. OneOwner'
  <2>1. token = FALSE
    BY <1>1 DEF WorkerInv, OneOwner, WorkerTypeOK, Owning
  <2> QED
    BY <1>1, <1>2, <2>1, OwnerMoves DEF Return, Owning
<1>5. \A d \in Call : Consistent(d)'
  <2>1. \A d \in Call : d # c => stage[d] \notin Owning
    BY <1>1 DEF WorkerInv, OneOwner, Owning
  <2>2. "pending" \notin Call
    BY CallAssumption
  <2> QED
    BY <1>1, <1>2, <2>1, <2>2 DEF WorkerInv, WorkerTypeOK, Return, To, Consistent, Unchecked, Owning
<1> QED
  BY <1>1, <1>2, <1>3, <1>4, <1>5 DEF WorkerInv

LEMMA GiveUpOnChildKeepsInv == ASSUME WorkerInv, NEW c \in Call, GiveUpOnChild(c) PROVE WorkerInv'
<1>1. /\ stage[c] = "reading" /\ To(c, "reaping") /\ process' = Nothing
      /\ UNCHANGED <<expired, attempts, token, isClosed, outcome>>
  BY DEF GiveUpOnChild
<1>2. \E r \in {"orphaned"} \cup Results : reader' = [reader EXCEPT ![c] = r]
  BY <1>1 DEF GiveUpOnChild, WorkerInv, Consistent
<1>3. WorkerTypeOK'
  BY <1>1, <1>2 DEF WorkerInv, WorkerTypeOK, To, Owning
<1>4. OneOwner'
  <2>1. token = FALSE
    BY <1>1 DEF WorkerInv, OneOwner, WorkerTypeOK, Owning
  <2> QED
    BY <1>1, <2>1, OwnerMoves DEF Owning
<1>5. \A d \in Call : Consistent(d)'
  <2>1. \A d \in Call : d # c => stage[d] \notin Owning
    BY <1>1 DEF WorkerInv, OneOwner, Owning
  <2> QED
    BY <1>1, <1>2, <2>1 DEF WorkerInv, WorkerTypeOK, To, Consistent, Unchecked, Owning
<1> QED
  BY <1>1, <1>3, <1>4, <1>5 DEF WorkerInv

LEMMA ReplaceChildKeepsInv == ASSUME WorkerInv, NEW c \in Call, ReplaceChild(c) PROVE WorkerInv'
<1>1. /\ stage[c] = "reaping" /\ Return(c, "error") /\ reader' = [reader EXCEPT ![c] = "off"]
      /\ UNCHANGED <<expired, isClosed>>
  BY DEF ReplaceChild
<1>2. process' \in Child \cup {Nothing} /\ isClosed = FALSE
  BY <1>1, FreshIsChild DEF ReplaceChild, StartChild, WorkerInv, WorkerTypeOK, Consistent, Unchecked, Owning
<1>3. WorkerTypeOK'
  BY <1>1, <1>2 DEF WorkerInv, WorkerTypeOK, Return, To, MaxAttempts
<1>4. OneOwner'
  BY <1>1, OwnerMoves DEF Return, Owning
<1>5. \A d \in Call : Consistent(d)'
  <2>1. \A d \in Call : d # c => stage[d] \notin Owning
    BY <1>1 DEF WorkerInv, OneOwner, Owning
  <2> QED
    BY <1>1, <1>2, <2>1, CallAssumption
    DEF WorkerInv, WorkerTypeOK, Return, To, Consistent, Unchecked, Owning
<1> QED
  BY <1>1, <1>2, <1>3, <1>4, <1>5 DEF WorkerInv

LEMMA RetryKeepsInv == ASSUME WorkerInv, NEW c \in Call, Retry(c) PROVE WorkerInv'
<1>1. stage[c] = "failed" /\ UNCHANGED <<expired, reader, isClosed>> /\ isClosed = FALSE
  BY DEF Retry, WorkerInv, WorkerTypeOK, Consistent, Unchecked, Owning
<1>2. process' \in Child \cup {Nothing}
  BY FreshIsChild DEF Retry, StartChild, WorkerInv, WorkerTypeOK
<1>3. \/ Return(c, "error")
      \/ /\ To(c, "ready") /\ attempts' = attempts + 1 /\ UNCHANGED <<outcome, token>>
         /\ process' # Nothing /\ attempts < MaxAttempts
  BY DEF Retry
<1>4. WorkerTypeOK'
  <2>1. CASE Return(c, "error")
    BY <1>1, <1>2, <2>1 DEF WorkerInv, WorkerTypeOK, Return, To, MaxAttempts
  <2>2. CASE /\ To(c, "ready") /\ attempts' = attempts + 1 /\ UNCHANGED <<outcome, token>>
             /\ attempts < MaxAttempts
    BY <1>1, <1>2, <2>2 DEF WorkerInv, WorkerTypeOK, To, Owning, MaxAttempts
  <2> QED
    BY <1>3, <2>1, <2>2
<1>5. OneOwner'
  <2>1. token = FALSE
    BY <1>1 DEF WorkerInv, OneOwner, WorkerTypeOK, Owning
  <2> QED
    BY <1>1, <1>3, <2>1, OwnerMoves DEF Return, Owning
<1>6. \A d \in Call : Consistent(d)'
  <2>1. \A d \in Call : d # c => stage[d] \notin Owning
    BY <1>1 DEF WorkerInv, OneOwner, Owning
  <2> QED
    BY <1>1, <1>3, <2>1, CallAssumption
    DEF WorkerInv, WorkerTypeOK, Return, To, Consistent, Unchecked, Owning
<1> QED
  BY <1>1, <1>4, <1>5, <1>6 DEF WorkerInv

LEMMA CloseWorkerKeepsInv == ASSUME WorkerInv, CloseWorker PROVE WorkerInv'
<1>1. \A c \in Call : stage[c] \notin Owning
  BY DEF WorkerInv, OneOwner, CloseWorker
<1> QED
  BY <1>1 DEF WorkerInv, WorkerTypeOK, CloseWorker, OneOwner, Consistent, Unchecked, Owning

\* Steps of the reader and of the child move nobody.
LEMMA PipesMove ==
  ASSUME WorkerInv, process # Nothing => process' \in Child, process = Nothing => process' = Nothing,
         reader' \in [Call -> {"off", "blocked", "orphaned"} \cup Results],
         \A c \in Call : reader'[c] # reader[c] =>
           reader[c] \in {"blocked", "orphaned"} /\ reader'[c] \in Results,
         UNCHANGED <<stage, expired, attempts, token, isClosed, outcome>>
  PROVE  WorkerInv'
<1>1. process' = Nothing <=> process = Nothing
  BY CallAssumption
<1>2. WorkerTypeOK'
  BY DEF WorkerInv, WorkerTypeOK
<1>3. OneOwner'
  BY DEF WorkerInv, OneOwner
<1>4. \A c \in Call : Consistent(c)'
  <2> SUFFICES ASSUME NEW c \in Call PROVE Consistent(c)'
    OBVIOUS
  <2>1. Consistent(c)
    BY DEF WorkerInv
  <2>2. reader'[c] = reader[c] \/ (reader[c] \in {"blocked", "orphaned"} /\ reader'[c] \in Results)
    OBVIOUS
  <2> QED
    BY <1>1, <2>1, <2>2 DEF Consistent
<1> QED
  BY <1>1, <1>2, <1>3, <1>4 DEF WorkerInv

LEMMA ReadLineKeepsInv == ASSUME WorkerInv, NEW c \in Call, ReadLine(c) PROVE WorkerInv'
<1>1. /\ reader[c] \in {"blocked", "orphaned"}
      /\ UNCHANGED <<stage, expired, attempts, token, isClosed, outcome>>
  BY DEF ReadLine
<1>2. CASE /\ process # Nothing /\ process.output # << >>
           /\ reader' = [reader EXCEPT ![c] = Head(process.output)]
           /\ \E rest \in {<< >>} \cup {r \in {<<"remainder">>} : Head(process.output) = "oversized"} :
                process' = [process EXCEPT !.output = rest \o Tail(@)]
  <2>1. process \in Child /\ process.output \in Seq(Lines)
    BY <1>2 DEF WorkerInv, WorkerTypeOK, Child
  <2>2. Head(process.output) \in Lines /\ Tail(process.output) \in Seq(Lines)
    BY <1>2, <2>1
  <2>3. PICK rest \in {<< >>, <<"remainder">>} : process' = [process EXCEPT !.output = rest \o Tail(@)]
    BY <1>2
  <2>4. rest \in Seq(Lines)
    <3>1. "remainder" \in Lines
      BY DEF Lines, Rubbish
    <3>2. <<"remainder">> \in Seq(Lines) /\ << >> \in Seq(Lines)
      BY <3>1
    <3> QED
      BY <2>3, <3>2
  <2>5. rest \o Tail(process.output) \in Seq(Lines)
    BY <2>2, <2>4
  <2>6. process' \in Child
    BY <2>1, <2>3, <2>5 DEF Child
  <2>7. Head(process.output) \in Results
    BY <2>2 DEF Results
  <2>8. reader' \in [Call -> {"off", "blocked", "orphaned"} \cup Results]
    BY <1>2, <2>7 DEF WorkerInv, WorkerTypeOK
  <2>9. \A d \in Call : reader'[d] # reader[d] => d = c /\ reader'[d] \in Results
    BY <1>2, <2>7 DEF WorkerInv, WorkerTypeOK
  <2> QED
    BY <1>1, <1>2, <2>6, <2>8, <2>9, PipesMove
<1>3. CASE reader' = [reader EXCEPT ![c] = "error"] /\ process' = process
  <2>1. \A d \in Call : reader'[d] # reader[d] => d = c /\ reader'[d] \in Results
    BY <1>3 DEF WorkerInv, WorkerTypeOK, Results
  <2>2. reader' \in [Call -> {"off", "blocked", "orphaned"} \cup Results]
    BY <1>3 DEF WorkerInv, WorkerTypeOK, Results
  <2>3. process # Nothing => process' \in Child
    BY <1>3 DEF WorkerInv, WorkerTypeOK
  <2> QED
    BY <1>1, <1>3, <2>1, <2>2, <2>3, PipesMove
<1> QED
  BY <1>2, <1>3 DEF ReadLine

LEMMA ChildKeepsInv == ASSUME WorkerInv, ChildWrites \/ ChildDies PROVE WorkerInv'
<1>1. /\ process # Nothing /\ process \in Child
      /\ UNCHANGED <<stage, expired, attempts, token, reader, isClosed, outcome>>
  BY DEF WorkerInv, WorkerTypeOK, ChildWrites, ChildDies
<1>2. process' \in Child
  <2>1. CASE ChildWrites
    <3>1. PICK line \in {process.request} \cup ChildFaults :
            process' = [process EXCEPT !.request = Nothing, !.output = Append(@, line)]
      BY <2>1 DEF ChildWrites
    <3>2. line \in Lines
      BY <1>1, <2>1, <3>1, CallAssumption DEF ChildWrites, Child, Lines, Rubbish
    <3>3. process.output \in Seq(Lines)
      BY <1>1 DEF Child
    <3>4. Append(process.output, line) \in Seq(Lines)
      BY <3>2, <3>3
    <3> QED
      BY <1>1, <3>1, <3>4 DEF Child
  <2>2. CASE ChildDies
    BY <1>1, <2>2 DEF ChildDies, Child
  <2> QED
    BY <2>1, <2>2
<1>3. reader' \in [Call -> {"off", "blocked", "orphaned"} \cup Results]
  BY <1>1 DEF WorkerInv, WorkerTypeOK
<1> QED
  BY <1>1, <1>2, <1>3, PipesMove

LEMMA NextWorkerInv == WorkerInv /\ [WorkerNext]_workerVars => WorkerInv'
<1> SUFFICES ASSUME WorkerInv, [WorkerNext]_workerVars PROVE WorkerInv'
  OBVIOUS
<1>1. CASE WorkerNext
  BY <1>1, SubmitKeepsInv, ExpireKeepsInv, LeaveQueueKeepsInv, TakeTokenKeepsInv, BeginKeepsInv,
     WriteRequestKeepsInv, TakeResultKeepsInv, GiveUpOnChildKeepsInv, ReplaceChildKeepsInv, RetryKeepsInv,
     CloseWorkerKeepsInv, ReadLineKeepsInv, ChildKeepsInv DEF WorkerNext, WorkerStep
<1>2. CASE UNCHANGED workerVars
  BY <1>2 DEF WorkerInv, WorkerTypeOK, OneOwner, Consistent, workerVars
<1> QED
  BY <1>1, <1>2

LEMMA InvImpliesOwned == WorkerInv => PipesOwned
<1> SUFFICES ASSUME WorkerInv PROVE PipesOwned
  OBVIOUS
<1>1. "orphaned" # "off" /\ \A c \in Call : reader[c] # "off" => stage[c] \in {"reading", "reaping"}
  BY DEF WorkerInv, Consistent
<1>2. "orphaned" \notin Results
  BY CallAssumption DEF Results, Lines, Rubbish
<1>3. process # Nothing => \A c \in Call : reader[c] # "orphaned"
  BY <1>1, <1>2 DEF WorkerInv, Consistent
<1> QED
  BY <1>1, <1>3 DEF PipesOwned, WorkerInv, OneOwner
-----------------------------------------------------------------------------
(* Nothing is in the pipe but what belongs to the call that reads.         *)

Empty == process = Nothing \/ (process.request = Nothing /\ process.output = << >>)

\* A call that reads: its line is with the child, the answer is on its way, or
\* the reader has it.
Answering(c) ==
  \/ /\ reader[c] = "blocked" /\ process.alive
     /\ process.request = c /\ process.output = << >>
  \/ /\ reader[c] = "blocked" /\ process.request = Nothing
     /\ process.output = << >> \/ \E line \in {c, "garbled"} : process.output = <<line>>
  \/ reader[c] \in {c, "garbled", "error"} /\ Empty

Clean ==
  /\ (\A c \in Call : stage[c] # "reading") => Empty
  /\ \A c \in Call : stage[c] = "reading" => Answering(c)

PromiseInv == WorkerInv /\ Clean

LEMMA InitClean == WorkerInit => Clean
BY DEF WorkerInit, Clean, Empty, Fresh

\* While one call owns the worker nobody else reads.
LEMMA OnlyOwnerReads ==
  ASSUME WorkerInv, NEW c \in Call, stage[c] \in Owning
  PROVE  \A d \in Call : d # c => stage[d] # "reading"
BY DEF WorkerInv, OneOwner, Owning

\* A call that does not read before or after a step leaves things clean if the
\* child is empty or as it was.
LEMMA NoReaderClean ==
  ASSUME PromiseInv, NEW c \in Call, NEW s, s # "reading", stage[c] # "reading", To(c, s),
         process' = process \/ (stage[c] \in Owning /\ Empty'), UNCHANGED reader
  PROVE  Clean'
<1>1. \A d \in Call : stage'[d] = IF d = c THEN s ELSE stage[d]
  BY DEF To, PromiseInv, WorkerInv, WorkerTypeOK
<1>2. \A d \in Call : stage'[d] = "reading" <=> stage[d] = "reading"
  BY <1>1
<1>3. CASE process' = process
  BY <1>2, <1>3 DEF PromiseInv, Clean, Empty, Answering
<1>4. CASE stage[c] \in Owning /\ Empty'
  <2>1. \A d \in Call : stage'[d] # "reading"
    BY <1>1, <1>4, OnlyOwnerReads DEF PromiseInv
  <2> QED
    BY <1>4, <2>1 DEF Clean
<1> QED
  BY <1>3, <1>4

LEMMA FreshIsEmpty == StartChild(process') => Empty'
BY DEF StartChild, Fresh, Empty

LEMMA CallerKeepsClean ==
  ASSUME PromiseInv, NEW c \in Call, Submit(c) \/ LeaveQueue(c) \/ TakeToken(c) \/ Begin(c) \/ Retry(c)
  PROVE  Clean'
<1>1. stage[c] \in {"idle", "queued", "holding", "failed"} /\ UNCHANGED reader
  BY DEF Submit, LeaveQueue, TakeToken, Begin, Retry
<1>2. \E s \in {"queued", "returned", "holding", "ready"} : To(c, s)
  BY DEF Submit, LeaveQueue, TakeToken, Begin, Retry, Return
<1>3. process' = process \/ (stage[c] \in Owning /\ Empty')
  BY FreshIsEmpty DEF Submit, LeaveQueue, TakeToken, Begin, Retry, Owning
<1> QED
  BY <1>1, <1>2, <1>3, NoReaderClean

LEMMA WriteRequestKeepsClean == ASSUME PromiseInv, NEW c \in Call, WriteRequest(c) PROVE Clean'
<1>1. stage[c] = "ready" /\ process # Nothing /\ process \in Child
  BY DEF PromiseInv, WorkerInv, WorkerTypeOK, Consistent, WriteRequest
<1>2. \A d \in Call : d # c => stage[d] # "reading"
  BY <1>1, OnlyOwnerReads DEF PromiseInv, Owning
<1>3. process.output = << >>
  BY <1>1, <1>2 DEF PromiseInv, Clean, Empty
<1>4. CASE process.alive
  <2>1. /\ process' = [process EXCEPT !.request = c] /\ reader' = [reader EXCEPT ![c] = "blocked"]
        /\ To(c, "reading")
    BY <1>4 DEF WriteRequest
  <2>2. process'.alive /\ process'.request = c /\ process'.output = << >>
    BY <1>1, <1>3, <1>4, <2>1 DEF Child
  <2>3. stage'[c] = "reading" /\ reader'[c] = "blocked" /\ \A d \in Call : d # c => stage'[d] # "reading"
    BY <1>2, <2>1 DEF To, PromiseInv, WorkerInv, WorkerTypeOK
  <2> QED
    BY <2>2, <2>3 DEF Clean, Answering
<1>5. CASE ~process.alive
  BY <1>1, <1>5, NoReaderClean DEF WriteRequest
<1> QED
  BY <1>4, <1>5

LEMMA TakeResultKeepsClean == ASSUME PromiseInv, NEW c \in Call, TakeResult(c) PROVE Clean'
<1>1. stage[c] = "reading" /\ reader[c] \in Results /\ process' = process
  BY DEF TakeResult
<1>2. "blocked" \notin Results
  BY CallAssumption DEF Results, Lines, Rubbish
<1>3. Empty
  BY <1>1, <1>2 DEF PromiseInv, Clean, Answering
<1>4. \A d \in Call : d # c => stage[d] # "reading"
  BY <1>1, OnlyOwnerReads DEF PromiseInv, Owning
<1>5. \A d \in Call : stage'[d] # "reading"
  BY <1>4 DEF TakeResult, Return, To, PromiseInv, WorkerInv, WorkerTypeOK
<1> QED
  BY <1>1, <1>3, <1>5 DEF Clean, Empty

LEMMA GivingUpKeepsClean ==
  ASSUME PromiseInv, NEW c \in Call, GiveUpOnChild(c) \/ ReplaceChild(c)
  PROVE  Clean'
<1>1. stage[c] \in {"reading", "reaping"} /\ \E s \in {"reaping", "returned"} : To(c, s)
  BY DEF GiveUpOnChild, ReplaceChild, Return
<1>2. Empty'
  BY FreshIsEmpty DEF GiveUpOnChild, ReplaceChild, Empty
<1>3. \A d \in Call : d # c => stage[d] # "reading"
  BY <1>1, OnlyOwnerReads DEF PromiseInv, Owning
<1>4. \A d \in Call : stage'[d] # "reading"
  BY <1>1, <1>3 DEF To, PromiseInv, WorkerInv, WorkerTypeOK
<1> QED
  BY <1>2, <1>4 DEF Clean

\* The reader takes the only line there is, and all of it.
LEMMA ReadLineKeepsClean == ASSUME PromiseInv, NEW c \in Call, ReadLine(c) PROVE Clean'
<1>1. UNCHANGED stage /\ reader[c] \in {"blocked", "orphaned"}
  BY DEF ReadLine
<1>2. CASE reader[c] = "orphaned"
  <2>1. stage[c] = "reaping" /\ process = Nothing
    <3>1. "orphaned" \notin {"off", "blocked"} \cup Results
      BY CallAssumption DEF Results, Lines, Rubbish
    <3> QED
      BY <1>2, <3>1 DEF PromiseInv, WorkerInv, Consistent
  <2>2. process' = process /\ \A d \in Call : stage'[d] # "reading"
    BY <1>1, <1>2, <2>1, OnlyOwnerReads DEF ReadLine, PromiseInv, Owning
  <2> QED
    BY <2>1, <2>2 DEF Clean, Empty
<1>3. CASE reader[c] = "blocked"
  <2>1. stage[c] = "reading" /\ process # Nothing /\ process \in Child
    <3>1. "blocked" \notin {"off", "orphaned"} \cup Results
      BY CallAssumption DEF Results, Lines, Rubbish
    <3> QED
      BY <1>3, <3>1 DEF PromiseInv, WorkerInv, WorkerTypeOK, Consistent
  <2>2. Answering(c)
    BY <2>1 DEF PromiseInv, Clean
  <2>3. \A d \in Call : d # c => stage[d] # "reading"
    BY <2>1, OnlyOwnerReads DEF PromiseInv, Owning
  <2>4. reader'[c] \in {c, "garbled", "error"} /\ Empty'
    <3>1. CASE process.output # << >>
      <4>1. PICK line \in {c, "garbled"} : process.output = <<line>> /\ process.request = Nothing
        BY <1>3, <2>2, <3>1, CallAssumption DEF Answering
      <4>2. line # "oversized"
        BY CallAssumption DEF Rubbish
      <4>3. Head(process.output) = line /\ Tail(process.output) = << >>
        BY <4>1
      <4>4. reader' = [reader EXCEPT ![c] = line]
            /\ process' = [process EXCEPT !.output = << >> \o Tail(process.output)]
        BY <1>3, <2>1, <3>1, <4>2, <4>3 DEF ReadLine
      <4>5. << >> \o Tail(process.output) = << >>
        BY <4>3
      <4> QED
        BY <2>1, <4>1, <4>4, <4>5 DEF Empty, Child, PromiseInv, WorkerInv, WorkerTypeOK
    <3>2. CASE process.output = << >>
      <4>1. reader' = [reader EXCEPT ![c] = "error"] /\ process' = process /\ ~process.alive
        BY <1>3, <3>2 DEF ReadLine
      <4>2. process.request = Nothing
        BY <1>3, <2>2, <4>1, CallAssumption DEF Answering, Rubbish
      <4> QED
        BY <3>2, <4>1, <4>2 DEF Empty, PromiseInv, WorkerInv, WorkerTypeOK
    <3> QED
      BY <3>1, <3>2
  <2> QED
    BY <1>1, <2>1, <2>3, <2>4 DEF Clean, Answering
<1> QED
  BY <1>1, <1>2, <1>3

\* The child has a line to work on only for the call that reads.
LEMMA ChildKeepsClean ==
  ASSUME PromiseInv, "oversized" \notin ChildFaults, ChildWrites \/ ChildDies
  PROVE  Clean'
<1>1. process # Nothing /\ process.alive /\ process \in Child /\ UNCHANGED <<stage, reader>>
  BY DEF PromiseInv, WorkerInv, WorkerTypeOK, ChildWrites, ChildDies
<1>2. CASE \A c \in Call : stage[c] # "reading"
  <2>1. process.request = Nothing /\ process.output = << >>
    BY <1>1, <1>2 DEF PromiseInv, Clean, Empty
  <2>2. ChildDies
    BY <2>1 DEF ChildWrites
  <2>3. Empty'
    BY <1>1, <2>1, <2>2 DEF Empty, ChildDies, Child
  <2> QED
    BY <1>1, <1>2, <2>3 DEF Clean
<1>3. ASSUME NEW c \in Call, stage[c] = "reading" PROVE Clean'
  <2>1. \A d \in Call : d # c => stage[d] # "reading"
    BY <1>3, OnlyOwnerReads DEF PromiseInv, Owning
  <2>2. Answering(c)
    BY <1>3 DEF PromiseInv, Clean
  <2>3. Answering(c)'
    <3>1. CASE ChildDies
      <4>1. process' = [process EXCEPT !.alive = FALSE, !.request = Nothing]
        BY <3>1 DEF ChildDies
      <4>2. process'.request = Nothing /\ process'.output = process.output
        BY <1>1, <4>1 DEF Child
      <4> QED
        BY <1>1, <2>2, <4>2 DEF Answering, Empty
    <3>2. CASE ChildWrites
      <4>1. process.request # Nothing
        BY <3>2 DEF ChildWrites
      <4>2. reader[c] = "blocked" /\ process.request = c /\ process.output = << >>
        BY <1>1, <2>2, <4>1 DEF Answering, Empty
      <4>3. PICK line \in {c} \cup ChildFaults :
              process' = [process EXCEPT !.request = Nothing, !.output = Append(@, line)]
        BY <3>2, <4>2 DEF ChildWrites
      <4>4. line \in {c, "garbled"}
        BY CallAssumption
      <4>5. process'.request = Nothing /\ process'.output = Append(process.output, line)
        BY <1>1, <4>3 DEF Child
      <4>6. process'.output = <<line>>
        BY <4>2, <4>5
      <4> QED
        BY <1>1, <4>2, <4>4, <4>5, <4>6 DEF Answering
    <3> QED
      BY <3>1, <3>2
  <2> QED
    BY <1>1, <1>3, <2>1, <2>3 DEF Clean
<1> QED
  BY <1>2, <1>3

LEMMA NextPromiseInv ==
  ASSUME "oversized" \notin ChildFaults
  PROVE  PromiseInv /\ [WorkerNext]_workerVars => PromiseInv'
<1> SUFFICES ASSUME PromiseInv, [WorkerNext]_workerVars PROVE Clean'
  BY NextWorkerInv DEF PromiseInv
<1>1. CASE \E c \in Call : Expire(c)
  BY <1>1 DEF Expire, PromiseInv, Clean, Empty, Answering
<1>2. CASE CloseWorker
  <2>1. \A c \in Call : stage'[c] # "reading"
    BY <1>2 DEF PromiseInv, WorkerInv, OneOwner, CloseWorker, Owning
  <2> QED
    BY <1>2, <2>1 DEF CloseWorker, Clean, Empty
<1>3. CASE WorkerNext
  BY <1>1, <1>2, <1>3, CallerKeepsClean, WriteRequestKeepsClean, TakeResultKeepsClean, GivingUpKeepsClean,
     ReadLineKeepsClean, ChildKeepsClean DEF WorkerNext, WorkerStep
<1>4. CASE UNCHANGED workerVars
  BY <1>4 DEF PromiseInv, Clean, Empty, Answering, workerVars
<1> QED
  BY <1>3, <1>4
-----------------------------------------------------------------------------
(* Each step of the worker is a step of its promise, or none.              *)

VerdictOf(c) ==
  IF outcome[c] = "pending" THEN IF stage[c] = "idle" THEN "unasked" ELSE "asked"
  ELSE IF outcome[c] = "error" THEN "error"
  ELSE IF outcome[c] = c THEN "own" ELSE "another's"

LEMMA VerdictIs == Verdict = [c \in Call |-> VerdictOf(c)] /\ Verdict' = [c \in Call |-> VerdictOf(c)']
BY DEF Verdict, VerdictOf

\* One call's verdict changes as the promise allows, and nobody else's.
LEMMA OneDecided ==
  ASSUME NEW c \in Call, NEW from, NEW to, VerdictOf(c) = from, VerdictOf(c)' = to,
         \A d \in Call : d # c => VerdictOf(d)' = VerdictOf(d)
  PROVE  Verdict[c] = from /\ Verdict' = [Verdict EXCEPT ![c] = to]
BY VerdictIs

LEMMA NoneDecided ==
  ASSUME \A d \in Call : VerdictOf(d)' = VerdictOf(d) PROVE Verdict' = Verdict
BY VerdictIs

LEMMA WorkerInitPromised == WorkerInit => Promise!Init
BY VerdictIs DEF WorkerInit, Promise!Init, VerdictOf

\* A call that got nothing yet returns with an error.
LEMMA ErrorPromised ==
  ASSUME PromiseInv, NEW c \in Call, stage[c] \notin {"idle", "returned"}, Return(c, "error"), UNCHANGED isClosed
  PROVE  Promise!Next
<1>1. VerdictOf(c) = "asked"
  BY DEF PromiseInv, WorkerInv, Consistent, VerdictOf
<1>2. VerdictOf(c)' = "error"
  BY DEF Return, PromiseInv, WorkerInv, WorkerTypeOK, VerdictOf
<1>3. \A d \in Call : d # c => VerdictOf(d)' = VerdictOf(d)
  BY DEF Return, To, PromiseInv, WorkerInv, WorkerTypeOK, VerdictOf
<1>4. Promise!Fail(c)
  BY <1>1, <1>2, <1>3, OneDecided DEF Promise!Fail, Promise!Decide
<1> QED
  BY <1>4 DEF Promise!Next

\* A call that is under way stays so.
LEMMA UnderWay ==
  ASSUME PromiseInv, NEW c \in Call, NEW s, stage[c] # "idle", s # "idle", To(c, s), UNCHANGED outcome
  PROVE  Verdict' = Verdict
<1>1. \A d \in Call : VerdictOf(d)' = VerdictOf(d)
  BY DEF To, PromiseInv, WorkerInv, WorkerTypeOK, VerdictOf
<1> QED
  BY <1>1, NoneDecided

LEMMA AnswerPromised == ASSUME PromiseInv, NEW c \in Call, TakeResult(c) PROVE Promise!Next \/ Verdict' = Verdict
<1>1. CASE reader[c] \in Call
  <2>1. stage[c] = "reading" /\ Return(c, reader[c]) /\ UNCHANGED isClosed
    BY <1>1 DEF TakeResult
  <2>2. reader[c] = c
    BY <1>1, <2>1, CallAssumption DEF PromiseInv, Clean, Answering, Rubbish
  <2>3. VerdictOf(c) = "asked" /\ isClosed = FALSE
    BY <2>1 DEF PromiseInv, WorkerInv, WorkerTypeOK, Consistent, VerdictOf, Unchecked, Owning
  <2>4. VerdictOf(c)' = "own"
    BY <2>1, <2>2, CallAssumption DEF Return, PromiseInv, WorkerInv, WorkerTypeOK, VerdictOf
  <2>5. \A d \in Call : d # c => VerdictOf(d)' = VerdictOf(d)
    BY <2>1 DEF Return, To, PromiseInv, WorkerInv, WorkerTypeOK, VerdictOf
  <2>6. Promise!Answer(c)
    BY <2>1, <2>3, <2>4, <2>5, OneDecided DEF Promise!Answer, Promise!Decide
  <2> QED
    BY <2>6 DEF Promise!Next
<1>2. CASE reader[c] \notin Call
  BY <1>2, UnderWay DEF TakeResult
<1> QED
  BY <1>1, <1>2

LEMMA StepPromised ==
  ASSUME PromiseInv, [WorkerNext]_workerVars
  PROVE  [Promise!Next]_<<Verdict, isClosed>>
<1>1. ASSUME NEW c \in Call, Submit(c) PROVE Promise!Next
  <2>1. VerdictOf(c) = "unasked" /\ VerdictOf(c)' = "asked"
    BY <1>1 DEF Submit, To, PromiseInv, WorkerInv, WorkerTypeOK, Consistent, VerdictOf
  <2>2. \A d \in Call : d # c => VerdictOf(d)' = VerdictOf(d)
    BY <1>1 DEF Submit, To, PromiseInv, WorkerInv, WorkerTypeOK, VerdictOf
  <2>3. Promise!Ask(c)
    BY <1>1, <2>1, <2>2, OneDecided DEF Promise!Ask, Promise!Decide, Submit
  <2> QED
    BY <2>3 DEF Promise!Next
<1>2. ASSUME NEW c \in Call, LeaveQueue(c) PROVE Promise!Next
  <2>1. VerdictOf(c) = "asked" /\ VerdictOf(c)' = "error"
    BY <1>2 DEF LeaveQueue, PromiseInv, WorkerInv, WorkerTypeOK, Consistent, VerdictOf
  <2>2. \A d \in Call : d # c => VerdictOf(d)' = VerdictOf(d)
    BY <1>2 DEF LeaveQueue, To, PromiseInv, WorkerInv, WorkerTypeOK, VerdictOf
  <2>3. Promise!Fail(c)
    BY <1>2, <2>1, <2>2, OneDecided DEF Promise!Fail, Promise!Decide, LeaveQueue
  <2> QED
    BY <2>3 DEF Promise!Next
<1>3. ASSUME NEW c \in Call, Begin(c) \/ ReplaceChild(c) \/ Retry(c)
      PROVE  Promise!Next \/ (Verdict' = Verdict /\ UNCHANGED isClosed)
  <2>1. stage[c] \notin {"idle", "returned"} /\ UNCHANGED isClosed
    BY <1>3 DEF Begin, ReplaceChild, Retry
  <2>2. Return(c, "error") \/ (To(c, "ready") /\ UNCHANGED outcome)
    BY <1>3 DEF Begin, ReplaceChild, Retry
  <2> QED
    BY <2>1, <2>2, ErrorPromised, UnderWay
<1>4. ASSUME NEW c \in Call, TakeToken(c) \/ WriteRequest(c) \/ GiveUpOnChild(c)
      PROVE  Verdict' = Verdict /\ UNCHANGED isClosed
  <2>1. /\ stage[c] # "idle" /\ UNCHANGED <<outcome, isClosed>>
        /\ To(c, "holding") \/ To(c, "reading") \/ To(c, "failed") \/ To(c, "reaping")
    BY <1>4 DEF TakeToken, WriteRequest, GiveUpOnChild
  <2> QED
    BY <2>1, UnderWay
<1>5. CASE CloseWorker
  <2>1. Verdict' = Verdict
    BY <1>5, NoneDecided DEF CloseWorker, VerdictOf
  <2> QED
    BY <1>5, <2>1 DEF CloseWorker, Promise!Next, Promise!Shut
<1>6. ASSUME UNCHANGED <<stage, outcome, isClosed>> PROVE Verdict' = Verdict /\ UNCHANGED isClosed
  BY <1>6, NoneDecided DEF VerdictOf
<1>7. \A c \in Call : TakeResult(c) => UNCHANGED isClosed
  BY DEF TakeResult
<1>8. CASE WorkerNext
  <2>1. CASE \E c \in Call : Expire(c) \/ ReadLine(c)
    BY <1>6, <2>1 DEF Expire, ReadLine
  <2>2. CASE ChildWrites \/ ChildDies
    BY <1>6, <2>2 DEF ChildWrites, ChildDies
  <2> QED
    BY <1>1, <1>2, <1>3, <1>4, <1>5, <1>7, <1>8, <2>1, <2>2, AnswerPromised DEF WorkerNext, WorkerStep
<1>9. CASE UNCHANGED workerVars
  BY <1>6, <1>9 DEF workerVars
<1> QED
  BY <1>8, <1>9
-----------------------------------------------------------------------------
\* Type correctness.
THEOREM WorkerTypes == WorkerSpec => []WorkerTypeOK
<1>1. WorkerInv => WorkerTypeOK
  BY DEF WorkerInv
<1> QED
  BY <1>1, InitWorkerInv, NextWorkerInv, PTL DEF WorkerSpec

\* aiworker.Worker lets one call at a time at the pipes of one child, waits for a
\* child's reader before it starts another, and leaves none behind when it closes,
\* whatever the child writes and whenever it dies.
THEOREM PipesStayOwned == WorkerSpec => []PipesOwned
BY InitWorkerInv, NextWorkerInv, InvImpliesOwned, PTL DEF WorkerSpec

\* Worker.Request returns the answer to its own line or an error, once, and only
\* an error after Close, as long as the child writes no line above the limit: the
\* worker implements WorkerPromise through timeouts, retries and deaths of its child.
THEOREM PromiseIsKept == ASSUME "oversized" \notin ChildFaults PROVE WorkerSpec => WorkerPromiseKept
<1>1. WorkerInit => PromiseInv
  BY InitWorkerInv, InitClean DEF PromiseInv
<1> QED
  BY <1>1, NextPromiseInv, WorkerInitPromised, StepPromised, PTL
  DEF WorkerSpec, WorkerPromiseKept, Promise!Spec, Promise!promiseVars
=============================================================================
