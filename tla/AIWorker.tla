------------------------------ MODULE AIWorker ------------------------------
(***************************************************************************)
(* aiworker.Worker: calls of a classifier, one at a time, over the pipes   *)
(* of one child process that may die, stay silent or write rubbish.        *)
(*                                                                         *)
(* Whoever has taken the token owns the worker's fields. Each action is    *)
(* one channel operation or what the owner does up to the next point where *)
(* the child, a reader or a context can come in between. The reader is the *)
(* goroutine of requestOnceLocked; it goes on reading when its call has    *)
(* stopped listening. A call is a valid one: Request refuses an empty, too *)
(* long or multi-line one before anything else happens.                    *)
(***************************************************************************)
EXTENDS Naturals, Sequences

CONSTANTS
  Call,
  Nothing,     \* cmd = nil; no request in the child's hands
  ChildFaults  \* which lines that are no answers the child may write

\* Request tries at most twice.
MaxAttempts == 2

\* What a child can write that is no answer: a line that does not decode, a
\* line that is too long, and what is left of one in the reader's buffer.
Rubbish == {"garbled", "oversized", "remainder"}
Lines == Call \cup Rubbish

\* The child: the line it works on, and what is in the pipe behind it and in the
\* buffer of the worker's reader.
Child == [alive : BOOLEAN, request : Call \cup {Nothing}, output : Seq(Lines)]

ASSUME CallAssumption ==
  /\ Nothing \notin Call \cup Child
  /\ ({"error", "pending", "off", "blocked", "orphaned"} \cup Rubbish) \cap Call = {}
  /\ ChildFaults \subseteq {"garbled", "oversized"}

VARIABLES
  stage,     \* where each call is
  expired,   \* its context: requestCtx.Err() # nil
  attempts,  \* attempts begun by the call that owns the worker
  token,     \* is the token in its channel
  process,   \* the child, or Nothing
  reader,    \* per call: its reader, or the result that waits in its channel
  isClosed,  \* Worker.closed
  outcome    \* what each call returned

workerVars == <<stage, expired, attempts, token, process, reader, isClosed, outcome>>

Owning == {"holding", "ready", "reading", "failed", "reaping"}
Results == Lines \cup {"error"}

WorkerTypeOK ==
  /\ stage \in [Call -> {"idle", "queued", "returned"} \cup Owning]
  /\ expired \in [Call -> BOOLEAN]
  /\ attempts \in 0 .. MaxAttempts
  /\ token \in BOOLEAN /\ isClosed \in BOOLEAN
  /\ process \in Child \cup {Nothing}
  /\ reader \in [Call -> {"off", "blocked", "orphaned"} \cup Results]
  /\ outcome \in [Call -> Call \cup {"pending", "error"}]

Fresh == [alive |-> TRUE, request |-> Nothing, output |-> << >>]

\* New has started the child.
WorkerInit ==
  /\ stage = [c \in Call |-> "idle"]
  /\ expired = [c \in Call |-> FALSE]
  /\ attempts = 0
  /\ token = TRUE
  /\ process = Fresh
  /\ reader = [c \in Call |-> "off"]
  /\ isClosed = FALSE
  /\ outcome = [c \in Call |-> "pending"]

To(c, s) == stage' = [stage EXCEPT ![c] = s]

\* The deferred release, on every way out of a call that got the token.
Return(c, result) ==
  /\ To(c, "returned")
  /\ outcome' = [outcome EXCEPT ![c] = result]
  /\ token' = TRUE
  /\ attempts' = 0
-----------------------------------------------------------------------------
(* The caller.                                                             *)

Submit(c) ==
  /\ stage[c] = "idle"
  /\ To(c, "queued")
  /\ UNCHANGED <<expired, attempts, token, process, reader, isClosed, outcome>>

\* The deadline passes, or the caller's own context ends.
Expire(c) ==
  /\ stage[c] \notin {"idle", "returned"}
  /\ ~expired[c]
  /\ expired' = [expired EXCEPT ![c] = TRUE]
  /\ UNCHANGED <<stage, attempts, token, process, reader, isClosed, outcome>>

\* acquire's select: the context ...
LeaveQueue(c) ==
  /\ stage[c] = "queued" /\ expired[c]
  /\ To(c, "returned")
  /\ outcome' = [outcome EXCEPT ![c] = "error"]
  /\ UNCHANGED <<expired, attempts, token, process, reader, isClosed>>

\* ... or the token, also when both are there.
TakeToken(c) ==
  /\ stage[c] = "queued" /\ token
  /\ token' = FALSE
  /\ To(c, "holding")
  /\ UNCHANGED <<expired, attempts, process, reader, isClosed, outcome>>

\* startLocked: the child starts, or the operating system refuses.
StartChild(p) == p = Fresh \/ p = Nothing

\* Request, with the token, up to its first attempt.
Begin(c) ==
  /\ stage[c] = "holding"
  /\ \/ /\ expired[c] \/ isClosed
        /\ Return(c, "error")
        /\ UNCHANGED process
     \/ /\ ~expired[c] /\ ~isClosed
        /\ IF process # Nothing THEN UNCHANGED process ELSE StartChild(process')
        /\ IF process' = Nothing THEN Return(c, "error")
                                 ELSE To(c, "ready") /\ attempts' = 1 /\ UNCHANGED <<outcome, token>>
  /\ UNCHANGED <<expired, reader, isClosed>>

\* requestOnceLocked writes the line and starts the reader; a pipe nobody
\* reads from fails the attempt.
WriteRequest(c) ==
  /\ stage[c] = "ready"
  /\ IF process.alive
     THEN /\ process' = [process EXCEPT !.request = c]
          /\ reader' = [reader EXCEPT ![c] = "blocked"]
          /\ To(c, "reading")
     ELSE To(c, "failed") /\ UNCHANGED <<process, reader>>
  /\ UNCHANGED <<expired, attempts, token, isClosed, outcome>>

\* Its select: the reader's result ...
TakeResult(c) ==
  /\ stage[c] = "reading" /\ reader[c] \in Results
  /\ reader' = [reader EXCEPT ![c] = "off"]
  /\ IF reader[c] \in Call THEN Return(c, reader[c])
                           ELSE To(c, "failed") /\ UNCHANGED <<outcome, token, attempts>>
  /\ UNCHANGED <<expired, process, isClosed>>

\* Mutant: the child is left running when its call times out.
GiveUpOnChildKept(c) ==
  /\ stage[c] = "reading" /\ expired[c]
  /\ Return(c, "error")
  /\ UNCHANGED <<expired, process, reader, isClosed>>

\* Mutant: the reader is waited for before the child is killed.
GiveUpOnChildLater(c) ==
  /\ stage[c] = "reading" /\ expired[c]
  /\ To(c, "reaping")
  /\ UNCHANGED <<expired, attempts, token, process, reader, isClosed, outcome>>

\* ... or the context: the child is killed and waited for ...
GiveUpOnChild(c) ==
  /\ stage[c] = "reading" /\ expired[c]
  /\ process' = Nothing
  /\ reader' = [reader EXCEPT ![c] = IF @ = "blocked" THEN "orphaned" ELSE @]
  /\ To(c, "reaping")
  /\ UNCHANGED <<expired, attempts, token, isClosed, outcome>>

\* Mutant: nobody waits for the old reader.
ReplaceChildAtOnce(c) ==
  /\ stage[c] = "reaping"
  /\ StartChild(process')
  /\ Return(c, "error")
  /\ UNCHANGED <<expired, reader, isClosed>>

\* ... the reader has to end, and only then there is a new child.
ReplaceChild(c) ==
  /\ stage[c] = "reaping" /\ reader[c] \in Results
  /\ reader' = [reader EXCEPT ![c] = "off"]
  /\ StartChild(process')
  /\ Return(c, "error")
  /\ UNCHANGED <<expired, isClosed>>

\* Mutant: attempts are not counted.
RetryForEver(c) ==
  /\ stage[c] = "failed"
  /\ \/ /\ expired[c]
        /\ Return(c, "error")
        /\ UNCHANGED process
     \/ /\ ~expired[c]
        /\ StartChild(process')
        /\ \/ Return(c, "error")
           \/ /\ process' # Nothing
              /\ To(c, "ready") /\ attempts' = attempts + 1 /\ UNCHANGED <<outcome, token>>
  /\ UNCHANGED <<expired, reader, isClosed>>

\* Request after a failed attempt: it gives up when its context has ended,
\* and leaves the child as it is; otherwise the child is restarted. It tries again
\* if it has an attempt left, a new child, and the old one was stopped without an
\* error, which may happen although the new one runs.
Retry(c) ==
  /\ stage[c] = "failed"
  /\ \/ /\ expired[c]
        /\ Return(c, "error")
        /\ UNCHANGED process
     \/ /\ ~expired[c]
        /\ StartChild(process')
        /\ \/ Return(c, "error")
           \/ /\ process' # Nothing /\ attempts < MaxAttempts
              /\ To(c, "ready") /\ attempts' = attempts + 1 /\ UNCHANGED <<outcome, token>>
  /\ UNCHANGED <<expired, reader, isClosed>>

\* Close waits for the token, kills the child and gives the token back.
CloseWorker ==
  /\ token /\ ~isClosed
  /\ isClosed' = TRUE
  /\ process' = Nothing
  /\ UNCHANGED <<stage, expired, attempts, token, reader, outcome>>
-----------------------------------------------------------------------------
(* The reader and the child.                                               *)

\* readLine: a whole line, one that is too long up to its end or up to where
\* the limit was found to be exceeded, or the end of the pipe. A reader whose child was killed gets an error.
ReadLine(c) ==
  /\ \/ /\ reader[c] = "blocked" /\ process # Nothing /\ process.output # << >>
        /\ LET line == Head(process.output) IN
             /\ reader' = [reader EXCEPT ![c] = line]
             /\ \E rest \in {<< >>} \cup {r \in {<<"remainder">>} : line = "oversized"} :
                  process' = [process EXCEPT !.output = rest \o Tail(@)]
     \/ /\ \/ reader[c] = "orphaned"
           \/ reader[c] = "blocked" /\ process # Nothing /\ ~process.alive /\ process.output = << >>
        /\ reader' = [reader EXCEPT ![c] = "error"]
        /\ UNCHANGED process
  /\ UNCHANGED <<stage, expired, attempts, token, isClosed, outcome>>

\* write_response: one line for a request line, if there is one at all.
ChildWrites ==
  /\ process # Nothing /\ process.alive /\ process.request # Nothing
  /\ \E line \in {process.request} \cup ChildFaults :
       process' = [process EXCEPT !.request = Nothing, !.output = Append(@, line)]
  /\ UNCHANGED <<stage, expired, attempts, token, reader, isClosed, outcome>>

ChildDies ==
  /\ process # Nothing /\ process.alive
  /\ process' = [process EXCEPT !.alive = FALSE, !.request = Nothing]
  /\ UNCHANGED <<stage, expired, attempts, token, reader, isClosed, outcome>>
-----------------------------------------------------------------------------
WorkerStep(c) ==
  \/ LeaveQueue(c) \/ TakeToken(c) \/ Begin(c) \/ WriteRequest(c)
  \/ TakeResult(c) \/ GiveUpOnChild(c) \/ ReplaceChild(c) \/ Retry(c)

WorkerNext ==
  \/ \E c \in Call : Submit(c) \/ Expire(c) \/ WorkerStep(c) \/ ReadLine(c)
  \/ CloseWorker \/ ChildWrites \/ ChildDies

\* Goroutines run and deadlines pass. The child owes nothing.
WorkerFairness ==
  \A c \in Call :
    WF_workerVars(WorkerStep(c)) /\ WF_workerVars(Expire(c)) /\ WF_workerVars(ReadLine(c))

WorkerSpec == WorkerInit /\ [][WorkerNext]_workerVars /\ WorkerFairness
-----------------------------------------------------------------------------
(* Properties.                                                             *)

\* The pipes have one user: one call owns the worker, nobody reads for a call
\* that does not, at most one reader is on the child's pipe, a child is never
\* there together with a reader of its predecessor, and once the worker is
\* closed no child is left behind.
PipesOwned ==
  /\ \A c, d \in Call : stage[c] \in Owning /\ stage[d] \in Owning => c = d
  /\ token <=> \A c \in Call : stage[c] \notin Owning
  /\ \A c \in Call : reader[c] # "off" => stage[c] \in {"reading", "reaping"}
  /\ process # Nothing => \A c \in Call : reader[c] # "orphaned"
  /\ isClosed => process = Nothing

Verdict == [c \in Call |->
  IF outcome[c] = "pending" THEN IF stage[c] = "idle" THEN "unasked" ELSE "asked"
  ELSE IF outcome[c] = "error" THEN "error"
  ELSE IF outcome[c] = c THEN "own" ELSE "another's"]

Promise == INSTANCE WorkerPromise WITH verdict <- Verdict, shut <- isClosed

\* No call is given another call's answer, not even after timeouts, crashes
\* and answers that came too late; and Close is final. An answer that is longer
\* than the limit can break the promise: a call that fails on it gives up
\* without a restart if its context has ended, the next call takes the rest of
\* the line for its answer and may give up in the same way, and the one after
\* that reads what was meant for the second.
WorkerPromiseKept == Promise!Spec

\* Whatever the child does, every call returns.
EveryCallReturns == \A c \in Call : stage[c] = "queued" ~> stage[c] = "returned"
=============================================================================
