------------------------------- MODULE AgentRun -------------------------------
(***************************************************************************)
(* agent-service: a run of the shopping guide, from StartRun to its answer,*)
(* and the timelines that are read of it.                                  *)
(*                                                                         *)
(* A run alternates between turns of the model and calls of tools, each of *)
(* them a step: a row that is inserted RUNNING before the work and closed  *)
(* after it.  Nothing but the handler that inserted the rows ever closes   *)
(* them, so the order of its writes, and the context each is made under,   *)
(* is all there is against rows that stay RUNNING.                         *)
(*                                                                         *)
(* Two contexts bound a handler: the call's, which the server limits and   *)
(* the client may cancel, and the run's, derived from it.  Steps are       *)
(* written under the run's context, the run row under the call's.          *)
(*                                                                         *)
(* A write that is interrupted (its context ends, its connection breaks)   *)
(* is an error for the handler, but may still take effect: it is kept in   *)
(* late until the database has applied or dropped it.                      *)
(*                                                                         *)
(* External: the model, which may answer anything at any time, and the     *)
(* services behind the tools.  Left out: step_count, error codes and       *)
(* messages, and what prompts, arguments and results say.                  *)
(***************************************************************************)
EXTENDS Naturals, Sequences, FiniteSets, SharedNames

CONSTANTS
  Runs,            \* calls of StartRun
  Sessions,
  SessionOf,       \* the session_no of a call
  Answers,         \* final recommendations of the model, as sequences of items
  MaxCandidates,   \* maxFinalRecommendationCandidates, ten
  MaxSteps,
  RunTimeoutFirst, \* RunTimeout is shorter than what the server leaves of the call
  Readers          \* calls of GetRun, or of GetRunOps

Items == [sku : SKUs \cup {None}, rank : Nat, reason : {"empty", "given", "long"}]

\* What StartRun answers.
Replies == {"SUCCEEDED", "InvalidArgument", "FailedPrecondition", "DeadlineExceeded", "Internal"}

ASSUME AgentConstants ==
  /\ SessionOf \in [Runs -> Sessions]
  /\ Answers \subseteq Seq(Items)
  /\ MaxCandidates \in Nat \ {0}
  /\ MaxSteps \in Nat \ {0}
  /\ RunTimeoutFirst \in BOOLEAN
  /\ None \notin Runs \cup Replies

VARIABLES
  sessions,   \* agent_sessions, by session_no
  runs,       \* agent_runs.status; "none" until the row is committed
  steps,      \* agent_steps.status, by run and step_no
  recs,       \* recommendations: the SKUs of a run
  late,       \* interrupted writes the database may still apply
  ctx,        \* "live", or what ended first: "runTimeout", then "deadline" or "cancelled"
  pc,         \* the call a handler is in
  n,          \* stepCount
  err,        \* the error it is about to report
  final,      \* the model's output of this turn
  next,       \* the candidate Verify is at
  verified,   \* the snapshots it has collected
  answer,     \* what StartRun returned
  saleable,   \* product-service: the SKUs that GetCheckoutSKUs knows and calls saleable
  view,       \* a timeline being read, query by query
  broken,     \* runs one of whose connections broke
  offered     \* SKUs that have been saleable since a run was created

store == <<sessions, runs, steps, recs>>
local == <<n, err, final, next, verified>>
agentVars == <<store, late, ctx, pc, local, answer, saleable, view, broken, offered>>

StepNos == 1 .. MaxSteps
StepStatuses == {"none", "RUNNING", "SUCCEEDED", "FAILED", "TIMEOUT"}
RunStatuses == {"none", "RUNNING", "SUCCEEDED", "FAILED"}
Contexts == {"live", "runTimeout", "deadline", "cancelled"}

\* Errors, by what errorCodeFor and toStatus tell apart.  "store" is any other error.
Errors == {"INVALID_TOOL_ARGUMENT", "UNKNOWN_TOOL", "TOOL_FAILED", "DEPENDENCY_TIMEOUT",
           "DEADLINE_EXCEEDED", "SKU_UNAVAILABLE", "MAX_STEPS", "MODEL_FAILED",
           "INVALID_FINAL", "NO_VALID", "store"}

\* What a turn of the model comes to; "malformed" is JSON that does not decode.
NoOutput == [kind |-> "nothing", items |-> <<>>]

Outputs ==
  [kind : {"json"}, items : Answers] \cup
  [kind : {"malformed", "text", "tool", "nothing"}, items : {<<>>}]

Write == [run : Runs, op : {"create", "append", "step", "run"}, step : 0 .. MaxSteps,
          status : {"RUNNING", "SUCCEEDED", "FAILED", "TIMEOUT"}, skus : SUBSET SKUs]

Views == [run : Runs \cup {None}, at : {"idle", "steps", "recs", "shown"},
          status : RunStatuses, steps : [StepNos -> StepStatuses], recs : SUBSET SKUs]

Calls == {"create", "loop", "appendModel", "model", "markModel", "appendTool", "tool",
          "markTool", "failStep", "verify", "complete", "succeed", "fail"}

AgentTypeOK ==
  /\ sessions \subseteq Sessions
  /\ runs \in [Runs -> RunStatuses]
  /\ steps \in [Runs -> [StepNos -> StepStatuses]]
  /\ recs \in [Runs -> SUBSET SKUs]
  /\ late \subseteq Write
  /\ ctx \in [Runs -> Contexts]
  /\ pc \in [Runs -> Calls \cup {"idle", "done", "dead"}]
  /\ n \in [Runs -> 0 .. MaxSteps]
  /\ err \in [Runs -> Errors \cup {None}]
  /\ final \in [Runs -> Outputs]
  /\ next \in [Runs -> Nat]
  /\ verified \in [Runs -> SUBSET SKUs]
  /\ answer \in [Runs -> Replies \cup {None}]
  /\ saleable \subseteq SKUs
  /\ view \in [Readers -> Views]
  /\ broken \subseteq Runs
  /\ offered \in [Runs -> SUBSET SKUs]

NoView == [run |-> None, at |-> "idle", status |-> "none",
           steps |-> [i \in StepNos |-> "none"], recs |-> {}]

AgentInit ==
  /\ sessions = {}
  /\ runs = [r \in Runs |-> "none"]
  /\ steps = [r \in Runs |-> [i \in StepNos |-> "none"]]
  /\ recs = [r \in Runs |-> {}]
  /\ late = {}
  /\ ctx = [r \in Runs |-> "live"]
  /\ pc = [r \in Runs |-> "idle"]
  /\ n = [r \in Runs |-> 0]
  /\ err = [r \in Runs |-> None]
  /\ final = [r \in Runs |-> NoOutput]
  /\ next = [r \in Runs |-> 0]
  /\ verified = [r \in Runs |-> {}]
  /\ answer = [r \in Runs |-> None]
  /\ saleable = SKUs
  /\ view = [q \in Readers |-> NoView]
  /\ broken = {}
  /\ offered = [r \in Runs |-> {}]

--------------------------------------------------------------------------------
(* The database.                                                              *)

CreateWrite(r) == [run |-> r, op |-> "create", step |-> 0, status |-> "RUNNING", skus |-> {}]
AppendWrite(r) == [run |-> r, op |-> "append", step |-> n[r], status |-> "RUNNING", skus |-> {}]
StepWrite(r, s) == [run |-> r, op |-> "step", step |-> n[r], status |-> s, skus |-> {}]
RunWrite(r, s, K) == [run |-> r, op |-> "run", step |-> 0, status |-> s, skus |-> K]

\* The unique keys, the foreign key and the WHERE clauses, where requireOneRow looks.
Matches(w) ==
  CASE w.op = "create" -> SessionOf[w.run] \notin sessions /\ runs[w.run] = "none"
    [] w.op = "append" -> runs[w.run] # "none" /\ steps[w.run][w.step] = "none"
    [] w.op = "step" -> steps[w.run][w.step] = "RUNNING"
    [] w.op = "run" -> runs[w.run] = "RUNNING"

\* A write and, for CompleteRunWithRecommendations, the snapshots of its transaction.
Apply(w) ==
  /\ sessions' = IF w.op = "create" THEN sessions \cup {SessionOf[w.run]} ELSE sessions
  /\ runs' = IF w.op \in {"create", "run"} THEN [runs EXCEPT ![w.run] = w.status] ELSE runs
  /\ steps' = IF w.op \in {"append", "step"}
              THEN [steps EXCEPT ![w.run][w.step] = w.status] ELSE steps
  /\ recs' = IF w.op = "run" THEN [recs EXCEPT ![w.run] = w.skus] ELSE recs

\* Transactions hold the run's row lock until they have ended: AppendStepStarted updates
\* its step_count, the others its status.
RowLocked(r) == \E w \in late : w.run = r /\ w.op \in {"append", "run"}

RunLive(r) == ctx[r] = "live"
CallLive(r) == ctx[r] \in {"live", "runTimeout"}

\* What an ended context makes of a call.
ContextError(c) == IF c = "cancelled" THEN "store" ELSE "DEADLINE_EXCEEDED"

\* The contexts that may end while a write is made: steps are written under the run's own,
\* whose timeout leaves the call's alone.
MayEnd(w) ==
  {"deadline", "cancelled"} \cup
  {c \in {"runTimeout"} : RunTimeoutFirst /\ w.op \in {"append", "step"}}

\* A store call of r under a context that is live or not ...
Stored(r, live, w) ==
  /\ live
  /\ w.op = "run" => ~RowLocked(r)
  /\ Matches(w)
  /\ Apply(w)
  /\ UNCHANGED <<late, ctx, broken>>

\* ... finds its context ended, its row missing, or is interrupted.
NotStored(r, live, w, e) ==
  /\ \/ /\ ~live
        /\ e = ContextError(ctx[r])
        /\ UNCHANGED <<late, ctx, broken>>
     \/ /\ live
        /\ ~Matches(w)
        /\ e = "store"
        /\ UNCHANGED <<late, ctx, broken>>
     \/ /\ live
        /\ Matches(w)
        /\ late' = late \cup {w}
        /\ \/ /\ e = "store"
              /\ broken' = broken \cup {r}
              /\ UNCHANGED ctx
           \/ \E c \in MayEnd(w) :
                /\ e = ContextError(c)
                /\ ctx' = [ctx EXCEPT ![r] = c]
                /\ UNCHANGED broken
  /\ UNCHANGED store

\* The database ends an interrupted write one way or the other.
LateWrite(w) ==
  /\ late' = late \ {w}
  /\ IF Matches(w) THEN Apply(w) ELSE UNCHANGED store
  /\ UNCHANGED <<ctx, pc, local, answer, saleable, view, broken, offered>>

LateWriteDropped(w) ==
  /\ late' = late \ {w}
  /\ UNCHANGED <<store, ctx, pc, local, answer, saleable, view, broken, offered>>

--------------------------------------------------------------------------------
(* StartRun.                                                                  *)

Goto(r, p) == pc' = [pc EXCEPT ![r] = p]

\* toStatus; the server looks at the call's context first.
StatusOf(e) ==
  CASE e = "INVALID_TOOL_ARGUMENT" -> "InvalidArgument"
    [] e \in {"DEPENDENCY_TIMEOUT", "DEADLINE_EXCEEDED"} -> "DeadlineExceeded"
    [] e \in {"store", "SKU_UNAVAILABLE"} -> "Internal"
    [] OTHER -> "FailedPrecondition"

Answer(r, a) ==
  /\ answer' = [answer EXCEPT ![r] = a]
  /\ Goto(r, "done")

Refuse(r, e) == Answer(r, IF ctx'[r] = "deadline" THEN "DeadlineExceeded" ELSE StatusOf(e))

StartRun(r) ==
  /\ pc[r] = "idle"
  /\ Goto(r, "create")
  /\ UNCHANGED <<store, late, ctx, local, answer, saleable, view, broken, offered>>

CreateRun(r) ==
  /\ pc[r] = "create"
  /\ \/ /\ Stored(r, CallLive(r), CreateWrite(r))
        /\ offered' = [offered EXCEPT ![r] = saleable]
        /\ Goto(r, "loop")
        /\ UNCHANGED answer
     \/ \E e \in Errors :
          /\ NotStored(r, CallLive(r), CreateWrite(r), e)
          /\ Refuse(r, e)
          /\ UNCHANGED offered
  /\ UNCHANGED <<local, saleable, view>>

\* The top of the loop, and every other place that goes on to MarkRunFailed.
Fail(r, e) ==
  /\ err' = [err EXCEPT ![r] = e]
  /\ Goto(r, "fail")

\* Variants named ...Bug carry a slip such code invites; they show which property
\* notices it.  A step too many.
StepsExhaustedBug(r) == n[r] > MaxSteps

\* Steps are counted before they are taken; a tool step needs room of its own.
StepsExhausted(r) == n[r] >= MaxSteps

Loop(r) ==
  /\ pc[r] = "loop"
  /\ IF StepsExhausted(r)
     THEN Fail(r, "MAX_STEPS") /\ UNCHANGED n
     ELSE /\ n' = [n EXCEPT ![r] = @ + 1]
          /\ Goto(r, "appendModel")
          /\ UNCHANGED err
  /\ UNCHANGED <<store, late, ctx, final, next, verified, answer, saleable, view, broken,
                 offered>>

\* AppendStepStarted of a model or of a tool step.
AppendStepStarted(r) ==
  /\ pc[r] \in {"appendModel", "appendTool"}
  /\ \/ /\ Stored(r, RunLive(r), AppendWrite(r))
        /\ Goto(r, IF pc[r] = "appendModel" THEN "model" ELSE "tool")
        /\ UNCHANGED err
     \/ \E e \in Errors : NotStored(r, RunLive(r), AppendWrite(r), e) /\ Fail(r, e)
  /\ UNCHANGED <<n, final, next, verified, answer, saleable, view, offered>>

\* The model's turn: an error, a final output, a text, a tool call, or nothing at all.
ModelNext(r) ==
  /\ pc[r] = "model"
  /\ \/ \E out \in Outputs :
          /\ final' = [final EXCEPT ![r] = out]
          /\ Goto(r, "markModel")
          /\ UNCHANGED err
     \/ /\ err' = [err EXCEPT ![r] = "MODEL_FAILED"]
        /\ Goto(r, "failStep")
        /\ UNCHANGED final
  /\ UNCHANGED <<store, late, ctx, n, next, verified, answer, saleable, view, broken, offered>>

\* ParseFinalRecommendations: one to ten candidates with a reason each, no rank and no
\* SKU twice.
Acceptable(item) == item.sku # None /\ item.rank # 0 /\ item.reason = "given"

Parses(out) ==
  LET items == out.items IN
  /\ out.kind = "json"
  /\ Len(items) \in 1 .. MaxCandidates
  /\ \A i \in DOMAIN items : Acceptable(items[i])
  /\ \A i, j \in DOMAIN items :
       i # j => items[i].rank # items[j].rank /\ items[i].sku # items[j].sku

\* What the loop does with the model's output, once the step is closed.
Dispatch(r) ==
  \/ /\ final[r].kind \in {"json", "malformed"}
     /\ IF Parses(final[r])
        THEN /\ next' = [next EXCEPT ![r] = 1]
             /\ verified' = [verified EXCEPT ![r] = {}]
             /\ Goto(r, "verify")
             /\ UNCHANGED <<n, err>>
        ELSE Fail(r, "INVALID_FINAL") /\ UNCHANGED <<n, next, verified>>
  \/ /\ final[r].kind = "text"
     /\ Goto(r, "succeed")
     /\ UNCHANGED <<n, err, next, verified>>
  \/ /\ final[r].kind = "nothing"
     /\ Goto(r, "loop")
     /\ UNCHANGED <<n, err, next, verified>>
  \/ /\ final[r].kind = "tool"
     /\ IF StepsExhausted(r)
        THEN Fail(r, "MAX_STEPS") /\ UNCHANGED n
        ELSE n' = [n EXCEPT ![r] = @ + 1] /\ Goto(r, "appendTool") /\ UNCHANGED err
     /\ UNCHANGED <<next, verified>>

\* The error of closing a step is ignored, as it is when the step failed.
MarkModelStepSucceededBug(r) ==
  /\ pc[r] = "markModel"
  /\ Dispatch(r)
  /\ \/ Stored(r, RunLive(r), StepWrite(r, "SUCCEEDED"))
     \/ \E e \in Errors : NotStored(r, RunLive(r), StepWrite(r, "SUCCEEDED"), e)
  /\ UNCHANGED <<final, answer, saleable, view, offered>>

MarkModelStepSucceeded(r) ==
  /\ pc[r] = "markModel"
  /\ \/ Stored(r, RunLive(r), StepWrite(r, "SUCCEEDED")) /\ Dispatch(r)
     \/ \E e \in Errors :
          /\ NotStored(r, RunLive(r), StepWrite(r, "SUCCEEDED"), e)
          /\ Fail(r, e)
          /\ UNCHANGED <<n, next, verified>>
  /\ UNCHANGED <<final, answer, saleable, view, offered>>

\* What the clients make of a dependency's answer, and the executor of theirs.  "late" is
\* a deadline, of the call or of the dependency.
MapDependencyError(reply) ==
  CASE reply = "late" -> "DEPENDENCY_TIMEOUT"
    [] reply = "notFound" -> "SKU_UNAVAILABLE"
    [] OTHER -> "store"

MapToolDependencyError(e) ==
  CASE e = "DEADLINE_EXCEEDED" -> "DEPENDENCY_TIMEOUT"
    [] e \in {"UNKNOWN_TOOL", "INVALID_TOOL_ARGUMENT", "TOOL_FAILED"} -> e
    [] OTHER -> "TOOL_FAILED"

\* Validate refuses the call, or the executor calls a dependency.
ToolErrors(r) ==
  {"UNKNOWN_TOOL", "INVALID_TOOL_ARGUMENT"} \cup
  {MapToolDependencyError(MapDependencyError(reply)) :
     reply \in IF ctx[r] = "cancelled" THEN {"failed"} ELSE {"late", "notFound", "failed"}}

ExecuteTool(r) ==
  /\ pc[r] = "tool"
  /\ \/ RunLive(r) /\ Goto(r, "markTool") /\ UNCHANGED err
     \/ \E e \in ToolErrors(r) : err' = [err EXCEPT ![r] = e] /\ Goto(r, "failStep")
  /\ UNCHANGED <<store, late, ctx, n, final, next, verified, answer, saleable, view, broken,
                 offered>>

MarkToolStepSucceeded(r) ==
  /\ pc[r] = "markTool"
  /\ \/ /\ Stored(r, RunLive(r), StepWrite(r, "SUCCEEDED"))
        /\ Goto(r, "loop")
        /\ UNCHANGED err
     \/ \E e \in Errors :
          NotStored(r, RunLive(r), StepWrite(r, "SUCCEEDED"), e) /\ Fail(r, e)
  /\ UNCHANGED <<n, final, next, verified, answer, saleable, view, offered>>

\* markToolStepFailed, and its like in executeModelStep, ignore their error.
FailedStatus(e) ==
  IF e \in {"DEPENDENCY_TIMEOUT", "DEADLINE_EXCEEDED"} THEN "TIMEOUT" ELSE "FAILED"

MarkStepFailed(r) ==
  /\ pc[r] = "failStep"
  /\ \/ Stored(r, RunLive(r), StepWrite(r, FailedStatus(err[r])))
     \/ \E e \in Errors : NotStored(r, RunLive(r), StepWrite(r, FailedStatus(err[r])), e)
  /\ Goto(r, "fail")
  /\ UNCHANGED <<local, answer, saleable, view, offered>>

--------------------------------------------------------------------------------
(* Completion.                                                                *)

\* A call of GetCheckoutSKUs for one candidate.  Its own deadline ends Verify; a
\* dependency that says it was late, or fails, does so with another error.
Candidate(r) == final[r].items[next[r]].sku

SaleableBug(k) == TRUE

Saleable(k) == k \in saleable

Keep(r) ==
  IF Saleable(Candidate(r)) THEN verified[r] \cup {Candidate(r)} ELSE verified[r]

Verify(r) ==
  /\ pc[r] = "verify"
  /\ IF next[r] > Len(final[r].items)
     THEN /\ IF verified[r] = {} THEN Fail(r, "NO_VALID") ELSE Goto(r, "complete") /\ UNCHANGED err
          /\ UNCHANGED <<next, verified>>
     ELSE \/ /\ RunLive(r)
             /\ verified' = [verified EXCEPT ![r] = Keep(r)]
             /\ next' = [next EXCEPT ![r] = @ + 1]
             /\ UNCHANGED <<pc, err>>
          \/ \E e \in {"DEPENDENCY_TIMEOUT", "TOOL_FAILED"} :
               /\ Fail(r, e)
               /\ UNCHANGED <<next, verified>>
  /\ UNCHANGED <<store, late, ctx, n, final, answer, saleable, view, broken, offered>>

\* The snapshots and the status in one transaction; its error is returned and the run
\* left as it is.
CompleteRunBug(r) ==
  /\ pc[r] = "complete"
  /\ \/ Stored(r, CallLive(r), RunWrite(r, "SUCCEEDED", verified[r]))
     \/ \E e \in Errors : NotStored(r, CallLive(r), RunWrite(r, "SUCCEEDED", verified[r]), e)
  /\ Answer(r, "SUCCEEDED")
  /\ UNCHANGED <<local, saleable, view, offered>>

CompleteRunWithRecommendations(r) ==
  /\ pc[r] = "complete"
  /\ \/ /\ Stored(r, CallLive(r), RunWrite(r, "SUCCEEDED", verified[r]))
        /\ Answer(r, "SUCCEEDED")
     \/ \E e \in Errors :
          /\ NotStored(r, CallLive(r), RunWrite(r, "SUCCEEDED", verified[r]), e)
          /\ Refuse(r, e)
  /\ UNCHANGED <<local, saleable, view, offered>>

MarkRunSucceeded(r) ==
  /\ pc[r] = "succeed"
  /\ \/ /\ Stored(r, CallLive(r), RunWrite(r, "SUCCEEDED", {}))
        /\ Answer(r, "SUCCEEDED")
     \/ \E e \in Errors :
          NotStored(r, CallLive(r), RunWrite(r, "SUCCEEDED", {}), e) /\ Refuse(r, e)
  /\ UNCHANGED <<local, saleable, view, offered>>

\* The run is failed under the run's context, like its steps.
MarkRunFailedBug(r) ==
  /\ pc[r] = "fail"
  /\ \/ Stored(r, RunLive(r), RunWrite(r, "FAILED", {}))
     \/ \E e \in Errors : NotStored(r, RunLive(r), RunWrite(r, "FAILED", {}), e)
  /\ Refuse(r, err[r])
  /\ UNCHANGED <<local, saleable, view, offered>>

\* The error of MarkRunFailed is ignored.
MarkRunFailed(r) ==
  /\ pc[r] = "fail"
  /\ \/ Stored(r, CallLive(r), RunWrite(r, "FAILED", {}))
     \/ \E e \in Errors : NotStored(r, CallLive(r), RunWrite(r, "FAILED", {}), e)
  /\ Refuse(r, err[r])
  /\ UNCHANGED <<local, saleable, view, offered>>

--------------------------------------------------------------------------------
(* The surroundings of a handler.                                             *)

\* A deadline passes, or the client goes away, between two calls.
ContextEnds(r) ==
  /\ pc[r] \in Calls
  /\ \/ ctx[r] = "live" /\ RunTimeoutFirst /\ ctx' = [ctx EXCEPT ![r] = "runTimeout"]
     \/ CallLive(r) /\ \E c \in {"deadline", "cancelled"} : ctx' = [ctx EXCEPT ![r] = c]
  /\ UNCHANGED <<store, late, pc, local, answer, saleable, view, broken, offered>>

\* Another call, that the model does not follow, has created the session.
SessionTaken(s) ==
  /\ s \notin sessions
  /\ sessions' = sessions \cup {s}
  /\ UNCHANGED <<runs, steps, recs, late, ctx, pc, local, answer, saleable, view, broken,
                 offered>>

Crash(r) ==
  /\ pc[r] \in Calls
  /\ Goto(r, "dead")
  /\ UNCHANGED <<store, late, ctx, local, answer, saleable, view, broken, offered>>

\* product-service changes what it says of a SKU.
CatalogChanges(k) ==
  /\ saleable' = IF k \in saleable THEN saleable \ {k} ELSE saleable \cup {k}
  /\ offered' = [r \in Runs |-> IF runs[r] = "none" THEN {} ELSE offered[r] \cup saleable']
  /\ UNCHANGED <<store, late, ctx, pc, local, answer, view, broken>>

\* GetRunTimeline and GetRunOps read the run, its steps and its recommendations, each
\* with a query of its own.
ReadRun(q, r) ==
  /\ view[q].at \in {"idle", "shown"}
  /\ runs[r] # "none"
  /\ view' = [view EXCEPT ![q] = [NoView EXCEPT !.run = r, !.at = "steps", !.status = runs[r]]]
  /\ UNCHANGED <<store, late, ctx, pc, local, answer, saleable, broken, offered>>

ReadSteps(q) ==
  /\ view[q].at = "steps"
  /\ view' = [view EXCEPT ![q].at = "recs", ![q].steps = steps[view[q].run]]
  /\ UNCHANGED <<store, late, ctx, pc, local, answer, saleable, broken, offered>>

\* The run is read again at the end, to show its latest status.
ListRecommendationsBug(q) ==
  /\ view[q].at = "recs"
  /\ view' = [view EXCEPT ![q].at = "shown", ![q].recs = recs[view[q].run],
                          ![q].status = runs[view[q].run]]
  /\ UNCHANGED <<store, late, ctx, pc, local, answer, saleable, broken, offered>>

ListRecommendations(q) ==
  /\ view[q].at = "recs"
  /\ view' = [view EXCEPT ![q].at = "shown", ![q].recs = recs[view[q].run]]
  /\ UNCHANGED <<store, late, ctx, pc, local, answer, saleable, broken, offered>>

--------------------------------------------------------------------------------

Handler(r) ==
  \/ CreateRun(r)
  \/ Loop(r)
  \/ AppendStepStarted(r)
  \/ ModelNext(r)
  \/ MarkModelStepSucceeded(r)
  \/ ExecuteTool(r)
  \/ MarkToolStepSucceeded(r)
  \/ MarkStepFailed(r)
  \/ Verify(r)
  \/ CompleteRunWithRecommendations(r)
  \/ MarkRunSucceeded(r)
  \/ MarkRunFailed(r)

Reader(q) == (\E r \in Runs : ReadRun(q, r)) \/ ReadSteps(q) \/ ListRecommendations(q)

AgentNext ==
  \/ \E r \in Runs : StartRun(r) \/ Handler(r) \/ ContextEnds(r) \/ Crash(r)
  \/ \E w \in late : LateWrite(w) \/ LateWriteDropped(w)
  \/ \E k \in SKUs : CatalogChanges(k)
  \/ \E s \in Sessions : SessionTaken(s)
  \/ \E q \in Readers : Reader(q)

AgentSpec == AgentInit /\ [][AgentNext]_agentVars

--------------------------------------------------------------------------------
(* Properties                                                                *)

\* Steps are taken one after the other: there is a step only where every step before it
\* has SUCCEEDED, so the trace of a run is a prefix without gaps, whatever was
\* interrupted and applied late.
StepsInOrder ==
  \A r \in Runs, i, j \in StepNos :
    i < j /\ steps[r][j] # "none" => steps[r][i] = "SUCCEEDED"

\* ... and none of the steps of a run that is SUCCEEDED failed or is still RUNNING.
SucceededIsComplete ==
  \A r \in Runs : runs[r] = "SUCCEEDED" => \A i \in StepNos : steps[r][i] \in {"none", "SUCCEEDED"}

\* The trace of a run, as a whole: both of the above.
TraceComplete == StepsInOrder /\ SucceededIsComplete

\* What is recommended was proposed by the model and was saleable at some time during
\* the run, and is there only if the run SUCCEEDED: the model is never taken at its word.
RecommendationsVerified ==
  \A r \in Runs : recs[r] # {} =>
    /\ runs[r] = "SUCCEEDED"
    /\ recs[r] \subseteq offered[r]
    /\ \A k \in recs[r] : \E i \in DOMAIN final[r].items : final[r].items[i].sku = k

\* StartRun answers SUCCEEDED only for a run that is, and "agent run failed" or "invalid
\* request" only for one that is not and never will be.  (After an error of the database
\* or a deadline the run may be anything.)
RunAnswersTruthful ==
  \A r \in Runs :
    /\ answer[r] = "SUCCEEDED" => runs[r] = "SUCCEEDED"
    /\ answer[r] \in {"FailedPrecondition", "InvalidArgument"} => runs[r] # "SUCCEEDED"

\* A run is left RUNNING only when its call's context ended or a connection broke; as
\* long as the run's own timeout is not over either, its steps are closed too.
RunsAreClosed ==
  \A r \in Runs : pc[r] = "done" /\ r \notin broken =>
    /\ CallLive(r) => runs[r] # "RUNNING"
    /\ RunLive(r) => \A i \in StepNos : steps[r][i] # "RUNNING"

\* A timeline that shows a run as SUCCEEDED shows all its steps and recommendations,
\* although it is put together from three queries while the run goes on.
TimelineTruthful ==
  \A q \in Readers : view[q].at = "shown" /\ view[q].status = "SUCCEEDED" =>
    view[q].steps = steps[view[q].run] /\ view[q].recs = recs[view[q].run]

================================================================================
