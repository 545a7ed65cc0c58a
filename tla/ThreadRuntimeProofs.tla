------------------------ MODULE ThreadRuntimeProofs ------------------------
(***************************************************************************)
(* TypeOK, OneJob, and what is promised of turns and their subagents, all  *)
(* proved of ThreadRuntime for every set of threads and subagents, every   *)
(* queue limit and every bound; in three parts, each with its invariant.   *)
(*                                                                         *)
(* ThreadType has 19 fields, too many for a solver to follow several       *)
(* updates of a record at once.  So `Setters` says once that changing one  *)
(* field keeps the type, each operator gets a lemma that builds its new    *)
(* record field by field, and each action cites the lemmas of the          *)
(* operators it is made of.                                                *)
(***************************************************************************)
EXTENDS ThreadRuntime, TLAPS

\* What `threads_` can be.
Threads == [Thread -> ThreadType]

\* Changing one field to a value of its type keeps the type of the record.
LEMMA Setters ==
  ASSUME NEW r \in ThreadType
  PROVE  /\ \A v \in BOOLEAN : [r EXCEPT !.open = v] \in ThreadType
         /\ \A v \in BOOLEAN : [r EXCEPT !.streaming = v] \in ThreadType
         /\ \A v \in BOOLEAN : [r EXCEPT !.stop = v] \in ThreadType
         /\ \A v \in BOOLEAN : [r EXCEPT !.failure = v] \in ThreadType
         /\ \A v \in BOOLEAN : [r EXCEPT !.claude = v] \in ThreadType
         /\ \A v \in BOOLEAN : [r EXCEPT !.compacting = v] \in ThreadType
         /\ \A v \in BOOLEAN : [r EXCEPT !.forced = v] \in ThreadType
         /\ \A v \in BOOLEAN : [r EXCEPT !.resumed = v] \in ThreadType
         /\ \A v \in BOOLEAN : [r EXCEPT !.fresh = v] \in ThreadType
         /\ \A v \in Top \cup {NoThread} : [r EXCEPT !.parent = v] \in ThreadType
         /\ \A v \in Nat : [r EXCEPT !.gen = v] \in ThreadType
         /\ \A v \in Nat : [r EXCEPT !.round = v] \in ThreadType
         /\ \A v \in RequestType : [r EXCEPT !.request = v] \in ThreadType
         /\ \A v \in ToolsType : [r EXCEPT !.tools = v] \in ThreadType
         /\ \A v \in ProcType : [r EXCEPT !.proc = v] \in ThreadType
         /\ \A v \in {"none", "live", "cancelled"} : [r EXCEPT !.token = v] \in ThreadType
         /\ \A v \in [Sub -> Entry] : [r EXCEPT !.batch = v] \in ThreadType
         /\ \A v \in {"none", "ok", "error"} : [r EXCEPT !.result = v] \in ThreadType
         /\ \A v \in 0..MaxQueue : [r EXCEPT !.queue = v] \in ThreadType
<1>1. \A v \in BOOLEAN : [r EXCEPT !.open = v] \in ThreadType BY DEF ThreadType
<1>2. \A v \in BOOLEAN : [r EXCEPT !.streaming = v] \in ThreadType BY DEF ThreadType
<1>3. \A v \in BOOLEAN : [r EXCEPT !.stop = v] \in ThreadType BY DEF ThreadType
<1>4. \A v \in BOOLEAN : [r EXCEPT !.failure = v] \in ThreadType BY DEF ThreadType
<1>5. \A v \in BOOLEAN : [r EXCEPT !.claude = v] \in ThreadType BY DEF ThreadType
<1>6. \A v \in BOOLEAN : [r EXCEPT !.compacting = v] \in ThreadType BY DEF ThreadType
<1>7. \A v \in BOOLEAN : [r EXCEPT !.forced = v] \in ThreadType BY DEF ThreadType
<1>8. \A v \in BOOLEAN : [r EXCEPT !.resumed = v] \in ThreadType BY DEF ThreadType
<1>9. \A v \in BOOLEAN : [r EXCEPT !.fresh = v] \in ThreadType BY DEF ThreadType
<1>10. \A v \in Top \cup {NoThread} : [r EXCEPT !.parent = v] \in ThreadType BY DEF ThreadType
<1>11. \A v \in Nat : [r EXCEPT !.gen = v] \in ThreadType BY DEF ThreadType
<1>12. \A v \in Nat : [r EXCEPT !.round = v] \in ThreadType BY DEF ThreadType
<1>13. \A v \in RequestType : [r EXCEPT !.request = v] \in ThreadType BY DEF ThreadType
<1>14. \A v \in ToolsType : [r EXCEPT !.tools = v] \in ThreadType BY DEF ThreadType
<1>15. \A v \in ProcType : [r EXCEPT !.proc = v] \in ThreadType BY DEF ThreadType
<1>16. \A v \in {"none", "live", "cancelled"} : [r EXCEPT !.token = v] \in ThreadType BY DEF ThreadType
<1>17. \A v \in [Sub -> Entry] : [r EXCEPT !.batch = v] \in ThreadType BY DEF ThreadType
<1>18. \A v \in {"none", "ok", "error"} : [r EXCEPT !.result = v] \in ThreadType BY DEF ThreadType
<1>19. \A v \in 0..MaxQueue : [r EXCEPT !.queue = v] \in ThreadType BY DEF ThreadType
<1> QED BY <1>1, <1>2, <1>3, <1>4, <1>5, <1>6, <1>7, <1>8, <1>9, <1>10, <1>11, <1>12, <1>13, <1>14, <1>15, <1>16, <1>17, <1>18, <1>19

\* What the fields of a typed record are.
LEMMA Fields ==
  ASSUME NEW r \in ThreadType
  PROVE  /\ r.open \in BOOLEAN /\ r.streaming \in BOOLEAN /\ r.stop \in BOOLEAN
         /\ r.failure \in BOOLEAN /\ r.claude \in BOOLEAN /\ r.compacting \in BOOLEAN
         /\ r.forced \in BOOLEAN /\ r.resumed \in BOOLEAN /\ r.fresh \in BOOLEAN
         /\ r.parent \in Top \cup {NoThread}
         /\ r.gen \in Nat /\ r.round \in Nat
         /\ r.request \in RequestType /\ r.tools \in ToolsType /\ r.proc \in ProcType
         /\ r.token \in {"none", "live", "cancelled"}
         /\ r.batch \in [Sub -> Entry]
         /\ r.result \in {"none", "ok", "error"}
         /\ r.queue \in 0..MaxQueue
BY DEF ThreadType

\* Storing a typed record for a thread keeps the type of `threads_`.
LEMMA Put ==
  ASSUME NEW ts \in Threads, NEW t \in Thread, NEW r \in ThreadType
  PROVE  [ts EXCEPT ![t] = r] \in Threads
BY DEF Threads

\* The record of a thread is typed.
LEMMA Get ==
  ASSUME NEW ts \in Threads, NEW t \in Thread
  PROVE  ts[t] \in ThreadType
BY DEF Threads

\* DoSendActualRequest keeps the type.
LEMMA SendRequestType ==
  ASSUME NEW ts \in Threads, NEW t \in Thread, NEW kind \in {"completion", "summary"}
  PROVE  SendRequest(ts, t, kind) \in Threads
<1> DEFINE req == [kind |-> kind, gen |-> ts[t].gen + 1, cancelled |-> FALSE]
           r1 == [ts[t] EXCEPT !.gen = ts[t].gen + 1]
           r2 == [r1 EXCEPT !.request = req]
<1>1. ts[t] \in ThreadType BY Get
<1>2. ts[t].gen + 1 \in Nat BY <1>1, Fields
<1>3. req \in RequestType BY <1>2 DEF RequestType
<1>5. r1 \in ThreadType BY <1>1, <1>2, Setters
<1>6. r2 \in ThreadType BY <1>3, <1>5, Setters
<1>8. SendRequest(ts, t, kind) = [ts EXCEPT ![t] = r2] BY <1>1 DEF SendRequest
<1> HIDE DEF r2
<1> QED BY <1>6, <1>8, Put

\* RunSummaryThenSend keeps the type.
LEMMA SendSummaryType ==
  ASSUME NEW ts \in Threads, NEW t \in Thread
  PROVE  SendSummary(ts, t) \in Threads
<1>1. [ts EXCEPT ![t].compacting = TRUE] \in Threads BY Get, Setters, Put
<1> QED BY <1>1, SendRequestType DEF SendSummary

\* A thread that is told to stop keeps its type.
LEMMA SignalledType ==
  ASSUME NEW r \in ThreadType
  PROVE  Signalled(r) \in ThreadType
<1> DEFINE stop == r.stop \/ r.streaming
           req  == [r.request EXCEPT !.cancelled = r.request.kind # "off"]
           proc == [r.proc EXCEPT !.cancelled = r.proc.on]
           token == IF r.token = "none" THEN "none" ELSE "cancelled"
<1>1. stop \in BOOLEAN OBVIOUS
<1>2. req \in RequestType BY Fields DEF RequestType
<1>3. proc \in ProcType BY Fields DEF ProcType
<1>4. token \in {"none", "live", "cancelled"} OBVIOUS
<1>5. [r EXCEPT !.stop = stop] \in ThreadType BY <1>1, Setters
<1>6. [[r EXCEPT !.stop = stop] EXCEPT !.request = req] \in ThreadType BY <1>2, <1>5, Setters
<1>7. [[[r EXCEPT !.stop = stop] EXCEPT !.request = req] EXCEPT !.proc = proc] \in ThreadType
  BY <1>3, <1>6, Setters
<1>8. [[[[r EXCEPT !.stop = stop] EXCEPT !.request = req] EXCEPT !.proc = proc] EXCEPT !.token = token] \in ThreadType
  BY <1>4, <1>7, Setters
<1> QED BY <1>8 DEF Signalled

\* FinalizeTurn keeps the type of the thread and of the subagents it stops.
LEMMA FinalizedType ==
  ASSUME NEW ts \in Threads, NEW t \in Thread
  PROVE  Finalized(ts, t) \in Threads
<1>1. \A u \in Thread : /\ ts[u] \in ThreadType
                        /\ [ts[u] EXCEPT !.streaming = FALSE] \in ThreadType
                        /\ [ts[u] EXCEPT !.streaming = FALSE, !.failure = TRUE] \in ThreadType
  BY Get, Setters
<1> QED BY <1>1 DEF Finalized, Threads

\* ShowTurnFailure keeps the type.
LEMMA FailedType ==
  ASSUME NEW ts \in Threads, NEW t \in Thread
  PROVE  Failed(ts, t) \in Threads
BY Get, Setters, Put DEF Failed

\* StartClaudeTurn keeps the type.
LEMMA SpawnClaudeType ==
  ASSUME NEW ts \in Threads, NEW t \in Thread, NEW resumed \in BOOLEAN
  PROVE  SpawnClaude(ts, t, resumed) \in Threads
<1> DEFINE proc == [on |-> TRUE, gen |-> ts[t].gen + 1, cancelled |-> FALSE]
           r1 == [ts[t] EXCEPT !.gen = ts[t].gen + 1]
           r2 == [r1 EXCEPT !.proc = proc]
           r3 == [r2 EXCEPT !.resumed = resumed]
           r4 == [r3 EXCEPT !.result = "none"]
<1>1. ts[t] \in ThreadType BY Get
<1>2. ts[t].gen + 1 \in Nat BY <1>1, Fields
<1>3. proc \in ProcType BY <1>2 DEF ProcType
<1>4. r1 \in ThreadType BY <1>1, <1>2, Setters
<1>5. r2 \in ThreadType BY <1>3, <1>4, Setters
<1>6. r3 \in ThreadType BY <1>5, Setters
<1>7. r4 \in ThreadType BY <1>6, Setters
<1>8. SpawnClaude(ts, t, resumed) = [ts EXCEPT ![t] = r4] BY <1>1 DEF SpawnClaude
<1> HIDE DEF r4
<1> QED BY <1>7, <1>8, Put

\* StartCompletion keeps the type, whatever the completion meets.
LEMMA StartCompletionType ==
  ASSUME NEW ts \in Threads, NEW t \in Thread, NEW how \in ApiHow \cup ClaudeHow
  PROVE  StartCompletion(ts, t, how) \in Threads
<1>1. [ts EXCEPT ![t].fresh = FALSE] \in Threads BY Get, Setters, Put
<1>2. SpawnClaude([ts EXCEPT ![t].fresh = FALSE], t, how = "resume") \in Threads
  BY <1>1, SpawnClaudeType
<1>3. Finalized(Failed(ts, t), t) \in Threads BY FailedType, FinalizedType
<1>4. /\ SendRequest(ts, t, "completion") \in Threads
      /\ SendSummary(ts, t) \in Threads
  BY SendRequestType, SendSummaryType
<1> QED BY <1>2, <1>3, <1>4 DEF StartCompletion, ApiHow, ClaudeHow

\* StartTurn keeps the type.
LEMMA StartTurnType ==
  ASSUME NEW ts \in Threads, NEW t \in Thread, NEW how \in ApiHow \cup ClaudeHow
  PROVE  StartTurn(ts, t, how) \in Threads
<1> DEFINE claude == how \in ClaudeHow
           r1 == [ts[t] EXCEPT !.forced = FALSE]
           r2 == [r1 EXCEPT !.stop = FALSE]
           r3 == [r2 EXCEPT !.failure = FALSE]
           r4 == [r3 EXCEPT !.claude = claude]
           r5 == [r4 EXCEPT !.streaming = TRUE]
           r6 == [r5 EXCEPT !.round = 0]
           e == [ts EXCEPT ![t] = r6]
<1>1. ts[t] \in ThreadType BY Get
<1>2. r1 \in ThreadType BY <1>1, Setters
<1>3. r2 \in ThreadType BY <1>2, Setters
<1>4. r3 \in ThreadType BY <1>3, Setters
<1>8. StartTurn(ts, t, how) = StartCompletion(e, t, how) BY <1>1 DEF StartTurn
<1>9. claude \in BOOLEAN OBVIOUS
<1> HIDE DEF claude
<1>5. r4 \in ThreadType BY <1>4, <1>9, Setters
<1>6. r5 \in ThreadType BY <1>5, Setters
<1>7. r6 \in ThreadType BY <1>6, Setters
<1> HIDE DEF r6
<1>10. e \in Threads BY <1>7, Put
<1> HIDE DEF e
<1> QED BY <1>8, <1>10, StartCompletionType

\* DispatchNextQueued keeps the type: a queue is only shortened when it has a message.
LEMMA DispatchNextQueuedType ==
  ASSUME NEW ts \in Threads, NEW t \in Thread, NEW how \in ApiHow \cup ClaudeHow
  PROVE  DispatchNextQueued(ts, t, how) \in Threads
<1>1. CASE ts[t].queue = 0 BY <1>1 DEF DispatchNextQueued
<1>2. CASE ts[t].queue # 0
  <2>1. ts[t].queue - 1 \in 0..MaxQueue
    <3>1. ts[t].queue \in 0..MaxQueue BY Get, Fields
    <3> QED BY <1>2, <3>1, ThreadAssumption
  <2>2. [ts EXCEPT ![t].queue = @ - 1] \in Threads BY <2>1, Get, Setters, Put
  <2> QED BY <1>2, <2>2, StartTurnType DEF DispatchNextQueued
<1> QED BY <1>1, <1>2

\* Recording a batch keeps the type.
LEMMA BatchRecordedType ==
  ASSUME NEW ts \in Threads, NEW t \in Thread
  PROVE  BatchRecorded(ts, t) \in Threads
<1> DEFINE r1 == [ts[t] EXCEPT !.token = "none"]
           r2 == [r1 EXCEPT !.batch = NoBatch]
<1>1. NoBatch \in [Sub -> Entry] BY DEF NoBatch, Entry
<1>2. r1 \in ThreadType BY Get, Setters
<1>3. r2 \in ThreadType BY <1>1, <1>2, Setters
<1>4. BatchRecorded(ts, t) = [ts EXCEPT ![t] = r2] BY Get DEF BatchRecorded
<1> HIDE DEF r2
<1> QED BY <1>3, <1>4, Put

\* The next round of a turn keeps the type.
LEMMA NextRoundType ==
  ASSUME NEW ts \in Threads, NEW t \in Thread
  PROVE  [BatchRecorded(ts, t) EXCEPT ![t].round = @ + 1] \in Threads
<1> DEFINE e == BatchRecorded(ts, t)
<1>1. e \in Threads BY BatchRecordedType
<1> HIDE DEF e
<1>2. e[t].round + 1 \in Nat BY <1>1, Get, Fields
<1>3. [e EXCEPT ![t].round = @ + 1] \in Threads BY <1>1, <1>2, Get, Setters, Put
<1> QED BY <1>3 DEF e

\* A parent that is woken by a report keeps the type.
LEMMA WakeParentType ==
  ASSUME NEW ts \in Threads, NEW p \in Thread, NEW how \in ApiHow
  PROVE  WakeParent(ts, p, how) \in Threads
BY BatchRecordedType, FinalizedType, NextRoundType, StartCompletionType
   DEF WakeParent, NextRound

\* ReportToParent keeps the type: what it writes is a result of a batch entry.
LEMMA ReportToParentType ==
  ASSUME NEW ts \in Threads, NEW c \in Thread, NEW failed \in BOOLEAN, NEW how \in ApiHow
  PROVE  ReportToParent(ts, c, failed, how) \in Threads
<1> DEFINE p == ts[c].parent
           report == CASE ~failed -> "report"
                       [] failed /\ ts[c].failure -> "failed"
                       [] OTHER -> "cancelled"
           e == [ts EXCEPT ![p].batch[c] = report]
<1>1. CASE p = NoThread \/ ts[p].batch[c] = "absent" BY <1>1 DEF ReportToParent
<1>2. CASE ~(p = NoThread \/ ts[p].batch[c] = "absent")
  <2>1. p \in Thread BY <1>2, Get, Fields DEF Thread
  <2>2. report \in Entry BY DEF Entry
  <2> HIDE DEF report
  <2>3. [ts[p].batch EXCEPT ![c] = report] \in [Sub -> Entry] BY <2>1, <2>2, Get, Fields
  <2>4. [ts[p] EXCEPT !.batch = [ts[p].batch EXCEPT ![c] = report]] \in ThreadType
    BY <2>1, <2>3, Get, Setters
  <2>5. e \in Threads BY <2>1, <2>4, Put
  <2>6. WakeParent(e, p, how) \in Threads BY <2>1, <2>5, WakeParentType
  <2> QED BY <1>2, <2>6 DEF ReportToParent, report
<1> QED BY <1>1, <1>2

\* FinalizeTurn with its report and the next queued message keeps the type.
LEMMA EndTurnType ==
  ASSUME NEW ts \in Threads, NEW t \in Thread, NEW failed \in BOOLEAN,
         NEW how \in ApiHow \cup ClaudeHow, NEW phow \in ApiHow
  PROVE  EndTurn(ts, t, failed, how, phow) \in Threads
BY FinalizedType, ReportToParentType, DispatchNextQueuedType DEF EndTurn

\* A completion of any thread keeps the type, the refused one that reports too.
LEMMA ProceedType ==
  ASSUME NEW ts \in Threads, NEW t \in Thread,
         NEW how \in ApiHow \cup ClaudeHow, NEW phow \in ApiHow
  PROVE  Proceed(ts, t, how, phow) \in Threads
BY StartCompletionType, ReportToParentType DEF Proceed

\* OnToolBatchDone keeps the type.
LEMMA OnToolBatchDoneType ==
  ASSUME NEW ts \in Threads, NEW t \in Thread, NEW how \in ApiHow, NEW phow \in ApiHow
  PROVE  OnToolBatchDone(ts, t, how, phow) \in Threads
BY BatchRecordedType, EndTurnType, NextRoundType, ProceedType DEF OnToolBatchDone

\* A worker that does not run is typed.
LEMMA OffTypes == RequestOff \in RequestType /\ ToolsOff \in ToolsType /\ ProcOff \in ProcType
BY DEF RequestOff, RequestType, ToolsOff, ToolsType, ProcOff, ProcType

\* A thread name nobody uses is typed.
LEMMA UnusedType == Unused \in ThreadType
<1>1. NoBatch \in [Sub -> Entry] BY DEF NoBatch, Entry
<1>2. 0 \in 0..MaxQueue BY ThreadAssumption
<1> QED BY <1>1, <1>2, OffTypes DEF Unused, ThreadType

\* A subagent that OpenChild made is typed.
LEMMA ChildType ==
  ASSUME NEW t \in Top
  PROVE  Child(t) \in ThreadType
<1> DEFINE r1 == [Unused EXCEPT !.open = TRUE]
           r2 == [r1 EXCEPT !.parent = t]
           r3 == [r2 EXCEPT !.streaming = TRUE]
<1>1. r1 \in ThreadType BY UnusedType, Setters
<1>2. r2 \in ThreadType BY <1>1, Setters
<1>3. r3 \in ThreadType BY <1>2, Setters
<1> QED BY <1>3 DEF Child

\* A `task` subagent that started, or was refused, is typed.
LEMMA TaskChildType ==
  ASSUME NEW t \in Top, NEW how \in {"completion", "nokey"}
  PROVE  TaskChild(t, how) \in ThreadType
<1> DEFINE c == Child(t)
           req == [kind |-> "completion", gen |-> 1, cancelled |-> FALSE]
           a1 == [c EXCEPT !.streaming = FALSE]
           a2 == [a1 EXCEPT !.failure = TRUE]
           b1 == [c EXCEPT !.gen = 1]
           b2 == [b1 EXCEPT !.request = req]
<1>1. c \in ThreadType BY ChildType
<1> HIDE DEF c
<1>2. a1 \in ThreadType BY <1>1, Setters
<1>3. a2 \in ThreadType BY <1>2, Setters
<1>4. req \in RequestType BY DEF RequestType
<1>5. b1 \in ThreadType BY <1>1, Setters
<1>6. b2 \in ThreadType BY <1>4, <1>5, Setters
<1> QED BY <1>3, <1>6 DEF TaskChild, c

\* Starting a tool batch keeps the type of the thread and of its subagents.
LEMMA StartToolBatchType ==
  ASSUME NEW ts \in Threads, NEW t \in Thread, NEW kids \in SUBSET Sub,
         t \in Sub => kids = {}, NEW how \in {"completion", "nokey"}
  PROVE  StartToolBatch(ts, t, kids, how) \in Threads
<1> DEFINE tools == [state |-> "running", gen |-> ts[t].gen + 1]
           batch == [c \in Sub |-> IF c \notin kids THEN "absent"
                                   ELSE IF how = "nokey" THEN "failed" ELSE "empty"]
           r1 == [ts[t] EXCEPT !.gen = ts[t].gen + 1]
           r2 == [r1 EXCEPT !.tools = tools]
           r3 == [r2 EXCEPT !.token = "live"]
           r4 == [r3 EXCEPT !.batch = batch]
<1>1. ts[t] \in ThreadType BY Get
<1>2. ts[t].gen + 1 \in Nat BY <1>1, Fields
<1>3. tools \in ToolsType BY <1>2 DEF ToolsType
<1>4. batch \in [Sub -> Entry] BY DEF Entry
<1>5. r1 \in ThreadType BY <1>1, <1>2, Setters
<1>6. r2 \in ThreadType BY <1>3, <1>5, Setters
<1>7. r3 \in ThreadType BY <1>6, Setters
<1>8. r4 \in ThreadType BY <1>4, <1>7, Setters
<1>9. ASSUME NEW u \in kids PROVE TaskChild(t, how) \in ThreadType
  BY <1>9, TaskChildType DEF Thread
<1>10. StartToolBatch(ts, t, kids, how)
         = [u \in Thread |-> CASE u = t -> r4
                               [] u \in kids -> TaskChild(t, how)
                               [] OTHER -> ts[u]]
  BY <1>1 DEF StartToolBatch
<1> HIDE DEF r4
<1> QED BY <1>8, <1>9, <1>10, Get DEF Threads

\* Telling any set of threads to stop keeps the type.
LEMMA SignalType ==
  ASSUME NEW ts \in Threads, NEW S
  PROVE  Signal(ts, S) \in Threads
BY Get, SignalledType DEF Signal, Threads

-----------------------------------------------------------------------------
\* A sequence stays a sequence of its elements when one is appended.
LEMMA AppendType ==
  ASSUME NEW S, NEW s \in Seq(S), NEW m \in S
  PROVE  Append(s, m) \in Seq(S)
OBVIOUS

\* The head of a sequence is one of its elements, and its tail a sequence of them.
LEMMA HeadTailType ==
  ASSUME NEW S, NEW s \in Seq(S), s # <<>>
  PROVE  Head(s) \in S /\ Tail(s) \in Seq(S)
OBVIOUS

\* Posting a callback keeps the type of the queue of callbacks.
LEMMA AppendCall ==
  ASSUME mail \in Seq(Call), NEW t \in Thread, NEW gen \in Nat,
         NEW kind \in LastCall \cup ClaudeLine, NEW out \in Outcome
  PROVE  Append(mail, [to |-> t, gen |-> gen, kind |-> kind, out |-> out]) \in Seq(Call)
<1> DEFINE m == [to |-> t, gen |-> gen, kind |-> kind, out |-> out]
<1>1. m \in Call BY DEF Call
<1> HIDE DEF m
<1>2. Append(mail, m) \in Seq(Call) BY <1>1, AppendType
<1> QED BY <1>2 DEF m

\* The callback the GUI thread takes is a callback.
LEMMA HeadCall ==
  ASSUME mail \in Seq(Call), mail # <<>>
  PROVE  Head(mail) \in Call /\ Head(mail).to \in Thread /\ Tail(mail) \in Seq(Call)
<1>1. Head(mail) \in Call /\ Tail(mail) \in Seq(Call) BY HeadTailType
<1> QED BY <1>1 DEF Call

\* OnClose keeps the type of all it changes.
LEMMA CloseType ==
  ASSUME NEW ts \in Threads, Close(ts), quit \in BOOLEAN, closed \in BOOLEAN
  PROVE  thr' \in Threads /\ quit' \in BOOLEAN /\ closed' \in BOOLEAN
BY SignalType DEF Close, CancelAll

\* The state the frame starts in is typed.
THEOREM InitType == Init => TypeOK
<1> SUFFICES ASSUME Init PROVE TypeOK OBVIOUS
<1>1. [Unused EXCEPT !.open = TRUE] \in ThreadType BY UnusedType, Setters
<1>2. thr \in [Thread -> ThreadType] BY <1>1, UnusedType DEF Init
<1>3. mail \in Seq(Call) BY DEF Init
<1>4. turns \in 0..MaxTurns BY RuntimeAssumption DEF Init
<1> QED BY <1>2, <1>3, <1>4 DEF Init, TypeOK

\* Every step of the user, of a worker and of the GUI thread keeps the type.
THEOREM NextType == TypeOK /\ [Next]_vars => TypeOK'
<1> SUFFICES ASSUME TypeOK, [Next]_vars PROVE TypeOK' OBVIOUS
<1> USE DEF Threads
<1>0. /\ thr \in Threads /\ mail \in Seq(Call) /\ quit \in BOOLEAN /\ closed \in BOOLEAN
      /\ turns \in 0..MaxTurns
  BY DEF TypeOK
<1> HIDE DEF Threads
<1>1. ASSUME thr' \in Threads, mail' \in Seq(Call), quit' \in BOOLEAN, closed' \in BOOLEAN,
             turns' \in 0..MaxTurns
      PROVE  TypeOK'
  BY <1>1 DEF TypeOK, Threads
<1>2. ASSUME UserInput PROVE turns' \in 0..MaxTurns
  BY <1>0, <1>2, RuntimeAssumption DEF UserInput
<1>3. ASSUME NEW t \in Thread, User(t) PROVE TypeOK'
  <2>1. CASE Send(t)
    BY <1>0, <1>1, <1>2, <2>1, StartTurnType DEF Send, UserInput
  <2>2. CASE Enqueue(t)
    <3>1. thr[t].queue + 1 \in 0..MaxQueue
      <4>1. thr[t].queue \in 0..MaxQueue BY <1>0, Get, Fields
      <4> QED BY <2>2, <4>1, ThreadAssumption DEF Enqueue
    <3>2. [thr EXCEPT ![t].queue = @ + 1] \in Threads BY <1>0, <3>1, Get, Setters, Put
    <3> QED BY <1>0, <1>1, <1>2, <2>2, <3>2 DEF Enqueue, UserInput
  <2>3. CASE Play(t)
    <3>1. thr' \in Threads
      BY <1>0, <2>3, StartTurnType, ReportToParentType DEF Play
    <3> QED BY <1>0, <1>1, <1>2, <2>3, <3>1 DEF Play, UserInput
  <2>4. CASE ContinueQueue(t)
    BY <1>0, <1>1, <2>4, DispatchNextQueuedType DEF ContinueQueue, UserChoice
  <2>5. CASE ClearQueue(t)
    <3>1. 0 \in 0..MaxQueue BY ThreadAssumption
    <3>2. [thr EXCEPT ![t].queue = 0] \in Threads BY <1>0, <3>1, Get, Setters, Put
    <3> QED BY <1>0, <1>1, <2>5, <3>2 DEF ClearQueue, UserChoice
  <2>6. CASE RemoveChip(t)
    <3>1. thr[t].queue - 1 \in 0..MaxQueue
      <4>1. thr[t].queue \in 0..MaxQueue BY <1>0, Get, Fields
      <4> QED BY <2>6, <4>1, ThreadAssumption DEF RemoveChip
    <3>2. [thr EXCEPT ![t].queue = @ - 1] \in Threads BY <1>0, <3>1, Get, Setters, Put
    <3> QED BY <1>0, <1>1, <2>6, <3>2 DEF RemoveChip, UserChoice
  <2>7. CASE Cancel(t)
    BY <1>0, <1>1, <2>7, SignalType DEF Cancel, UserChoice, RequestCancel
  <2> QED BY <1>3, <2>1, <2>2, <2>3, <2>4, <2>5, <2>6, <2>7 DEF User
<1>4. ASSUME NEW t \in Thread, Worker(t) PROVE TypeOK'
  <2>0. /\ thr[t].request \in RequestType /\ thr[t].tools \in ToolsType
        /\ thr[t].proc \in ProcType
    BY <1>0, Get, Fields
  <2>1. CASE RequestEnds(t)
    <3>1. PICK out \in {"text", "calls", "overflow", "error", "ended", "cancelled"} :
            Post(t, thr[t].request.gen, thr[t].request.kind, out)
      BY <2>1 DEF RequestEnds
    <3>2. mail' \in Seq(Call)
      <4>1. thr[t].request.gen \in Nat /\ thr[t].request.kind \in LastCall \cup ClaudeLine
        BY <2>0, <2>1 DEF RequestEnds, RequestType, LastCall
      <4> QED BY <1>0, <3>1, <4>1, AppendCall DEF Post, Outcome
    <3>3. thr' \in Threads BY <1>0, <2>1, OffTypes, Get, Setters, Put DEF RequestEnds
    <3> QED BY <1>0, <1>1, <2>1, <3>2, <3>3 DEF RequestEnds
  <2>2. CASE ToolsEnd(t)
    <3>1. mail' \in Seq(Call)
      BY <1>0, <2>0, <2>2, AppendCall DEF ToolsEnd, Post, ToolsType, LastCall, Outcome
    <3>2. thr' \in Threads
      <4>1. [thr[t].tools EXCEPT !.state = "reported"] \in ToolsType BY <2>0 DEF ToolsType
      <4>2. [thr[t] EXCEPT !.tools = [thr[t].tools EXCEPT !.state = "reported"]] \in ThreadType
        BY <1>0, <4>1, Get, Setters
      <4> QED BY <1>0, <2>2, <4>2, Put DEF ToolsEnd
    <3> QED BY <1>0, <1>1, <2>2, <3>1, <3>2 DEF ToolsEnd
  <2>3. CASE ClaudeSays(t)
    <3>1. PICK kind \in ClaudeLine : Post(t, thr[t].proc.gen, kind, "line")
      BY <2>3 DEF ClaudeSays
    <3>2. mail' \in Seq(Call)
      BY <1>0, <2>0, <3>1, AppendCall DEF Post, ProcType, Outcome
    <3> QED BY <1>0, <1>1, <2>3, <3>2 DEF ClaudeSays
  <2>4. CASE ClaudeEnds(t)
    <3>0. PICK out \in {"ended", "gone", "error", "cancelled"} :
            Post(t, thr[t].proc.gen, "claude", out)
      BY <2>4 DEF ClaudeEnds
    <3>1. mail' \in Seq(Call)
      BY <1>0, <2>0, <3>0, AppendCall DEF Post, ProcType, LastCall, Outcome
    <3>2. thr' \in Threads BY <1>0, <2>4, OffTypes, Get, Setters, Put DEF ClaudeEnds
    <3> QED BY <1>0, <1>1, <2>4, <3>1, <3>2 DEF ClaudeEnds
  <2> QED BY <1>4, <2>1, <2>2, <2>3, <2>4 DEF Worker
<1>5. CASE CloseWindow
  BY <1>0, <1>1, <1>5, CloseType DEF CloseWindow
<1>6. CASE GuiThread
  <2>1. mail' \in Seq(Call) /\ turns' \in 0..MaxTurns /\ Head(mail).to \in Thread
    <3>1. TakeCall
      BY <1>6 DEF GuiThread, DropStale, CloseAgain, Callback, Take, Handle, ClaudeEvent,
         OnCompletionCancelled, OnCompletionFailed, OnOverflow, OnReply, OnToolCalls,
         OnSummaryCancelled, OnSummary, OnToolsDone, OnClaudeCancelled, OnClaudeGone,
         OnClaudeReply, OnClaudeFailed, OnAgentStarted, OnAgentEnded, OnResult
    <3> QED BY <1>0, <3>1, HeadCall DEF TakeCall
  <2>2. CASE DropStale BY <1>0, <1>1, <2>1, <2>2 DEF DropStale
  <2>3. CASE CloseAgain
    <3>1. [thr EXCEPT ![Head(mail).to].tools = ToolsOff] \in Threads
      BY <1>0, <2>1, OffTypes, Get, Setters, Put
    <3> QED BY <1>0, <1>1, <2>1, <2>3, <3>1, CloseType DEF CloseAgain
  <2>4. ASSUME NEW t \in Thread, Callback(t) PROVE TypeOK'
    <3>1. ASSUME thr' \in Threads, UNCHANGED <<quit, closed>> PROVE TypeOK'
      BY <1>0, <1>1, <2>1, <3>1
    <3>2. CASE OnCompletionCancelled(t)
      BY <1>0, <3>1, <3>2, EndTurnType DEF OnCompletionCancelled, Handle, ApiHow
    <3>3. CASE OnCompletionFailed(t)
      <4>1. UNCHANGED <<quit, closed>> BY <3>3 DEF OnCompletionFailed, Handle
      <4>2. PICK phow \in ApiHow : thr' = EndTurn(Failed(thr, t), t, TRUE, "nokey", phow)
        BY <3>3 DEF OnCompletionFailed
      <4>3. Failed(thr, t) \in Threads BY <1>0, FailedType
      <4>4. thr' \in Threads BY <4>2, <4>3, EndTurnType DEF ApiHow
      <4> QED BY <3>1, <4>1, <4>4
    <3>4. CASE OnOverflow(t)
      <4>1. [thr EXCEPT ![t].forced = TRUE] \in Threads BY <1>0, Get, Setters, Put
      <4> QED BY <3>1, <3>4, <4>1, SendSummaryType, ProceedType DEF OnOverflow, Handle, ApiHow
    <3>5. CASE OnReply(t)
      BY <1>0, <3>1, <3>5, EndTurnType DEF OnReply, Handle
    <3>6. CASE OnToolCalls(t)
      BY <1>0, <3>1, <3>6, StartToolBatchType DEF OnToolCalls, Handle
    <3>7. CASE OnSummaryCancelled(t)
      <4>1. [thr EXCEPT ![t].compacting = FALSE] \in Threads BY <1>0, Get, Setters, Put
      <4> QED BY <3>1, <3>7, <4>1, EndTurnType DEF OnSummaryCancelled, Handle, ApiHow
    <3>8. CASE OnSummary(t)
      <4>1. [thr EXCEPT ![t].compacting = FALSE] \in Threads BY <1>0, Get, Setters, Put
      <4> QED BY <3>1, <3>8, <4>1, ProceedType DEF OnSummary, Handle, ApiHow
    <3>9. CASE OnToolsDone(t)
      <4>1. [thr EXCEPT ![t].tools = ToolsOff] \in Threads
        BY <1>0, OffTypes, Get, Setters, Put
      <4> QED BY <3>1, <3>9, <4>1, OnToolBatchDoneType DEF OnToolsDone, Handle
    <3>10. CASE OnClaudeCancelled(t)
      BY <1>0, <3>1, <3>10, FinalizedType DEF OnClaudeCancelled, Handle
    <3>11. CASE OnClaudeGone(t)
      <4>1. [thr EXCEPT ![t].fresh = TRUE] \in Threads BY <1>0, Get, Setters, Put
      <4> DEFINE e == [thr EXCEPT ![t].fresh = TRUE]
      <4>2. thr' \in {SpawnClaude(e, t, FALSE), Finalized(Failed(e, t), t)}
        BY <3>11 DEF OnClaudeGone
      <4>3. UNCHANGED <<quit, closed>> BY <3>11 DEF OnClaudeGone, Handle
      <4> HIDE DEF e
      <4>4. SpawnClaude(e, t, FALSE) \in Threads BY <4>1, SpawnClaudeType DEF e
      <4>5. Finalized(Failed(e, t), t) \in Threads
        BY <4>1, FailedType, FinalizedType DEF e
      <4> QED BY <3>1, <4>2, <4>3, <4>4, <4>5
    <3>12. CASE OnClaudeReply(t)
      BY <1>0, <3>1, <3>12, EndTurnType DEF OnClaudeReply, Handle
    <3>13. CASE OnClaudeFailed(t)
      BY <1>0, <3>1, <3>13, FailedType, FinalizedType DEF OnClaudeFailed, Handle
    <3>14. CASE OnAgentStarted(t)
      BY <1>0, <3>1, <3>14, ChildType, Put DEF OnAgentStarted, ClaudeEvent, Thread
    <3>15. CASE OnAgentEnded(t)
      <4>1. RunningChildren(thr, t) \subseteq Thread
        BY DEF RunningChildren, Children, Thread
      <4>2. UNCHANGED <<quit, closed>> BY <3>15 DEF OnAgentEnded, ClaudeEvent
      <4>3. CASE ~HasRunningChild(thr, t) BY <1>0, <3>1, <3>15, <4>2, <4>3 DEF OnAgentEnded
      <4>4. CASE HasRunningChild(thr, t)
        <5>1. PICK kind \in {"agentOk", "agentFailed"},
                   c \in RunningChildren(thr, t), phow \in ApiHow :
                thr' = EndTurn(IF kind = "agentOk" THEN thr ELSE Failed(thr, c), c,
                               kind = "agentFailed", "nokey", phow)
          BY <3>15, <4>4 DEF OnAgentEnded
        <5> DEFINE e == IF kind = "agentOk" THEN thr ELSE Failed(thr, c)
                   failed == kind = "agentFailed"
        <5>2. e \in Threads BY <1>0, <4>1, FailedType
        <5>3. failed \in BOOLEAN OBVIOUS
        <5> HIDE DEF e, failed
        <5>4. EndTurn(e, c, failed, "nokey", phow) \in Threads
          BY <4>1, <5>2, <5>3, EndTurnType DEF ApiHow
        <5> QED BY <3>1, <4>2, <5>1, <5>4 DEF e, failed
      <4> QED BY <4>3, <4>4
    <3>16. CASE OnResult(t)
      <4>1. UNCHANGED <<quit, closed>> BY <3>16 DEF OnResult, ClaudeEvent
      <4>2. PICK v \in {"none", "ok", "error"} : thr' = [thr EXCEPT ![t].result = v]
        BY <3>16 DEF OnResult
      <4>3. thr' \in Threads BY <1>0, <4>2, Get, Setters, Put
      <4> QED BY <3>1, <4>1, <4>3
    <3> QED BY <2>4, <3>2, <3>3, <3>4, <3>5, <3>6, <3>7, <3>8, <3>9, <3>10, <3>11, <3>12,
               <3>13, <3>14, <3>15, <3>16 DEF Callback
  <2> QED BY <1>6, <2>2, <2>3, <2>4 DEF GuiThread
<1>7. CASE UNCHANGED vars BY <1>0, <1>1, <1>7 DEF vars
<1> QED BY <1>3, <1>4, <1>5, <1>6, <1>7 DEF Next

\* TypeOK holds in every state of the program: no handler leaves a thread with
\* a worker, a batch entry or a queue that `struct Thread` does not allow; above
\* all a queue never passes kMaxQueue_.
THEOREM TypeCorrect == Spec => []TypeOK
BY InitType, NextType, PTL DEF Spec

-----------------------------------------------------------------------------
(***************************************************************************)
(* OneJob: the gen keeps every thread to one piece of work at a time,      *)
(* whatever the user does, Play in subagents included.                     *)
(*                                                                         *)
(* `Moves` is what any handler does to one thread as far as its workers    *)
(* go: the gen never falls; while it stays, no worker becomes current;     *)
(* when it grows, one worker at most carries the new one.  It is           *)
(* transitive, so it holds of a handler because it holds of the operators  *)
(* the handler is made of.  Callbacks in the queue keep the gen they       *)
(* have, so a larger gen leaves all of them behind.                        *)
(***************************************************************************)

\* The workers of a record that carry its gen.
Req(r) == r.request.kind # "off" /\ r.request.gen = r.gen
Tls(r) == r.tools.state = "running" /\ r.tools.gen = r.gen
Prc(r) == r.proc.on /\ r.proc.gen = r.gen

Single(r) == ~(Req(r) /\ Tls(r)) /\ ~(Req(r) /\ Prc(r)) /\ ~(Tls(r) /\ Prc(r))

\* No worker is ahead of its thread, and a thread that does not exist yet
\* has no gen.
GenOK(r) ==
  /\ r.request.gen <= r.gen
  /\ r.tools.gen <= r.gen
  /\ r.proc.gen <= r.gen
  /\ r.open \/ r.gen = 0

Moves(r, s) ==
  /\ r.open => s.open
  /\ GenOK(r) =>
       /\ GenOK(s)
       /\ r.gen <= s.gen
       /\ s.gen = r.gen => (Req(s) => Req(r)) /\ (Tls(s) => Tls(r)) /\ (Prc(s) => Prc(r))
       /\ s.gen # r.gen => Single(s)

Step(ts, us) == \A u \in Thread : Moves(ts[u], us[u])

\* A handler works on a thread that exists; conversations always do.
Ready(ts, t) == ts[t].open /\ \A p \in Top : ts[p].open

-----------------------------------------------------------------------------
\* The numbers and flags of a typed record that the gen protocol reads.
LEMMA Gens ==
  ASSUME NEW r \in ThreadType
  PROVE  /\ r.gen \in Nat /\ r.request.gen \in Nat /\ r.tools.gen \in Nat /\ r.proc.gen \in Nat
         /\ r.open \in BOOLEAN /\ r.proc.on \in BOOLEAN
BY Fields DEF RequestType, ToolsType, ProcType

\* Moves composes.
LEMMA MovesTrans ==
  ASSUME NEW r \in ThreadType, NEW s \in ThreadType, NEW u \in ThreadType,
         Moves(r, s), Moves(s, u)
  PROVE  Moves(r, u)
<1>1. /\ r.gen \in Nat /\ s.gen \in Nat /\ u.gen \in Nat BY Gens
<1>2. r.open => u.open BY DEF Moves
<1>3. ASSUME GenOK(r) PROVE
        /\ GenOK(u)
        /\ r.gen <= u.gen
        /\ u.gen = r.gen => (Req(u) => Req(r)) /\ (Tls(u) => Tls(r)) /\ (Prc(u) => Prc(r))
        /\ u.gen # r.gen => Single(u)
  <2>1. GenOK(s) /\ GenOK(u) /\ r.gen <= s.gen /\ s.gen <= u.gen BY <1>3 DEF Moves
  <2>2. r.gen <= u.gen BY <1>1, <2>1
  <2>3. ASSUME u.gen = r.gen
        PROVE  (Req(u) => Req(r)) /\ (Tls(u) => Tls(r)) /\ (Prc(u) => Prc(r))
    <3>1. s.gen = r.gen /\ u.gen = s.gen BY <1>1, <2>1, <2>3
    <3> QED BY <1>3, <2>1, <3>1 DEF Moves
  <2>4. ASSUME u.gen # r.gen PROVE Single(u)
    <3>1. CASE u.gen # s.gen BY <2>1, <3>1 DEF Moves
    <3>2. CASE u.gen = s.gen
      <4>1. Single(s) BY <1>3, <2>4, <3>2 DEF Moves
      <4>2. (Req(u) => Req(s)) /\ (Tls(u) => Tls(s)) /\ (Prc(u) => Prc(s))
        BY <2>1, <3>2 DEF Moves
      <4> QED BY <4>1, <4>2 DEF Single
    <3> QED BY <3>1, <3>2
  <2> QED BY <2>1, <2>2, <2>3, <2>4
<1> QED BY <1>2, <1>3 DEF Moves

\* What a step of one operator after another does.
LEMMA StepTrans ==
  ASSUME NEW ts \in Threads, NEW us \in Threads, NEW vs \in Threads, Step(ts, us), Step(us, vs)
  PROVE  Step(ts, vs)
BY Get, MovesTrans DEF Step

\* Threads that exist go on existing.
LEMMA StepReady ==
  ASSUME NEW ts, NEW us, NEW t \in Thread, Step(ts, us), Ready(ts, t)
  PROVE  Ready(us, t)
BY DEF Step, Ready, Moves, Thread

\* A record that differs from r at most in what no worker looks at.
Same(r, s) ==
  /\ s.open = r.open /\ s.gen = r.gen
  /\ s.request = r.request /\ s.tools = r.tools /\ s.proc = r.proc

\* Such a record makes no move at all.
LEMMA Still ==
  ASSUME NEW r \in ThreadType, NEW s \in ThreadType, Same(r, s)
  PROVE  Moves(r, s)
<1>1. r.gen \in Nat BY Gens
<1> QED BY <1>1 DEF Same, Moves, GenOK, Req, Tls, Prc

\* The fields that no worker looks at.
LEMMA Frames ==
  ASSUME NEW r \in ThreadType
  PROVE  /\ \A v : Same(r, [r EXCEPT !.streaming = v])
         /\ \A v : Same(r, [r EXCEPT !.stop = v])
         /\ \A v : Same(r, [r EXCEPT !.failure = v])
         /\ \A v : Same(r, [r EXCEPT !.claude = v])
         /\ \A v : Same(r, [r EXCEPT !.compacting = v])
         /\ \A v : Same(r, [r EXCEPT !.forced = v])
         /\ \A v : Same(r, [r EXCEPT !.resumed = v])
         /\ \A v : Same(r, [r EXCEPT !.fresh = v])
         /\ \A v : Same(r, [r EXCEPT !.round = v])
         /\ \A v : Same(r, [r EXCEPT !.token = v])
         /\ \A v : Same(r, [r EXCEPT !.batch = v])
         /\ \A v : Same(r, [r EXCEPT !.result = v])
         /\ \A v : Same(r, [r EXCEPT !.queue = v])
<1>1. \A v : Same(r, [r EXCEPT !.streaming = v]) BY DEF Same, ThreadType
<1>2. \A v : Same(r, [r EXCEPT !.stop = v]) BY DEF Same, ThreadType
<1>3. \A v : Same(r, [r EXCEPT !.failure = v]) BY DEF Same, ThreadType
<1>4. \A v : Same(r, [r EXCEPT !.claude = v]) BY DEF Same, ThreadType
<1>5. \A v : Same(r, [r EXCEPT !.compacting = v]) BY DEF Same, ThreadType
<1>6. \A v : Same(r, [r EXCEPT !.forced = v]) BY DEF Same, ThreadType
<1>7. \A v : Same(r, [r EXCEPT !.resumed = v]) BY DEF Same, ThreadType
<1>8. \A v : Same(r, [r EXCEPT !.fresh = v]) BY DEF Same, ThreadType
<1>9. \A v : Same(r, [r EXCEPT !.round = v]) BY DEF Same, ThreadType
<1>10. \A v : Same(r, [r EXCEPT !.token = v]) BY DEF Same, ThreadType
<1>11. \A v : Same(r, [r EXCEPT !.batch = v]) BY DEF Same, ThreadType
<1>12. \A v : Same(r, [r EXCEPT !.result = v]) BY DEF Same, ThreadType
<1>13. \A v : Same(r, [r EXCEPT !.queue = v]) BY DEF Same, ThreadType
<1> QED BY <1>1, <1>2, <1>3, <1>4, <1>5, <1>6, <1>7, <1>8, <1>9, <1>10, <1>11, <1>12, <1>13

\* Changing one of them is no move.
LEMMA Others ==
  ASSUME NEW r \in ThreadType
  PROVE  /\ \A v \in BOOLEAN : Moves(r, [r EXCEPT !.streaming = v])
         /\ \A v \in BOOLEAN : Moves(r, [r EXCEPT !.stop = v])
         /\ \A v \in BOOLEAN : Moves(r, [r EXCEPT !.failure = v])
         /\ \A v \in BOOLEAN : Moves(r, [r EXCEPT !.claude = v])
         /\ \A v \in BOOLEAN : Moves(r, [r EXCEPT !.compacting = v])
         /\ \A v \in BOOLEAN : Moves(r, [r EXCEPT !.forced = v])
         /\ \A v \in BOOLEAN : Moves(r, [r EXCEPT !.resumed = v])
         /\ \A v \in BOOLEAN : Moves(r, [r EXCEPT !.fresh = v])
         /\ \A v \in Nat : Moves(r, [r EXCEPT !.round = v])
         /\ \A v \in {"none", "live", "cancelled"} : Moves(r, [r EXCEPT !.token = v])
         /\ \A v \in [Sub -> Entry] : Moves(r, [r EXCEPT !.batch = v])
         /\ \A v \in {"none", "ok", "error"} : Moves(r, [r EXCEPT !.result = v])
         /\ \A v \in 0..MaxQueue : Moves(r, [r EXCEPT !.queue = v])
BY Frames, Setters, Still

\* Storing a record that its thread may move to.
LEMMA PutStep ==
  ASSUME NEW ts \in Threads, NEW t \in Thread, NEW r \in ThreadType, Moves(ts[t], r)
  PROVE  Step(ts, [ts EXCEPT ![t] = r])
<1>1. \A u \in Thread : Moves(ts[u], ts[u]) BY Get, Still DEF Same
<1> QED BY <1>1 DEF Step, Threads

-----------------------------------------------------------------------------
\* Starting a worker: the gen grows by one, and only that worker carries it.
LEMMA Begins ==
  ASSUME NEW r \in ThreadType, NEW s \in ThreadType, r.open, s.open, s.gen = r.gen + 1,
         \/ s.request.gen = s.gen /\ s.tools = r.tools /\ s.proc = r.proc
         \/ s.tools.gen = s.gen /\ s.request = r.request /\ s.proc = r.proc
         \/ s.proc.gen = s.gen /\ s.request = r.request /\ s.tools = r.tools
  PROVE  Moves(r, s)
<1>1. /\ r.gen \in Nat /\ r.request.gen \in Nat /\ r.tools.gen \in Nat /\ r.proc.gen \in Nat
      /\ s.gen # r.gen
  BY Gens
<1>2. ASSUME GenOK(r) PROVE GenOK(s) /\ r.gen <= s.gen /\ Single(s)
  BY <1>1, <1>2 DEF GenOK, Single, Req, Tls, Prc
<1> QED BY <1>1, <1>2 DEF Moves

\* DoSendActualRequest: the request carries the new gen.
LEMMA SendRequestStep ==
  ASSUME NEW ts \in Threads, NEW t \in Thread, NEW kind \in {"completion", "summary"}, ts[t].open
  PROVE  Step(ts, SendRequest(ts, t, kind))
<1> DEFINE req == [kind |-> kind, gen |-> ts[t].gen + 1, cancelled |-> FALSE]
           r1 == [ts[t] EXCEPT !.gen = ts[t].gen + 1]
           r2 == [r1 EXCEPT !.request = req]
<1>1. ts[t] \in ThreadType BY Get
<1>2. ts[t].gen + 1 \in Nat BY <1>1, Gens
<1>3. req \in RequestType BY <1>2 DEF RequestType
<1>4. r1 \in ThreadType BY <1>1, <1>2, Setters
<1>5. r2 \in ThreadType BY <1>3, <1>4, Setters
<1>6. /\ r2.open = ts[t].open /\ r2.gen = ts[t].gen + 1 /\ r2.request = req
      /\ r2.tools = ts[t].tools /\ r2.proc = ts[t].proc
  BY <1>1 DEF ThreadType
<1>7. SendRequest(ts, t, kind) = [ts EXCEPT ![t] = r2] BY <1>1 DEF SendRequest
<1>8. req.gen = ts[t].gen + 1 OBVIOUS
<1> HIDE DEF r2, req
<1>9. Moves(ts[t], r2) BY <1>1, <1>5, <1>6, <1>8, Begins
<1> QED BY <1>5, <1>7, <1>9, PutStep

\* RunSummaryThenSend is a request like another.
LEMMA SendSummaryStep ==
  ASSUME NEW ts \in Threads, NEW t \in Thread, ts[t].open
  PROVE  Step(ts, SendSummary(ts, t))
<1> DEFINE e == [ts EXCEPT ![t].compacting = TRUE]
<1>1. e \in Threads /\ Step(ts, e) BY Get, Setters, Put, Others, PutStep
<1>2. e[t].open BY <1>1 DEF Step, Moves
<1> HIDE DEF e
<1>3. Step(e, SendRequest(e, t, "summary")) /\ SendRequest(e, t, "summary") \in Threads
  BY <1>1, <1>2, SendRequestStep, SendRequestType
<1> QED BY <1>1, <1>3, StepTrans DEF SendSummary, e

\* StartClaudeTurn: the process carries the new gen.
LEMMA SpawnClaudeStep ==
  ASSUME NEW ts \in Threads, NEW t \in Thread, NEW resumed \in BOOLEAN, ts[t].open
  PROVE  Step(ts, SpawnClaude(ts, t, resumed))
<1> DEFINE proc == [on |-> TRUE, gen |-> ts[t].gen + 1, cancelled |-> FALSE]
           r1 == [ts[t] EXCEPT !.gen = ts[t].gen + 1]
           r2 == [r1 EXCEPT !.proc = proc]
           r3 == [r2 EXCEPT !.resumed = resumed]
           r4 == [r3 EXCEPT !.result = "none"]
<1>1. ts[t] \in ThreadType BY Get
<1>2. ts[t].gen + 1 \in Nat BY <1>1, Gens
<1>3. proc \in ProcType BY <1>2 DEF ProcType
<1>4. r1 \in ThreadType BY <1>1, <1>2, Setters
<1>5. r2 \in ThreadType BY <1>3, <1>4, Setters
<1>6. r3 \in ThreadType BY <1>5, Setters
<1>7. r4 \in ThreadType BY <1>6, Setters
<1>8. /\ r2.open = ts[t].open /\ r2.gen = ts[t].gen + 1 /\ r2.proc = proc
      /\ r2.request = ts[t].request /\ r2.tools = ts[t].tools
  BY <1>1 DEF ThreadType
<1>9. SpawnClaude(ts, t, resumed) = [ts EXCEPT ![t] = r4] BY <1>1 DEF SpawnClaude
<1>10. proc.gen = ts[t].gen + 1 OBVIOUS
<1> HIDE DEF r2, proc
<1>11. Moves(ts[t], r2) BY <1>1, <1>5, <1>8, <1>10, Begins
<1>12. Moves(r2, r3) BY <1>5, Others
<1> HIDE DEF r3
<1>13. Moves(r3, r4) BY <1>6, Others
<1> HIDE DEF r4
<1>14. Moves(ts[t], r3) BY <1>1, <1>5, <1>6, <1>11, <1>12, MovesTrans
<1>15. Moves(ts[t], r4) BY <1>1, <1>6, <1>7, <1>13, <1>14, MovesTrans
<1> QED BY <1>7, <1>9, <1>15, PutStep

\* FinalizeTurn touches no worker.
LEMMA FinalizedStep ==
  ASSUME NEW ts \in Threads, NEW t \in Thread
  PROVE  Step(ts, Finalized(ts, t))
<1>1. ASSUME NEW u \in Thread PROVE Moves(ts[u], Finalized(ts, t)[u])
  <2> DEFINE a == [ts[u] EXCEPT !.streaming = FALSE]
             b == [a EXCEPT !.failure = TRUE]
  <2>1. ts[u] \in ThreadType BY Get
  <2>2. a \in ThreadType /\ Moves(ts[u], a) BY <2>1, Setters, Others
  <2>3. b = [ts[u] EXCEPT !.streaming = FALSE, !.failure = TRUE] BY <2>1
  <2>4. b \in ThreadType /\ Moves(a, b) BY <2>2, Setters, Others
  <2>5. Moves(ts[u], ts[u]) BY <2>1, Still DEF Same
  <2>6. Finalized(ts, t)[u] \in {a, b, ts[u]} BY <2>3 DEF Finalized
  <2> HIDE DEF a, b
  <2>7. Moves(ts[u], b) BY <2>1, <2>2, <2>4, MovesTrans
  <2> QED BY <2>2, <2>5, <2>6, <2>7
<1> QED BY <1>1 DEF Step

\* ShowTurnFailure touches no worker.
LEMMA FailedStep ==
  ASSUME NEW ts \in Threads, NEW t \in Thread
  PROVE  Step(ts, Failed(ts, t))
BY Get, Setters, Others, PutStep DEF Failed

\* StartCompletion starts one worker, or none.
LEMMA StartCompletionStep ==
  ASSUME NEW ts \in Threads, NEW t \in Thread, NEW how \in ApiHow \cup ClaudeHow, ts[t].open
  PROVE  Step(ts, StartCompletion(ts, t, how))
<1> DEFINE e == [ts EXCEPT ![t].fresh = FALSE]
           resumed == how = "resume"
<1>1. e \in Threads /\ Step(ts, e) BY Get, Setters, Put, Others, PutStep
<1>2. e[t].open BY <1>1 DEF Step, Moves
<1>3. resumed \in BOOLEAN OBVIOUS
<1> HIDE DEF e, resumed
<1>4. Step(ts, SpawnClaude(e, t, resumed))
  BY <1>1, <1>2, <1>3, SpawnClaudeStep, SpawnClaudeType, StepTrans
<1>5. Step(ts, Finalized(Failed(ts, t), t))
  BY FailedStep, FailedType, FinalizedStep, FinalizedType, StepTrans
<1>6. /\ Step(ts, SendRequest(ts, t, "completion"))
      /\ Step(ts, SendSummary(ts, t))
  BY SendRequestStep, SendSummaryStep
<1> QED BY <1>4, <1>5, <1>6 DEF StartCompletion, ApiHow, ClaudeHow, e, resumed

\* StartTurn sets the flags of the new turn, then starts its first worker.
LEMMA StartTurnStep ==
  ASSUME NEW ts \in Threads, NEW t \in Thread, NEW how \in ApiHow \cup ClaudeHow, ts[t].open
  PROVE  Step(ts, StartTurn(ts, t, how))
<1> DEFINE claude == how \in ClaudeHow
           r1 == [ts[t] EXCEPT !.forced = FALSE]
           r2 == [r1 EXCEPT !.stop = FALSE]
           r3 == [r2 EXCEPT !.failure = FALSE]
           r4 == [r3 EXCEPT !.claude = claude]
           r5 == [r4 EXCEPT !.streaming = TRUE]
           r6 == [r5 EXCEPT !.round = 0]
           e == [ts EXCEPT ![t] = r6]
<1>1. ts[t] \in ThreadType BY Get
<1>2. StartTurn(ts, t, how) = StartCompletion(e, t, how) BY <1>1 DEF StartTurn
<1>3. claude \in BOOLEAN OBVIOUS
<1> HIDE DEF claude
<1>4. r1 \in ThreadType /\ Moves(ts[t], r1) BY <1>1, Setters, Others
<1> HIDE DEF r1
<1>5. r2 \in ThreadType /\ Moves(r1, r2) BY <1>4, Setters, Others
<1> HIDE DEF r2
<1>6. r3 \in ThreadType /\ Moves(r2, r3) BY <1>5, Setters, Others
<1> HIDE DEF r3
<1>7. r4 \in ThreadType /\ Moves(r3, r4) BY <1>3, <1>6, Setters, Others
<1> HIDE DEF r4
<1>8. r5 \in ThreadType /\ Moves(r4, r5) BY <1>7, Setters, Others
<1> HIDE DEF r5
<1>9. r6 \in ThreadType /\ Moves(r5, r6) BY <1>8, Setters, Others
<1> HIDE DEF r6
<1>10. Moves(ts[t], r2) BY <1>1, <1>4, <1>5, MovesTrans
<1>11. Moves(ts[t], r3) BY <1>1, <1>5, <1>6, <1>10, MovesTrans
<1>12. Moves(ts[t], r4) BY <1>1, <1>6, <1>7, <1>11, MovesTrans
<1>13. Moves(ts[t], r5) BY <1>1, <1>7, <1>8, <1>12, MovesTrans
<1>14. Moves(ts[t], r6) BY <1>1, <1>8, <1>9, <1>13, MovesTrans
<1>15. e \in Threads /\ Step(ts, e) BY <1>9, <1>14, Put, PutStep
<1>16. e[t].open BY <1>15 DEF Step, Moves
<1> HIDE DEF e
<1>17. Step(e, StartCompletion(e, t, how)) /\ StartCompletion(e, t, how) \in Threads
  BY <1>15, <1>16, StartCompletionStep, StartCompletionType
<1> QED BY <1>2, <1>15, <1>17, StepTrans

\* The next message of the queue starts a turn like one that was sent.
LEMMA DispatchNextQueuedStep ==
  ASSUME NEW ts \in Threads, NEW t \in Thread, NEW how \in ApiHow \cup ClaudeHow, ts[t].open
  PROVE  Step(ts, DispatchNextQueued(ts, t, how))
<1>1. CASE ts[t].queue = 0
  <2>1. Step(ts, ts) BY Get, Still DEF Step, Same
  <2> QED BY <1>1, <2>1 DEF DispatchNextQueued
<1>2. CASE ts[t].queue # 0
  <2> DEFINE e == [ts EXCEPT ![t].queue = @ - 1]
  <2>1. ts[t].queue - 1 \in 0..MaxQueue
    <3>1. ts[t].queue \in 0..MaxQueue BY Get, Fields
    <3> QED BY <1>2, <3>1, ThreadAssumption
  <2>2. e \in Threads /\ Step(ts, e) BY <2>1, Get, Setters, Put, Others, PutStep
  <2>3. e[t].open BY <2>2 DEF Step, Moves
  <2>4. DispatchNextQueued(ts, t, how) = StartTurn(e, t, how) BY <1>2 DEF DispatchNextQueued
  <2> HIDE DEF e
  <2> QED BY <2>2, <2>3, <2>4, StartTurnStep, StartTurnType, StepTrans
<1> QED BY <1>1, <1>2

\* Recording a batch touches no worker.
LEMMA BatchRecordedStep ==
  ASSUME NEW ts \in Threads, NEW t \in Thread
  PROVE  Step(ts, BatchRecorded(ts, t))
<1> DEFINE r1 == [ts[t] EXCEPT !.token = "none"]
           r2 == [r1 EXCEPT !.batch = NoBatch]
<1>1. NoBatch \in [Sub -> Entry] BY DEF NoBatch, Entry
<1>2. ts[t] \in ThreadType BY Get
<1>3. BatchRecorded(ts, t) = [ts EXCEPT ![t] = r2] BY <1>2 DEF BatchRecorded
<1>4. r1 \in ThreadType /\ Moves(ts[t], r1) BY <1>2, Setters, Others
<1> HIDE DEF r1
<1>5. r2 \in ThreadType /\ Moves(r1, r2) BY <1>1, <1>4, Setters, Others
<1> HIDE DEF r2
<1>6. Moves(ts[t], r2) BY <1>2, <1>4, <1>5, MovesTrans
<1> QED BY <1>3, <1>5, <1>6, PutStep

\* Neither does counting the round.
LEMMA NextRoundStep ==
  ASSUME NEW ts \in Threads, NEW t \in Thread
  PROVE  Step(ts, [BatchRecorded(ts, t) EXCEPT ![t].round = @ + 1])
<1> DEFINE e == BatchRecorded(ts, t)
<1>1. e \in Threads /\ Step(ts, e) BY BatchRecordedType, BatchRecordedStep
<1> HIDE DEF e
<1>2. e[t].round + 1 \in Nat BY <1>1, Get, Fields
<1>3. [e EXCEPT ![t].round = @ + 1] \in Threads /\ Step(e, [e EXCEPT ![t].round = @ + 1])
  BY <1>1, <1>2, Get, Setters, Put, Others, PutStep
<1>4. Step(ts, [e EXCEPT ![t].round = @ + 1]) BY <1>1, <1>3, StepTrans
<1> QED BY <1>4 DEF e

\* A handler that does nothing is a step.
LEMMA NoStep ==
  ASSUME NEW ts \in Threads
  PROVE  Step(ts, ts)
BY Get, Still DEF Step, Same

\* A parent that a report wakes starts one worker at most.
LEMMA WakeParentStep ==
  ASSUME NEW ts \in Threads, NEW p \in Thread, NEW how \in ApiHow, ts[p].open
  PROVE  Step(ts, WakeParent(ts, p, how))
<1>1. Step(ts, Finalized(BatchRecorded(ts, p), p))
  BY BatchRecordedType, BatchRecordedStep, FinalizedType, FinalizedStep, StepTrans
<1>2. Step(ts, NextRound(ts, p, how))
  <2> DEFINE e == [BatchRecorded(ts, p) EXCEPT ![p].round = @ + 1]
  <2>1. e \in Threads /\ Step(ts, e) BY NextRoundType, NextRoundStep
  <2>2. e[p].open BY <2>1 DEF Step, Moves
  <2>3. NextRound(ts, p, how) = StartCompletion(e, p, how) BY DEF NextRound
  <2> HIDE DEF e
  <2> QED BY <2>1, <2>2, <2>3, StartCompletionStep, StartCompletionType, StepTrans
<1> QED BY <1>1, <1>2, NoStep DEF WakeParent

\* ReportToParent changes the parent alone, which is a conversation.
LEMMA ReportToParentStep ==
  ASSUME NEW ts \in Threads, NEW c \in Thread, NEW failed \in BOOLEAN, NEW how \in ApiHow,
         \A p \in Top : ts[p].open
  PROVE  Step(ts, ReportToParent(ts, c, failed, how))
<1> DEFINE p == ts[c].parent
           report == CASE ~failed -> "report"
                       [] failed /\ ts[c].failure -> "failed"
                       [] OTHER -> "cancelled"
           e == [ts EXCEPT ![p].batch[c] = report]
<1>1. CASE p = NoThread \/ ts[p].batch[c] = "absent" BY <1>1, NoStep DEF ReportToParent
<1>2. CASE ~(p = NoThread \/ ts[p].batch[c] = "absent")
  <2>1. p \in Top /\ p \in Thread BY <1>2, Get, Fields DEF Thread
  <2>2. report \in Entry BY DEF Entry
  <2> HIDE DEF report
  <2>3. [ts[p].batch EXCEPT ![c] = report] \in [Sub -> Entry] BY <2>1, <2>2, Get, Fields
  <2>4. /\ [ts[p] EXCEPT !.batch = [ts[p].batch EXCEPT ![c] = report]] \in ThreadType
        /\ Moves(ts[p], [ts[p] EXCEPT !.batch = [ts[p].batch EXCEPT ![c] = report]])
    BY <2>1, <2>3, Get, Setters, Others
  <2>5. e \in Threads /\ Step(ts, e) BY <2>1, <2>4, Put, PutStep
  <2>6. e[p].open BY <2>1, <2>5 DEF Step, Moves
  <2>7. ReportToParent(ts, c, failed, how) = WakeParent(e, p, how)
    BY <1>2 DEF ReportToParent, report
  <2> HIDE DEF e, p
  <2> QED BY <2>1, <2>5, <2>6, <2>7, WakeParentStep, WakeParentType, StepTrans
<1> QED BY <1>1, <1>2

\* FinalizeTurn with its report and the next queued message.
LEMMA EndTurnStep ==
  ASSUME NEW ts \in Threads, NEW t \in Thread, NEW failed \in BOOLEAN,
         NEW how \in ApiHow \cup ClaudeHow, NEW phow \in ApiHow, Ready(ts, t)
  PROVE  Step(ts, EndTurn(ts, t, failed, how, phow))
<1> DEFINE e == Finalized(ts, t)
<1>1. e \in Threads /\ Step(ts, e) BY FinalizedType, FinalizedStep
<1>2. Ready(e, t) BY <1>1, StepReady
<1> HIDE DEF e
<1>3. Step(ts, ReportToParent(e, t, failed, phow))
  BY <1>1, <1>2, ReportToParentStep, ReportToParentType, StepTrans DEF Ready
<1>4. Step(ts, DispatchNextQueued(e, t, how))
  BY <1>1, <1>2, DispatchNextQueuedStep, DispatchNextQueuedType, StepTrans DEF Ready
<1> QED BY <1>1, <1>3, <1>4 DEF EndTurn, e

\* A completion of any thread, the refused one that reports too.
LEMMA ProceedStep ==
  ASSUME NEW ts \in Threads, NEW t \in Thread,
         NEW how \in ApiHow \cup ClaudeHow, NEW phow \in ApiHow, Ready(ts, t)
  PROVE  Step(ts, Proceed(ts, t, how, phow))
<1> DEFINE e == StartCompletion(ts, t, how)
<1>1. e \in Threads /\ Step(ts, e)
  BY StartCompletionType, StartCompletionStep DEF Ready
<1>2. Ready(e, t) BY <1>1, StepReady
<1> HIDE DEF e
<1>3. Step(ts, ReportToParent(e, t, TRUE, phow))
  BY <1>1, <1>2, ReportToParentStep, ReportToParentType, StepTrans DEF Ready
<1> QED BY <1>1, <1>3 DEF Proceed, e

\* OnToolBatchDone.
LEMMA OnToolBatchDoneStep ==
  ASSUME NEW ts \in Threads, NEW t \in Thread, NEW how \in ApiHow, NEW phow \in ApiHow,
         Ready(ts, t)
  PROVE  Step(ts, OnToolBatchDone(ts, t, how, phow))
<1>1. Step(ts, EndTurn(BatchRecorded(ts, t), t, TRUE, how, phow))
  <2> DEFINE e == BatchRecorded(ts, t)
  <2>1. e \in Threads /\ Step(ts, e) BY BatchRecordedType, BatchRecordedStep
  <2>2. Ready(e, t) BY <2>1, StepReady
  <2> HIDE DEF e
  <2> QED BY <2>1, <2>2, EndTurnStep, EndTurnType, StepTrans DEF e
<1>2. Step(ts, Proceed([BatchRecorded(ts, t) EXCEPT ![t].round = @ + 1], t, how, phow))
  <2> DEFINE e == [BatchRecorded(ts, t) EXCEPT ![t].round = @ + 1]
  <2>1. e \in Threads /\ Step(ts, e) BY NextRoundType, NextRoundStep
  <2>2. Ready(e, t) BY <2>1, StepReady
  <2> HIDE DEF e
  <2>3. Step(ts, Proceed(e, t, how, phow))
    BY <2>1, <2>2, ProceedStep, ProceedType, StepTrans
  <2> QED BY <2>3 DEF e
<1> QED BY <1>1, <1>2, NoStep DEF OnToolBatchDone

\* A name nobody used may become a subagent without a worker.
LEMMA ChildMoves ==
  ASSUME NEW r \in ThreadType, ~r.open, NEW t \in Top
  PROVE  Moves(r, Child(t))
<1>1. /\ Child(t).open /\ Child(t).gen = 0
      /\ Child(t).request = RequestOff /\ Child(t).tools = ToolsOff /\ Child(t).proc = ProcOff
  BY DEF Child, Unused
<1>2. r.gen \in Nat BY Gens
<1> QED BY <1>1, <1>2 DEF Moves, GenOK, Req, Tls, Prc, RequestOff, ToolsOff, ProcOff

\* ... or one with its first request.
LEMMA TaskChildMoves ==
  ASSUME NEW r \in ThreadType, ~r.open, NEW t \in Top, NEW how \in {"completion", "nokey"}
  PROVE  Moves(r, TaskChild(t, how))
<1> DEFINE c == TaskChild(t, how)
<1>1. CASE how = "nokey"
  <2>1. /\ c.open /\ c.gen = 0
        /\ c.request = RequestOff /\ c.tools = ToolsOff /\ c.proc = ProcOff
    BY <1>1 DEF TaskChild, Child, Unused
  <2>2. r.gen \in Nat BY Gens
  <2> HIDE DEF c
  <2>3. Moves(r, c) BY <2>1, <2>2 DEF Moves, GenOK, Req, Tls, Prc, RequestOff, ToolsOff, ProcOff
  <2> QED BY <2>3 DEF c
<1>2. CASE how # "nokey"
  <2>1. /\ c.open /\ c.gen = 1 /\ c.request.gen = 1
        /\ c.tools = ToolsOff /\ c.proc = ProcOff
    BY <1>2 DEF TaskChild, Child, Unused
  <2>2. r.gen \in Nat BY Gens
  <2> HIDE DEF c
  <2>3. Moves(r, c)
    BY <2>1, <2>2 DEF Moves, GenOK, Single, Req, Tls, Prc, ToolsOff, ProcOff
  <2> QED BY <2>3 DEF c
<1> QED BY <1>1, <1>2

\* HandleCompletion with tool calls: the worker carries the new gen, and every
\* subagent a first one.
LEMMA StartToolBatchStep ==
  ASSUME NEW ts \in Threads, NEW t \in Thread, NEW kids \in SUBSET {c \in Sub : ~ts[c].open},
         t \in Sub => kids = {}, NEW how \in {"completion", "nokey"}, ts[t].open
  PROVE  Step(ts, StartToolBatch(ts, t, kids, how))
<1> DEFINE tools == [state |-> "running", gen |-> ts[t].gen + 1]
           batch == [c \in Sub |-> IF c \notin kids THEN "absent"
                                   ELSE IF how = "nokey" THEN "failed" ELSE "empty"]
           r1 == [ts[t] EXCEPT !.gen = ts[t].gen + 1]
           r2 == [r1 EXCEPT !.tools = tools]
           r3 == [r2 EXCEPT !.token = "live"]
           r4 == [r3 EXCEPT !.batch = batch]
<1>1. ts[t] \in ThreadType BY Get
<1>2. ts[t].gen + 1 \in Nat BY <1>1, Gens
<1>3. tools \in ToolsType BY <1>2 DEF ToolsType
<1>4. batch \in [Sub -> Entry] BY DEF Entry
<1>5. r1 \in ThreadType BY <1>1, <1>2, Setters
<1>6. r2 \in ThreadType BY <1>3, <1>5, Setters
<1>7. /\ r2.open = ts[t].open /\ r2.gen = ts[t].gen + 1 /\ r2.tools = tools
      /\ r2.request = ts[t].request /\ r2.proc = ts[t].proc
  BY <1>1 DEF ThreadType
<1>8. tools.gen = ts[t].gen + 1 OBVIOUS
<1>9. StartToolBatch(ts, t, kids, how)
        = [u \in Thread |-> CASE u = t -> r4
                              [] u \in kids -> TaskChild(t, how)
                              [] OTHER -> ts[u]]
  BY <1>1 DEF StartToolBatch
<1> HIDE DEF r2, tools, batch
<1>10. Moves(ts[t], r2) BY <1>1, <1>6, <1>7, <1>8, Begins
<1>11. r3 \in ThreadType /\ Moves(r2, r3) BY <1>6, Setters, Others
<1> HIDE DEF r3
<1>12. r4 \in ThreadType /\ Moves(r3, r4) BY <1>4, <1>11, Setters, Others
<1> HIDE DEF r4
<1>13. Moves(ts[t], r3) BY <1>1, <1>6, <1>10, <1>11, MovesTrans
<1>14. Moves(ts[t], r4) BY <1>1, <1>11, <1>12, <1>13, MovesTrans
<1>15. ASSUME NEW u \in Thread, u \in kids, u # t PROVE Moves(ts[u], TaskChild(t, how))
  BY <1>15, Get, TaskChildMoves DEF Thread
<1>16. \A u \in Thread : Moves(ts[u], ts[u]) BY Get, Still DEF Same
<1> HIDE DEF r4
<1> QED BY <1>9, <1>14, <1>15, <1>16 DEF Step

-----------------------------------------------------------------------------
\* A worker less, or one that was told to stop: no gen changes.
LEMMA Fewer ==
  ASSUME NEW r \in ThreadType, NEW s \in ThreadType, s.open = r.open, s.gen = r.gen,
         s.request.gen = r.request.gen \/ s.request.gen = 0,
         s.tools.gen = r.tools.gen \/ s.tools.gen = 0,
         s.proc.gen = r.proc.gen \/ s.proc.gen = 0,
         Req(s) => Req(r), Tls(s) => Tls(r), Prc(s) => Prc(r)
  PROVE  Moves(r, s)
<1>1. /\ r.gen \in Nat /\ r.request.gen \in Nat /\ r.tools.gen \in Nat /\ r.proc.gen \in Nat
  BY Gens
<1> QED BY <1>1 DEF Moves, GenOK

\* A cancelled worker runs on, with the gen it has.
LEMMA SignalledMoves ==
  ASSUME NEW r \in ThreadType
  PROVE  Moves(r, Signalled(r))
<1> DEFINE stop == r.stop \/ r.streaming
           req  == [r.request EXCEPT !.cancelled = r.request.kind # "off"]
           proc == [r.proc EXCEPT !.cancelled = r.proc.on]
           token == IF r.token = "none" THEN "none" ELSE "cancelled"
           s == [[[[r EXCEPT !.stop = stop] EXCEPT !.request = req] EXCEPT !.proc = proc]
                    EXCEPT !.token = token]
<1>1. r.request \in RequestType /\ r.proc \in ProcType BY Fields
<1>2. /\ req.kind = r.request.kind /\ req.gen = r.request.gen
      /\ proc.on = r.proc.on /\ proc.gen = r.proc.gen
  BY <1>1 DEF RequestType, ProcType
<1>3. Signalled(r) = s BY DEF Signalled
<1>4. s \in ThreadType BY <1>3, SignalledType
<1> HIDE DEF stop, req, proc, token
<1>5. /\ s.open = r.open /\ s.gen = r.gen /\ s.tools = r.tools
      /\ s.request = req /\ s.proc = proc
  BY DEF ThreadType
<1> HIDE DEF s
<1>6. /\ s.request.gen = r.request.gen /\ s.tools.gen = r.tools.gen /\ s.proc.gen = r.proc.gen
      /\ (Req(s) => Req(r)) /\ (Tls(s) => Tls(r)) /\ (Prc(s) => Prc(r))
  BY <1>2, <1>5 DEF Req, Tls, Prc
<1>7. Moves(r, s) BY <1>4, <1>5, <1>6, Fewer
<1> QED BY <1>3, <1>7

\* RequestCancel and CancelAll start nothing.
LEMMA SignalStep ==
  ASSUME NEW ts \in Threads, NEW S
  PROVE  Step(ts, Signal(ts, S))
BY Get, SignalledMoves, Still DEF Signal, Step, Same

\* A request that has ended.
LEMMA RequestOffStep ==
  ASSUME NEW ts \in Threads, NEW t \in Thread
  PROVE  LET us == [ts EXCEPT ![t].request = RequestOff]
         IN  us \in Threads /\ Step(ts, us)
<1> DEFINE s == [ts[t] EXCEPT !.request = RequestOff]
<1>1. ts[t] \in ThreadType BY Get
<1>2. s \in ThreadType BY <1>1, OffTypes, Setters
<1>3. /\ s.open = ts[t].open /\ s.gen = ts[t].gen /\ s.request = RequestOff
      /\ s.tools = ts[t].tools /\ s.proc = ts[t].proc
  BY <1>1 DEF ThreadType
<1>4. [ts EXCEPT ![t].request = RequestOff] = [ts EXCEPT ![t] = s] OBVIOUS
<1> HIDE DEF s
<1>5. RequestOff.gen = 0 /\ ~Req(s) /\ (Tls(s) => Tls(ts[t])) /\ (Prc(s) => Prc(ts[t]))
  BY <1>3 DEF Req, Tls, Prc, RequestOff
<1>6. Moves(ts[t], s) BY <1>1, <1>2, <1>3, <1>5, Fewer
<1> QED BY <1>2, <1>4, <1>6, Put, PutStep

\* A Claude process that has ended.
LEMMA ProcOffStep ==
  ASSUME NEW ts \in Threads, NEW t \in Thread
  PROVE  LET us == [ts EXCEPT ![t].proc = ProcOff]
         IN  us \in Threads /\ Step(ts, us)
<1> DEFINE s == [ts[t] EXCEPT !.proc = ProcOff]
<1>1. ts[t] \in ThreadType BY Get
<1>2. s \in ThreadType BY <1>1, OffTypes, Setters
<1>3. /\ s.open = ts[t].open /\ s.gen = ts[t].gen /\ s.proc = ProcOff
      /\ s.tools = ts[t].tools /\ s.request = ts[t].request
  BY <1>1 DEF ThreadType
<1>4. [ts EXCEPT ![t].proc = ProcOff] = [ts EXCEPT ![t] = s] OBVIOUS
<1> HIDE DEF s
<1>5. ProcOff.gen = 0 /\ ~Prc(s) /\ (Tls(s) => Tls(ts[t])) /\ (Req(s) => Req(ts[t]))
  BY <1>3 DEF Req, Tls, Prc, ProcOff
<1>6. Moves(ts[t], s) BY <1>1, <1>2, <1>3, <1>5, Fewer
<1> QED BY <1>2, <1>4, <1>6, Put, PutStep

\* A tool worker whose callback has been handled.
LEMMA ToolsOffStep ==
  ASSUME NEW ts \in Threads, NEW t \in Thread
  PROVE  LET us == [ts EXCEPT ![t].tools = ToolsOff]
         IN  us \in Threads /\ Step(ts, us)
<1> DEFINE s == [ts[t] EXCEPT !.tools = ToolsOff]
<1>1. ts[t] \in ThreadType BY Get
<1>2. s \in ThreadType BY <1>1, OffTypes, Setters
<1>3. /\ s.open = ts[t].open /\ s.gen = ts[t].gen /\ s.tools = ToolsOff
      /\ s.request = ts[t].request /\ s.proc = ts[t].proc
  BY <1>1 DEF ThreadType
<1>4. [ts EXCEPT ![t].tools = ToolsOff] = [ts EXCEPT ![t] = s] OBVIOUS
<1> HIDE DEF s
<1>5. ToolsOff.gen = 0 /\ ~Tls(s) /\ (Req(s) => Req(ts[t])) /\ (Prc(s) => Prc(ts[t]))
  BY <1>3 DEF Req, Tls, Prc, ToolsOff
<1>6. Moves(ts[t], s) BY <1>1, <1>2, <1>3, <1>5, Fewer
<1> QED BY <1>2, <1>4, <1>6, Put, PutStep

\* The tool worker has posted its last callback.
LEMMA ReportedStep ==
  ASSUME NEW ts \in Threads, NEW t \in Thread
  PROVE  LET us == [ts EXCEPT ![t].tools.state = "reported"]
         IN  us \in Threads /\ Step(ts, us)
<1> DEFINE tools == [ts[t].tools EXCEPT !.state = "reported"]
           s == [ts[t] EXCEPT !.tools = tools]
<1>1. ts[t] \in ThreadType /\ ts[t].tools \in ToolsType BY Get, Fields
<1>2. tools \in ToolsType /\ tools.gen = ts[t].tools.gen /\ tools.state = "reported"
  BY <1>1 DEF ToolsType
<1>3. [ts EXCEPT ![t].tools.state = "reported"] = [ts EXCEPT ![t] = s] OBVIOUS
<1> HIDE DEF tools
<1>4. s \in ThreadType BY <1>1, <1>2, Setters
<1>5. /\ s.open = ts[t].open /\ s.gen = ts[t].gen /\ s.tools = tools
      /\ s.request = ts[t].request /\ s.proc = ts[t].proc
  BY <1>1 DEF ThreadType
<1> HIDE DEF s
<1>6. s.tools.gen = ts[t].tools.gen /\ ~Tls(s) /\ (Req(s) => Req(ts[t])) /\ (Prc(s) => Prc(ts[t]))
  BY <1>2, <1>5 DEF Req, Tls, Prc
<1>7. Moves(ts[t], s) BY <1>1, <1>4, <1>5, <1>6, Fewer
<1> QED BY <1>3, <1>4, <1>7, Put, PutStep

\* OnClose starts nothing, whether it waits or not.
LEMMA CloseStep ==
  ASSUME NEW ts \in Threads, Close(ts)
  PROVE  Step(ts, thr')
BY SignalStep, NoStep DEF Close, CancelAll

-----------------------------------------------------------------------------
\* OneJob says what no handler may break; GenInv is what it rests on: gens only
\* ever lag behind their thread's.
GenInv ==
  /\ \A t \in Thread : GenOK(thr[t])
  /\ \A p \in Top : thr[p].open
  /\ \A i \in DOMAIN mail : mail[i].gen <= thr[mail[i].to].gen

IInv == TypeOK /\ GenInv /\ OneJob

\* OneJob of one thread, in the terms of the gen protocol.
LastCallOf(r, t, m) == m.to = t /\ m.gen = r.gen /\ m.kind \in LastCall

OnlyJob(r, t, ms) ==
  /\ Single(r)
  /\ (\E i \in DOMAIN ms : LastCallOf(r, t, ms[i])) => ~Req(r) /\ ~Tls(r) /\ ~Prc(r)
  /\ \A i, j \in DOMAIN ms : LastCallOf(r, t, ms[i]) /\ LastCallOf(r, t, ms[j]) => i = j

\* OneJob is OnlyJob of every thread.
LEMMA OneJobAlone == OneJob <=> \A t \in Thread : OnlyJob(thr[t], t, mail)
BY DEF OneJob, OnlyJob, Single, LastCallOf, Requesting, ToolsRun, ClaudeRuns, Announced, Awaited,
       Req, Tls, Prc

\* The same of the next state.
LEMMA OneJobAloneNext == OneJob' <=> \A t \in Thread : OnlyJob(thr'[t], t, mail')
BY DEF OneJob, OnlyJob, Single, LastCallOf, Requesting, ToolsRun, ClaudeRuns, Announced, Awaited,
       Req, Tls, Prc

\* What IInv says of a callback in the queue.
LEMMA Waiting ==
  ASSUME IInv, NEW i \in DOMAIN mail
  PROVE  /\ mail[i].to \in Thread /\ mail[i].gen \in Nat
         /\ mail[i].gen <= thr[mail[i].to].gen
<1>1. mail[i] \in Call
  <2>1. mail \in Seq(Call) BY DEF IInv, TypeOK
  <2> QED BY <2>1
<1> QED BY <1>1 DEF Call, IInv, GenInv

\* The callbacks that are left when the GUI thread takes one, or none.
Kept(ms, ns) ==
  \E k \in {0, 1} : \A i \in DOMAIN ns : i + k \in DOMAIN ms /\ ns[i] = ms[i + k]

LEMMA KeptTail ==
  ASSUME NEW S, NEW ms \in Seq(S), NEW ns, ns = ms \/ (ms # <<>> /\ ns = Tail(ms))
  PROVE  Kept(ms, ns) /\ DOMAIN ns \subseteq Nat
<1>1. CASE ns = ms
  <2>1. \A i \in DOMAIN ns : i + 0 = i BY <1>1
  <2> QED BY <1>1, <2>1 DEF Kept
<1>2. CASE ms # <<>> /\ ns = Tail(ms)
  <2>1. \A i \in DOMAIN ns : i + 1 \in DOMAIN ms /\ ns[i] = ms[i + 1] BY <1>2
  <2>2. DOMAIN ns \subseteq Nat BY <1>2
  <2> QED BY <2>1, <2>2 DEF Kept
<1> QED BY <1>1, <1>2

\* A handler that takes one callback at most keeps every thread to one job.
LEMMA FirstHandled ==
  ASSUME IInv, thr' \in Threads, Step(thr, thr'), Kept(mail, mail'), DOMAIN mail' \subseteq Nat
  PROVE  GenInv' /\ OneJob'
<1>1. PICK k \in {0, 1} : \A i \in DOMAIN mail' : i + k \in DOMAIN mail /\ mail'[i] = mail[i + k]
  BY DEF Kept
<1>2. thr \in Threads BY DEF IInv, TypeOK, Threads
<1>3. ASSUME NEW u \in Thread
      PROVE  /\ thr[u].gen \in Nat /\ thr'[u].gen \in Nat
             /\ GenOK(thr[u]) /\ Moves(thr[u], thr'[u]) /\ OnlyJob(thr[u], u, mail)
  BY <1>2, Get, Gens, OneJobAlone DEF IInv, GenInv, Step
<1>4. ASSUME NEW u \in Thread PROVE GenOK(thr'[u]) /\ thr[u].gen <= thr'[u].gen
  BY <1>3 DEF Moves
<1>5. ASSUME NEW i \in DOMAIN mail'
      PROVE  /\ mail'[i].to \in Thread /\ mail'[i].gen \in Nat
             /\ mail'[i].gen <= thr[mail'[i].to].gen
  BY <1>1, Waiting
<1>6. GenInv'
  <2>1. \A p \in Top : thr'[p].open BY DEF IInv, GenInv, Step, Moves, Thread
  <2>2. ASSUME NEW i \in DOMAIN mail' PROVE mail'[i].gen <= thr'[mail'[i].to].gen
    BY <1>3, <1>4, <1>5
  <2> QED BY <1>4, <2>1, <2>2 DEF GenInv
<1>7. ASSUME NEW u \in Thread PROVE OnlyJob(thr'[u], u, mail')
  <2>1. CASE thr'[u].gen = thr[u].gen
    <3>1. (Req(thr'[u]) => Req(thr[u])) /\ (Tls(thr'[u]) => Tls(thr[u]))
            /\ (Prc(thr'[u]) => Prc(thr[u]))
      BY <1>3, <2>1 DEF Moves
    <3>2. ASSUME NEW i \in DOMAIN mail', LastCallOf(thr'[u], u, mail'[i])
          PROVE  i + k \in DOMAIN mail /\ LastCallOf(thr[u], u, mail[i + k])
      BY <1>1, <2>1, <3>2 DEF LastCallOf
    <3>3. Single(thr'[u]) BY <1>3, <3>1 DEF OnlyJob, Single
    <3>4. ASSUME NEW i \in DOMAIN mail', LastCallOf(thr'[u], u, mail'[i])
          PROVE  ~Req(thr'[u]) /\ ~Tls(thr'[u]) /\ ~Prc(thr'[u])
      <4>1. ~Req(thr[u]) /\ ~Tls(thr[u]) /\ ~Prc(thr[u]) BY <1>3, <3>2, <3>4 DEF OnlyJob
      <4> QED BY <3>1, <4>1
    <3>5. ASSUME NEW i \in DOMAIN mail', NEW j \in DOMAIN mail',
                 LastCallOf(thr'[u], u, mail'[i]), LastCallOf(thr'[u], u, mail'[j])
          PROVE  i = j
      <4>1. i + k = j + k BY <1>3, <3>2, <3>5 DEF OnlyJob
      <4>2. i \in Nat /\ j \in Nat OBVIOUS
      <4> QED BY <4>1, <4>2
    <3> QED BY <3>3, <3>4, <3>5 DEF OnlyJob
  <2>2. CASE thr'[u].gen # thr[u].gen
    <3>1. Single(thr'[u]) BY <1>3, <2>2 DEF Moves
    <3>2. ASSUME NEW i \in DOMAIN mail', LastCallOf(thr'[u], u, mail'[i]) PROVE FALSE
      <4>1. mail'[i].gen <= thr[u].gen /\ mail'[i].gen = thr'[u].gen
        BY <1>5, <3>2 DEF LastCallOf
      <4> QED BY <1>3, <1>4, <2>2, <4>1
    <3> QED BY <3>1, <3>2 DEF OnlyJob
  <2> QED BY <2>1, <2>2
<1> QED BY <1>6, <1>7, OneJobAloneNext

\* A worker that posts keeps every thread to one job, if the callback it posts
\* is no last one, or is the last one of a worker that has just gone.
LEMMA Posted ==
  ASSUME IInv, thr' \in Threads, Step(thr, thr'), \A u \in Thread : thr'[u].gen = thr[u].gen,
         NEW t \in Thread, NEW m, mail' = Append(mail, m),
         m.to = t, m.gen <= thr[t].gen,
         LastCallOf(thr[t], t, m) =>
           /\ Req(thr[t]) \/ Tls(thr[t]) \/ Prc(thr[t])
           /\ ~Req(thr'[t]) /\ ~Tls(thr'[t]) /\ ~Prc(thr'[t])
  PROVE  GenInv' /\ OneJob'
<1>1. thr \in Threads /\ mail \in Seq(Call) BY DEF IInv, TypeOK, Threads
<1>2. ASSUME NEW u \in Thread
      PROVE  /\ GenOK(thr[u]) /\ Moves(thr[u], thr'[u]) /\ OnlyJob(thr[u], u, mail)
             /\ thr'[u].gen = thr[u].gen
  BY OneJobAlone DEF IInv, GenInv, Step
<1>3. ASSUME NEW u \in Thread
      PROVE  /\ GenOK(thr'[u])
             /\ (Req(thr'[u]) => Req(thr[u])) /\ (Tls(thr'[u]) => Tls(thr[u]))
             /\ (Prc(thr'[u]) => Prc(thr[u]))
  BY <1>2 DEF Moves
<1>4. ASSUME NEW i \in DOMAIN mail'
      PROVE  \/ i \in DOMAIN mail /\ mail'[i] = mail[i]
             \/ i = Len(mail) + 1 /\ mail'[i] = m
  BY <1>1
<1>5. GenInv'
  <2>1. \A p \in Top : thr'[p].open BY DEF IInv, GenInv, Step, Moves, Thread
  <2>2. ASSUME NEW i \in DOMAIN mail' PROVE mail'[i].gen <= thr'[mail'[i].to].gen
    <3>1. CASE i \in DOMAIN mail /\ mail'[i] = mail[i] BY <1>2, <3>1, Waiting
    <3>2. CASE mail'[i] = m BY <1>2, <3>2
    <3> QED BY <1>4, <3>1, <3>2
  <2> QED BY <1>3, <2>1, <2>2 DEF GenInv
<1>6. ASSUME NEW u \in Thread PROVE OnlyJob(thr'[u], u, mail')
  <2>1. Single(thr'[u]) BY <1>2, <1>3 DEF OnlyJob, Single
  <2>2. ASSUME NEW i \in DOMAIN mail', LastCallOf(thr'[u], u, mail'[i])
        PROVE  \/ i \in DOMAIN mail /\ LastCallOf(thr[u], u, mail[i])
               \/ i = Len(mail) + 1 /\ u = t /\ LastCallOf(thr[t], t, m)
    <3>1. LastCallOf(thr[u], u, mail'[i]) BY <1>2, <2>2 DEF LastCallOf
    <3>2. CASE i \in DOMAIN mail /\ mail'[i] = mail[i] BY <3>1, <3>2
    <3>3. CASE i = Len(mail) + 1 /\ mail'[i] = m BY <3>1, <3>3 DEF LastCallOf
    <3> QED BY <1>4, <3>2, <3>3
  <2>3. ASSUME NEW i \in DOMAIN mail', LastCallOf(thr'[u], u, mail'[i])
        PROVE  ~Req(thr'[u]) /\ ~Tls(thr'[u]) /\ ~Prc(thr'[u])
    <3>1. CASE i \in DOMAIN mail /\ LastCallOf(thr[u], u, mail[i]) BY <1>2, <1>3, <3>1 DEF OnlyJob
    <3>2. CASE u = t /\ LastCallOf(thr[t], t, m) BY <3>2
    <3> QED BY <2>2, <2>3, <3>1, <3>2
  <2>4. ASSUME NEW i \in DOMAIN mail, LastCallOf(thr[u], u, mail[i]), u = t, LastCallOf(thr[t], t, m)
        PROVE  FALSE
    BY <1>2, <2>4 DEF OnlyJob
  <2>5. ASSUME NEW i \in DOMAIN mail', NEW j \in DOMAIN mail',
               LastCallOf(thr'[u], u, mail'[i]), LastCallOf(thr'[u], u, mail'[j])
        PROVE  i = j
    <3>1. CASE i \in DOMAIN mail /\ LastCallOf(thr[u], u, mail[i])
      <4>1. j \in DOMAIN mail /\ LastCallOf(thr[u], u, mail[j]) BY <2>2, <2>4, <2>5, <3>1
      <4> QED BY <1>2, <3>1, <4>1 DEF OnlyJob
    <3>2. CASE i = Len(mail) + 1 /\ u = t /\ LastCallOf(thr[t], t, m) BY <2>2, <2>4, <2>5, <3>2
    <3> QED BY <2>2, <2>5, <3>1, <3>2
  <2> QED BY <2>1, <2>3, <2>5 DEF OnlyJob
<1> QED BY <1>5, <1>6, OneJobAloneNext

-----------------------------------------------------------------------------
\* Nothing runs when the frame starts.
THEOREM InitOneJob == Init => IInv
<1> SUFFICES ASSUME Init PROVE IInv OBVIOUS
<1>1. ASSUME NEW t \in Thread
      PROVE  /\ thr[t].gen = 0 /\ thr[t].request = RequestOff
             /\ thr[t].tools = ToolsOff /\ thr[t].proc = ProcOff
  BY DEF Init, Unused
<1>2. ASSUME NEW t \in Thread PROVE GenOK(thr[t]) /\ Single(thr[t])
  BY <1>1 DEF GenOK, Single, Req, Tls, Prc, RequestOff, ToolsOff, ProcOff
<1>3. DOMAIN mail = {} BY DEF Init
<1>4. \A p \in Top : thr[p].open BY DEF Init, Unused, Thread
<1>5. GenInv BY <1>2, <1>3, <1>4 DEF GenInv
<1>6. OneJob BY <1>2, <1>3, OneJobAlone DEF OnlyJob
<1> QED BY <1>5, <1>6, InitType DEF IInv

\* What every case below starts from.
LEMMA Facts ==
  ASSUME IInv
  PROVE  /\ thr \in Threads /\ mail \in Seq(Call)
         /\ \A p \in Top : thr[p].open
         /\ \A t \in Thread : thr[t].open => Ready(thr, t)
BY DEF IInv, TypeOK, GenInv, Ready, Threads

\* The user starts turns in idle threads, queues, and cancels.
LEMMA UserOneJob ==
  ASSUME IInv, NEW t \in Thread, User(t)
  PROVE  GenInv' /\ OneJob'
<1>1. /\ thr \in Threads /\ mail \in Seq(Call) /\ \A p \in Top : thr[p].open
      /\ thr[t].open => Ready(thr, t)
  BY Facts
<1>2. UNCHANGED mail
  BY DEF User, Send, Enqueue, Play, ContinueQueue, ClearQueue, RemoveChip, Cancel,
         UserInput, UserChoice
<1>3. Kept(mail, mail') /\ DOMAIN mail' \subseteq Nat BY <1>1, <1>2, KeptTail
<1>4. ASSUME thr' \in Threads, Step(thr, thr') PROVE GenInv' /\ OneJob'
  BY <1>3, <1>4, FirstHandled
<1>5. ASSUME NEW n \in 0..MaxQueue, thr' = [thr EXCEPT ![t].queue = n]
      PROVE  GenInv' /\ OneJob'
  BY <1>1, <1>4, <1>5, Get, Setters, Put, Others, PutStep
<1>6. thr[t].queue \in 0..MaxQueue /\ MaxQueue \in Nat BY <1>1, Get, Fields, ThreadAssumption
<1>7. CASE Send(t) BY <1>1, <1>4, <1>7, StartTurnType, StartTurnStep DEF Send
<1>8. CASE Enqueue(t)
  <2> DEFINE n == thr[t].queue + 1
  <2>1. n \in 0..MaxQueue BY <1>6, <1>8 DEF Enqueue
  <2>2. thr' = [thr EXCEPT ![t].queue = n] BY <1>1, <1>8 DEF Enqueue
  <2> HIDE DEF n
  <2> QED BY <1>5, <2>1, <2>2
<1>9. CASE Play(t)
  <2>1. PICK how \in ApiHow \cup ClaudeHow, phow \in ApiHow :
          LET e == StartTurn(thr, t, how)
          IN  thr' = IF how \in Refusal THEN ReportToParent(e, t, TRUE, phow) ELSE e
    BY <1>9 DEF Play
  <2> DEFINE e == StartTurn(thr, t, how)
  <2>2. thr' = IF how \in Refusal THEN ReportToParent(e, t, TRUE, phow) ELSE e BY <2>1
  <2>3. thr[t].open BY <1>9 DEF Play
  <2>4. e \in Threads /\ Step(thr, e) BY <1>1, <2>3, StartTurnType, StartTurnStep
  <2>5. Ready(e, t) BY <1>1, <2>3, <2>4, StepReady
  <2> HIDE DEF e
  <2>6. /\ ReportToParent(e, t, TRUE, phow) \in Threads
        /\ Step(thr, ReportToParent(e, t, TRUE, phow))
    BY <1>1, <2>4, <2>5, ReportToParentType, ReportToParentStep, StepTrans DEF Ready
  <2> QED BY <1>4, <2>2, <2>4, <2>6
<1>10. CASE ContinueQueue(t)
  BY <1>1, <1>4, <1>10, DispatchNextQueuedType, DispatchNextQueuedStep
  DEF ContinueQueue, UserChoice
<1>11. CASE ClearQueue(t)
  <2> DEFINE n == 0
  <2>1. n \in 0..MaxQueue BY <1>6, <1>11 DEF ClearQueue
  <2>2. thr' = [thr EXCEPT ![t].queue = n] BY <1>1, <1>11 DEF ClearQueue
  <2> HIDE DEF n
  <2> QED BY <1>5, <2>1, <2>2
<1>12. CASE RemoveChip(t)
  <2> DEFINE n == thr[t].queue - 1
  <2>1. n \in 0..MaxQueue BY <1>6, <1>12 DEF RemoveChip
  <2>2. thr' = [thr EXCEPT ![t].queue = n] BY <1>1, <1>12 DEF RemoveChip
  <2> HIDE DEF n
  <2> QED BY <1>5, <2>1, <2>2
<1>13. CASE Cancel(t)
  BY <1>1, <1>4, <1>13, SignalType, SignalStep DEF Cancel, RequestCancel
<1> QED BY <1>7, <1>8, <1>9, <1>10, <1>11, <1>12, <1>13 DEF User

\* A worker is gone once it has posted its last callback.
LEMMA WorkerOneJob ==
  ASSUME IInv, NEW t \in Thread, Worker(t)
  PROVE  GenInv' /\ OneJob'
<1>1. thr \in Threads /\ mail \in Seq(Call) BY Facts
<1>2. /\ thr[t] \in ThreadType /\ GenOK(thr[t]) /\ Single(thr[t])
  BY <1>1, Get, OneJobAlone DEF IInv, GenInv, OnlyJob
<1>3. CASE RequestEnds(t)
  <2>1. thr' = [thr EXCEPT ![t].request = RequestOff] BY <1>3 DEF RequestEnds
  <2>2. PICK m : /\ mail' = Append(mail, m) /\ m.to = t /\ m.gen = thr[t].request.gen
    BY <1>3 DEF RequestEnds, Post
  <2>3. thr' \in Threads /\ Step(thr, thr') BY <1>1, <2>1, RequestOffStep
  <2>4. /\ thr'[t].request = RequestOff /\ thr'[t].tools = thr[t].tools
        /\ thr'[t].proc = thr[t].proc /\ thr'[t].gen = thr[t].gen
        /\ \A u \in Thread : thr'[u].gen = thr[u].gen
    BY <1>1, <2>1 DEF Threads, ThreadType
  <2>5. ASSUME LastCallOf(thr[t], t, m) PROVE Req(thr[t])
    BY <1>3, <2>2, <2>5 DEF LastCallOf, Req, RequestEnds
  <2>6. ASSUME Req(thr[t]) PROVE ~Req(thr'[t]) /\ ~Tls(thr'[t]) /\ ~Prc(thr'[t])
    BY <1>2, <2>4, <2>6 DEF Single, Req, Tls, Prc, RequestOff
  <2>7. m.gen <= thr[t].gen BY <1>2, <2>2 DEF GenOK
  <2> QED BY <2>2, <2>3, <2>4, <2>5, <2>6, <2>7, Posted
<1>4. CASE ToolsEnd(t)
  <2>1. thr' = [thr EXCEPT ![t].tools.state = "reported"] BY <1>4 DEF ToolsEnd
  <2>2. PICK m : /\ mail' = Append(mail, m) /\ m.to = t /\ m.gen = thr[t].tools.gen
    BY <1>4 DEF ToolsEnd, Post
  <2>3. thr' \in Threads /\ Step(thr, thr') BY <1>1, <2>1, ReportedStep
  <2>4. /\ thr'[t].tools.state = "reported" /\ thr'[t].request = thr[t].request
        /\ thr'[t].proc = thr[t].proc /\ thr'[t].gen = thr[t].gen
        /\ \A u \in Thread : thr'[u].gen = thr[u].gen
    BY <1>1, <2>1 DEF Threads, ThreadType, ToolsType
  <2>5. ASSUME LastCallOf(thr[t], t, m) PROVE Tls(thr[t])
    BY <1>4, <2>2, <2>5 DEF LastCallOf, Tls, ToolsEnd
  <2>6. ASSUME Tls(thr[t]) PROVE ~Req(thr'[t]) /\ ~Tls(thr'[t]) /\ ~Prc(thr'[t])
    BY <1>2, <2>4, <2>6 DEF Single, Req, Tls, Prc
  <2>7. m.gen <= thr[t].gen BY <1>2, <2>2 DEF GenOK
  <2> QED BY <2>2, <2>3, <2>4, <2>5, <2>6, <2>7, Posted
<1>5. CASE ClaudeSays(t)
  <2>1. UNCHANGED thr BY <1>5 DEF ClaudeSays
  <2>2. PICK m : /\ mail' = Append(mail, m) /\ m.to = t /\ m.gen = thr[t].proc.gen
                 /\ m.kind \in ClaudeLine
    BY <1>5 DEF ClaudeSays, Post
  <2>3. thr' \in Threads /\ Step(thr, thr') BY <1>1, <2>1, NoStep
  <2>4. \A u \in Thread : thr'[u].gen = thr[u].gen BY <2>1
  <2>5. ~LastCallOf(thr[t], t, m) BY <2>2 DEF LastCallOf, LastCall, ClaudeLine
  <2>6. m.gen <= thr[t].gen BY <1>2, <2>2 DEF GenOK
  <2> QED BY <2>2, <2>3, <2>4, <2>5, <2>6, Posted
<1>6. CASE ClaudeEnds(t)
  <2>1. thr' = [thr EXCEPT ![t].proc = ProcOff] BY <1>6 DEF ClaudeEnds
  <2>2. PICK m : /\ mail' = Append(mail, m) /\ m.to = t /\ m.gen = thr[t].proc.gen
    BY <1>6 DEF ClaudeEnds, Post
  <2>3. thr' \in Threads /\ Step(thr, thr') BY <1>1, <2>1, ProcOffStep
  <2>4. /\ thr'[t].proc = ProcOff /\ thr'[t].request = thr[t].request
        /\ thr'[t].tools = thr[t].tools /\ thr'[t].gen = thr[t].gen
        /\ \A u \in Thread : thr'[u].gen = thr[u].gen
    BY <1>1, <2>1 DEF Threads, ThreadType
  <2>5. ASSUME LastCallOf(thr[t], t, m) PROVE Prc(thr[t])
    BY <1>6, <2>2, <2>5 DEF LastCallOf, Prc, ClaudeEnds
  <2>6. ASSUME Prc(thr[t]) PROVE ~Req(thr'[t]) /\ ~Tls(thr'[t]) /\ ~Prc(thr'[t])
    BY <1>2, <2>4, <2>6 DEF Single, Req, Tls, Prc, ProcOff
  <2>7. m.gen <= thr[t].gen BY <1>2, <2>2 DEF GenOK
  <2> QED BY <2>2, <2>3, <2>4, <2>5, <2>6, <2>7, Posted
<1> QED BY <1>3, <1>4, <1>5, <1>6 DEF Worker

\* A callback of work that has not been replaced works on the thread it is for.
LEMMA CallbackOneJob ==
  ASSUME IInv, NEW t \in Thread, Callback(t)
  PROVE  thr' \in Threads /\ Step(thr, thr')
<1>1. /\ thr \in Threads /\ mail \in Seq(Call) /\ \A p \in Top : thr[p].open
      /\ \A u \in Thread : thr[u].open => Ready(thr, u)
  BY Facts
<1>2. Found(thr, Head(mail)) /\ t = Head(mail).to
  BY DEF Callback, Take, Handle, ClaudeEvent,
         OnCompletionCancelled, OnCompletionFailed, OnOverflow, OnReply, OnToolCalls,
         OnSummaryCancelled, OnSummary, OnToolsDone, OnClaudeCancelled, OnClaudeGone,
         OnClaudeReply, OnClaudeFailed, OnAgentStarted, OnAgentEnded, OnResult
<1>3. thr[t].open /\ Ready(thr, t) BY <1>1, <1>2 DEF Found
<1>4. Step(thr, thr) BY <1>1, NoStep
<1>5. /\ \A e \in Threads : Step(thr, e) => Ready(e, t)
      /\ \A e, f \in Threads : Step(thr, e) /\ Step(e, f) => Step(thr, f)
  BY <1>1, <1>3, StepReady, StepTrans
<1>6. Failed(thr, t) \in Threads /\ Step(thr, Failed(thr, t))
  BY <1>1, FailedType, FailedStep
<1>7. CASE OnCompletionCancelled(t)
  BY <1>1, <1>3, <1>4, <1>7, EndTurnType, EndTurnStep DEF OnCompletionCancelled, ApiHow
<1>8. CASE OnCompletionFailed(t)
  <2> DEFINE e == Failed(thr, t)
  <2>1. PICK phow \in ApiHow : thr' = EndTurn(e, t, TRUE, "nokey", phow)
    BY <1>8 DEF OnCompletionFailed
  <2>2. e \in Threads /\ Step(thr, e) /\ Ready(e, t) BY <1>5, <1>6
  <2> HIDE DEF e
  <2> QED BY <1>1, <1>5, <2>1, <2>2, EndTurnType, EndTurnStep DEF ApiHow
<1>9. CASE OnOverflow(t)
  <2> DEFINE e == [thr EXCEPT ![t].forced = TRUE]
  <2>1. PICK phow \in ApiHow : thr' \in {SendSummary(e, t), Proceed(e, t, "nokey", phow)}
    BY <1>9 DEF OnOverflow
  <2>2. e \in Threads /\ Step(thr, e) BY <1>1, Get, Setters, Put, Others, PutStep
  <2>3. Ready(e, t) /\ e[t].open BY <1>5, <2>2 DEF Ready
  <2> HIDE DEF e
  <2>4. SendSummary(e, t) \in Threads /\ Step(e, SendSummary(e, t))
    BY <2>2, <2>3, SendSummaryType, SendSummaryStep
  <2>5. Proceed(e, t, "nokey", phow) \in Threads /\ Step(e, Proceed(e, t, "nokey", phow))
    BY <2>2, <2>3, ProceedType, ProceedStep DEF ApiHow
  <2> QED BY <1>5, <2>1, <2>2, <2>4, <2>5
<1>10. CASE OnReply(t)
  BY <1>1, <1>3, <1>10, EndTurnType, EndTurnStep DEF OnReply
<1>11. CASE OnToolCalls(t)
  <2>1. PICK kids \in SUBSET {c \in Sub : ~thr[c].open}, how \in {"completion", "nokey"} :
          (t \in Sub => kids = {}) /\ thr' = StartToolBatch(thr, t, kids, how)
    BY <1>11 DEF OnToolCalls
  <2> QED BY <1>1, <1>3, <2>1, StartToolBatchType, StartToolBatchStep
<1>12. CASE OnSummaryCancelled(t)
  <2> DEFINE e == [thr EXCEPT ![t].compacting = FALSE]
  <2>1. PICK phow \in ApiHow : thr' = EndTurn(e, t, TRUE, "nokey", phow)
    BY <1>12 DEF OnSummaryCancelled
  <2>2. e \in Threads /\ Step(thr, e) BY <1>1, Get, Setters, Put, Others, PutStep
  <2> HIDE DEF e
  <2>3. Ready(e, t) BY <1>5, <2>2
  <2> QED BY <1>5, <2>1, <2>2, <2>3, EndTurnType, EndTurnStep DEF ApiHow
<1>13. CASE OnSummary(t)
  <2> DEFINE e == [thr EXCEPT ![t].compacting = FALSE]
  <2>1. PICK how \in {"completion", "nokey"}, phow \in ApiHow : thr' = Proceed(e, t, how, phow)
    BY <1>13 DEF OnSummary
  <2>2. e \in Threads /\ Step(thr, e) BY <1>1, Get, Setters, Put, Others, PutStep
  <2> HIDE DEF e
  <2>3. Ready(e, t) BY <1>5, <2>2
  <2> QED BY <1>5, <2>1, <2>2, <2>3, ProceedType, ProceedStep DEF ApiHow
<1>14. CASE OnToolsDone(t)
  <2> DEFINE e == [thr EXCEPT ![t].tools = ToolsOff]
  <2>1. PICK how \in ApiHow, phow \in ApiHow : thr' = OnToolBatchDone(e, t, how, phow)
    BY <1>14 DEF OnToolsDone
  <2>2. e \in Threads /\ Step(thr, e) BY <1>1, ToolsOffStep
  <2> HIDE DEF e
  <2>3. Ready(e, t) BY <1>5, <2>2
  <2> QED BY <1>5, <2>1, <2>2, <2>3, OnToolBatchDoneType, OnToolBatchDoneStep
<1>15. CASE OnClaudeCancelled(t)
  BY <1>1, <1>15, FinalizedType, FinalizedStep DEF OnClaudeCancelled
<1>16. CASE OnClaudeGone(t)
  <2> DEFINE e == [thr EXCEPT ![t].fresh = TRUE]
  <2>1. thr' \in {SpawnClaude(e, t, FALSE), Finalized(Failed(e, t), t)}
    BY <1>16 DEF OnClaudeGone
  <2>2. e \in Threads /\ Step(thr, e) BY <1>1, Get, Setters, Put, Others, PutStep
  <2> HIDE DEF e
  <2>3. e[t].open BY <1>5, <2>2 DEF Ready
  <2>4. SpawnClaude(e, t, FALSE) \in Threads /\ Step(e, SpawnClaude(e, t, FALSE))
    BY <2>2, <2>3, SpawnClaudeType, SpawnClaudeStep
  <2>5. Finalized(Failed(e, t), t) \in Threads /\ Step(e, Finalized(Failed(e, t), t))
    BY <2>2, FailedType, FailedStep, FinalizedType, FinalizedStep, StepTrans
  <2> QED BY <1>5, <2>1, <2>2, <2>4, <2>5
<1>17. CASE OnClaudeReply(t)
  BY <1>1, <1>3, <1>17, EndTurnType, EndTurnStep DEF OnClaudeReply
<1>18. CASE OnClaudeFailed(t)
  <2> DEFINE e == Failed(thr, t)
  <2>1. thr' = Finalized(e, t) BY <1>18 DEF OnClaudeFailed
  <2>2. e \in Threads /\ Step(thr, e) BY <1>6
  <2> HIDE DEF e
  <2> QED BY <1>5, <2>1, <2>2, FinalizedType, FinalizedStep
<1>19. CASE OnAgentStarted(t)
  <2>1. CASE UNCHANGED thr BY <1>1, <1>4, <2>1
  <2>2. CASE ~UNCHANGED thr
    <3>1. PICK c \in Sub : ~thr[c].open /\ thr' = [thr EXCEPT ![c] = Child(t)]
      BY <1>19, <2>2 DEF OnAgentStarted
    <3>2. t \in Top BY <1>19, <2>2 DEF OnAgentStarted
    <3>3. c \in Thread BY DEF Thread
    <3>4. Child(t) \in ThreadType /\ Moves(thr[c], Child(t))
      BY <1>1, <3>1, <3>2, <3>3, Get, ChildType, ChildMoves
    <3> QED BY <1>1, <3>1, <3>3, <3>4, Put, PutStep
  <2> QED BY <2>1, <2>2
<1>20. CASE OnAgentEnded(t)
  <2>1. CASE ~HasRunningChild(thr, t) BY <1>1, <1>4, <1>20, <2>1 DEF OnAgentEnded
  <2>2. CASE HasRunningChild(thr, t)
    <3>1. PICK kind \in {"agentOk", "agentFailed"},
               c \in RunningChildren(thr, t), phow \in ApiHow :
            thr' = EndTurn(IF kind = "agentOk" THEN thr ELSE Failed(thr, c), c,
                           kind = "agentFailed", "nokey", phow)
      BY <1>20, <2>2 DEF OnAgentEnded
    <3> DEFINE e == IF kind = "agentOk" THEN thr ELSE Failed(thr, c)
               failed == kind = "agentFailed"
    <3>2. c \in Thread /\ thr[c].open BY DEF RunningChildren, Children, Thread
    <3>3. e \in Threads /\ Step(thr, e) BY <1>1, <1>4, <3>2, FailedType, FailedStep
    <3>4. failed \in BOOLEAN OBVIOUS
    <3>5. thr' = EndTurn(e, c, failed, "nokey", phow) BY <3>1
    <3> HIDE DEF e, failed
    <3>6. Ready(e, c) BY <1>1, <3>2, <3>3, StepReady
    <3> QED BY <1>5, <3>2, <3>3, <3>4, <3>5, <3>6, EndTurnType, EndTurnStep DEF ApiHow
  <2> QED BY <2>1, <2>2
<1>21. CASE OnResult(t)
  <2>1. PICK v \in {"none", "ok", "error"} : thr' = [thr EXCEPT ![t].result = v]
    BY <1>21 DEF OnResult
  <2> QED BY <1>1, <2>1, Get, Setters, Put, Others, PutStep
<1> QED BY <1>7, <1>8, <1>9, <1>10, <1>11, <1>12, <1>13, <1>14, <1>15, <1>16, <1>17, <1>18,
           <1>19, <1>20, <1>21 DEF Callback

\* Every step of the user, of a worker and of the GUI thread keeps IInv.
THEOREM NextOneJob == IInv /\ [Next]_vars => IInv'
<1> SUFFICES ASSUME IInv, [Next]_vars PROVE IInv' OBVIOUS
<1>1. TypeOK' BY NextType DEF IInv
<1>2. thr' \in Threads BY <1>1 DEF TypeOK, Threads
<1>3. thr \in Threads /\ mail \in Seq(Call) BY Facts
<1>4. ASSUME Step(thr, thr'), mail' = mail \/ (mail # <<>> /\ mail' = Tail(mail))
      PROVE  GenInv' /\ OneJob'
  BY <1>2, <1>3, <1>4, KeptTail, FirstHandled
<1>5. Step(thr, thr) BY <1>3, NoStep
<1>6. CASE \E t \in Thread : User(t) \/ Worker(t)
  BY <1>1, <1>6, UserOneJob, WorkerOneJob DEF IInv
<1>7. CASE CloseWindow
  <2>1. Step(thr, thr') BY <1>3, <1>7, CloseStep DEF CloseWindow
  <2>2. mail' = mail BY <1>7 DEF CloseWindow
  <2> QED BY <1>1, <1>4, <2>1, <2>2 DEF IInv
<1>8. CASE GuiThread
  <2>1. mail # <<>> /\ mail' = Tail(mail) /\ Head(mail).to \in Thread
    <3>1. TakeCall
      BY <1>8 DEF GuiThread, DropStale, CloseAgain, Callback, Take, Handle, ClaudeEvent,
         OnCompletionCancelled, OnCompletionFailed, OnOverflow, OnReply, OnToolCalls,
         OnSummaryCancelled, OnSummary, OnToolsDone, OnClaudeCancelled, OnClaudeGone,
         OnClaudeReply, OnClaudeFailed, OnAgentStarted, OnAgentEnded, OnResult
    <3> QED BY <1>3, <3>1, HeadCall DEF TakeCall
  <2>2. Step(thr, thr')
    <3>1. CASE DropStale BY <1>5, <3>1 DEF DropStale
    <3>2. CASE CloseAgain
      <4> DEFINE e == [thr EXCEPT ![Head(mail).to].tools = ToolsOff]
      <4>1. e \in Threads /\ Step(thr, e) BY <1>3, <2>1, ToolsOffStep
      <4>2. Close(thr) \/ Close(e) BY <3>2 DEF CloseAgain
      <4> HIDE DEF e
      <4>3. CASE Close(thr) BY <1>3, <4>3, CloseStep
      <4>4. CASE Close(e) BY <1>2, <1>3, <4>1, <4>4, CloseStep, StepTrans
      <4> QED BY <4>2, <4>3, <4>4
    <3>3. CASE \E t \in Thread : Callback(t) BY <3>3, CallbackOneJob
    <3> QED BY <1>8, <3>1, <3>2, <3>3 DEF GuiThread
  <2> QED BY <1>1, <1>4, <2>1, <2>2 DEF IInv
<1>9. CASE UNCHANGED vars
  <2>1. thr' = thr /\ mail' = mail BY <1>9 DEF vars
  <2> QED BY <1>1, <1>4, <1>5, <2>1 DEF IInv
<1> QED BY <1>6, <1>7, <1>8, <1>9 DEF Next

\* A thread never waits for two things at once, however many conversations,
\* subagents and queued messages there are and whatever the user does: a reply
\* that Find(id, gen) lets in is the only one, and its worker is the last that ran.
THEOREM OneJobCorrect == Spec => []OneJob
<1>1. IInv => OneJob BY DEF IInv
<1> QED BY <1>1, InitOneJob, NextOneJob, PTL DEF Spec

-----------------------------------------------------------------------------
(***************************************************************************)
(* What ThreadRuntime promises of turns and their subagents, proved: no    *)
(* turn waits for something that never comes, a subagent runs only inside  *)
(* its parent's turn, a cancelled batch has told all its subagents, and a  *)
(* queue is left waiting only after a failure or a cancel.  (Of a user who *)
(* presses Play in a subagent's view the second is false, so "play" is     *)
(* left out.)                                                              *)
(*                                                                         *)
(* `Good` is the inductive invariant.  A handler calls others before it is *)
(* done, and in between it holds but for some threads, the set E: one that *)
(* nothing will wake, or a batch entry whose subagent has just ended.  So  *)
(* each operator has a lemma that says which threads it needs in E and     *)
(* which it takes out, and a handler is proved by citing them in the order *)
(* of its calls.                                                           *)
(***************************************************************************)

\* None of the thread's workers runs.
Off(r) == r.request.kind = "off" /\ r.tools.state = "off" /\ ~r.proc.on

\* ... and no callback that Find(id, gen) would let in is under way.
Silent(r, ml, t) == Off(r) /\ \A i \in DOMAIN ml : ml[i].to = t => ml[i].gen # r.gen

\* Workers carry the gen of the thread, and each kind has its place in a turn.
Shape(r) ==
  /\ r.request.kind # "off" =>
       r.request.gen = r.gen /\ r.streaming /\ ~r.claude /\ r.token = "none"
  /\ r.tools.state # "off" => r.tools.gen = r.gen /\ r.token # "none"
  /\ r.proc.on => r.proc.gen = r.gen /\ r.streaming /\ r.claude
  /\ r.token # "none" => r.streaming /\ ~r.claude
  /\ r.token = "none" => r.batch = NoBatch
  /\ r.streaming => r.open
  /\ r.request.kind # "off" /\ r.request.cancelled => r.stop
  /\ r.proc.on /\ r.proc.cancelled => r.stop
  /\ r.token = "cancelled" => r.stop
  /\ ~r.open => r.gen = 0

\* What a callback that is let in finds.
Heard(r, m) ==
  /\ m.out = "cancelled" => r.stop
  /\ m.kind \in {"completion", "summary"} =>
       r.streaming /\ ~r.claude /\ r.token = "none" /\ r.request.kind = "off"
  /\ m.kind = "tools" => r.tools.state = "reported"
  /\ m.kind \in ClaudeLine \cup {"claude"} => r.streaming /\ r.claude
  /\ m.kind = "claude" => ~r.proc.on

\* A line of a Claude run comes before the end of the run.
Followed(r, ml, i, t) ==
  ml[i].kind \in ClaudeLine =>
    r.proc.on \/ \E j \in DOMAIN ml :
                   j > i /\ ml[j].to = t /\ ml[j].gen = r.gen /\ ml[j].kind = "claude"

Calls(r, ml, t) ==
  /\ \A i \in DOMAIN ml : ml[i].to = t =>
       /\ ml[i].gen <= r.gen
       /\ ml[i].gen = r.gen => Heard(r, ml[i]) /\ Followed(r, ml, i, t)
  /\ \A i, j \in DOMAIN ml :
       /\ ml[i].to = t /\ ml[i].gen = r.gen /\ ml[i].kind \in LastCall
       /\ ml[j].to = t /\ ml[j].gen = r.gen /\ ml[j].kind \in LastCall
       => i = j
  /\ r.tools.state = "reported" =>
       \E i \in DOMAIN ml : ml[i].to = t /\ ml[i].gen = r.gen /\ ml[i].kind = "tools"

\* A thread by itself, with the callbacks to it.
Alone(r, ml, t) == Shape(r) /\ Calls(r, ml, t) /\ (~r.streaming => Silent(r, ml, t))

\* A subagent by itself: it runs no Claude Code and no `task`.
SubShape(r) ==
  (r.open => r.parent \in Top) /\ ~r.claude /\ r.queue = 0 /\ r.batch = NoBatch

\* A subagent that runs, and the parent it runs in.
Lives(ts, ml, c) ==
  ts[c].streaming =>
    LET p == ts[c].parent
    IN  /\ ts[p].streaming
        /\ ts[p].token = "cancelled" => ts[c].stop
        /\ \/ ts[p].batch[c] = "empty"
           \/ ts[p].claude /\ Silent(ts[c], ml, c) /\ ts[c].token = "none"

\* A batch entry without a result is that of a subagent that runs.
Open(ts, c, E) ==
  \A p \in Top : ts[p].batch[c] = "empty" => ts[c].parent = p /\ (c \in E \/ ts[c].streaming)

\* A turn that runs will be woken, and an idle queue has its reason.
Settled(ts, ml, q, t) ==
  /\ ts[t].streaming /\ ~q =>
       \/ ~Silent(ts[t], ml, t)
       \/ ts[t].token # "none" /\ HasRunningChild(ts, t)
       \/ t \in Sub /\ ts[ts[t].parent].claude
  /\ ts[t].queue > 0 /\ ~ts[t].streaming => ts[t].failure \/ ts[t].stop

Good(ts, ml, q, E) ==
  /\ ts \in Threads
  /\ \A t \in Thread : Alone(ts[t], ml, t)
  /\ \A p \in Top : ts[p].open /\ ts[p].parent = NoThread
  /\ \A c \in Sub : SubShape(ts[c]) /\ Lives(ts, ml, c) /\ Open(ts, c, E)
  /\ \A t \in Thread \ E : Settled(ts, ml, q, t)

\* t is about to go on with its turn, or to end it.
AtWork(ts, ml, q, t) ==
  /\ Good(ts, ml, q, {t})
  /\ ts[t].streaming /\ Silent(ts[t], ml, t)
  /\ t \in Sub => ts[t].parent \in Top /\ ts[ts[t].parent].batch[t] = "empty"

\* What a change leaves alone: of the turn, of its batch, of its workers.
SameTurn(r, s) ==
  /\ s.open = r.open /\ s.parent = r.parent /\ s.streaming = r.streaming
  /\ s.stop = r.stop /\ s.claude = r.claude /\ s.queue = r.queue

SameBatch(r, s) == s.token = r.token /\ s.batch = r.batch

SameWork(r, s) ==
  s.gen = r.gen /\ s.request = r.request /\ s.tools = r.tools /\ s.proc = r.proc

-----------------------------------------------------------------------------
\* The fields that decide about a turn.
LEMMA TurnFields ==
  ASSUME NEW r \in ThreadType
  PROVE  /\ r.open \in BOOLEAN /\ r.streaming \in BOOLEAN /\ r.stop \in BOOLEAN
         /\ r.failure \in BOOLEAN /\ r.claude \in BOOLEAN
         /\ r.gen \in Nat /\ r.queue \in Nat
         /\ r.proc.on \in BOOLEAN
         /\ r.token \in {"none", "live", "cancelled"}
         /\ r.batch \in [Sub -> Entry]
         /\ r.parent \in Top \cup {NoThread}
BY Fields DEF ProcType

\* The callbacks in the queue.
LEMMA CallAt ==
  ASSUME NEW ml \in Seq(Call), NEW i \in DOMAIN ml
  PROVE  ml[i] \in Call /\ ml[i].gen \in Nat /\ ml[i].to \in Thread
<1>1. ml[i] \in Call OBVIOUS
<1> QED BY <1>1 DEF Call

\* A callback behind the gen is not heard: whatever has no worker and hears
\* nothing may go to any shape with a later gen.
LEMMA SilentCalls ==
  ASSUME NEW t \in Thread, NEW r \in ThreadType, NEW s \in ThreadType, NEW ml \in Seq(Call),
         Calls(r, ml, t), Silent(r, ml, t), r.gen <= s.gen, s.tools.state # "reported"
  PROVE  Calls(s, ml, t) /\ (Off(s) => Silent(s, ml, t))
<1>1. r.gen \in Nat /\ s.gen \in Nat BY TurnFields
<1>2. \A i \in DOMAIN ml : ml[i].gen \in Nat BY CallAt
<1>3. \A i \in DOMAIN ml : ml[i].to = t => ml[i].gen <= r.gen /\ ml[i].gen # r.gen
  BY DEF Calls, Silent
<1>4. \A i \in DOMAIN ml : ml[i].to = t => ml[i].gen <= s.gen /\ ml[i].gen # s.gen
  BY <1>1, <1>2, <1>3
<1> QED BY <1>4 DEF Calls, Silent

\* What changing the record of one thread has to respect for the others: a
\* subagent its parent, a conversation its subagents.
LEMMA Change ==
  ASSUME NEW ml \in Seq(Call), NEW q \in BOOLEAN, NEW E,
         NEW ts, Good(ts, ml, q, E), NEW us \in Threads, NEW t \in Thread,
         \A u \in Thread : u # t => us[u] = ts[u],
         Alone(us[t], ml, t), us[t].open, us[t].parent = ts[t].parent,
         t \in Sub => /\ SubShape(us[t]) /\ ts[t].parent \in Top
                      /\ us[t].streaming =>
                           /\ ts[t].streaming /\ (ts[t].stop => us[t].stop)
                           /\ ts[ts[t].parent].batch[t] = "empty"
                      /\ us[t].streaming \/ ~ts[t].streaming \/ {t, ts[t].parent} \subseteq E,
         t \in Top => \/ /\ us[t].streaming /\ us[t].batch = ts[t].batch
                         /\ us[t].claude = ts[t].claude
                         /\ us[t].token = "cancelled" => ts[t].token = "cancelled"
                      \/ /\ RunningChildren(ts, t) = {}
                         /\ \A c \in Sub : us[t].batch[c] # "empty"
  PROVE  Good(us, ml, q, E \cup {t})
<1>1. ts \in Threads BY DEF Good
<1>2. Top \cap Sub = {} /\ Thread = Top \cup Sub BY ThreadAssumption DEF Thread
<1>3. \A u \in Thread : us[u] \in ThreadType /\ ts[u] \in ThreadType BY <1>1, Get
<1>4. \A u \in Thread : Alone(us[u], ml, u) BY DEF Good
<1>5. \A p \in Top : us[p].open /\ us[p].parent = NoThread BY <1>2 DEF Good
<1>6. ASSUME NEW c \in Sub PROVE SubShape(us[c]) /\ Lives(us, ml, c) /\ Open(us, c, E \cup {t})
  <2>1. SubShape(us[c]) BY <1>2 DEF Good
  <2>2. Lives(us, ml, c)
    <3> SUFFICES ASSUME us[c].streaming PROVE Lives(us, ml, c) BY DEF Lives
    <3>1. ts[c].streaming /\ (ts[c].stop => us[c].stop) /\ us[c].parent = ts[c].parent
      BY <1>2
    <3>2. ts[c].open BY <1>2, <3>1 DEF Good, Alone, Shape
    <3>3. ts[c].parent \in Top BY <3>2 DEF Good, SubShape
    <3> DEFINE p == ts[c].parent
    <3>4. Lives(ts, ml, c) BY DEF Good
    <3>5. CASE c = t BY <1>2, <3>1, <3>3, <3>4, <3>5 DEF Lives
    <3>6. CASE p = t
      <4>1. c \in RunningChildren(ts, t) BY <3>1, <3>2, <3>6 DEF RunningChildren, Children
      <4>2. c # t BY <1>2, <3>3, <3>6
      <4> QED BY <1>2, <3>1, <3>3, <3>4, <3>6, <4>1, <4>2 DEF Lives
    <3>7. CASE c # t /\ p # t BY <1>2, <3>3, <3>4, <3>7 DEF Lives
    <3> QED BY <3>5, <3>6, <3>7
  <2>3. Open(us, c, E \cup {t})
    <3> SUFFICES ASSUME NEW p \in Top, us[p].batch[c] = "empty"
                 PROVE  us[c].parent = p /\ (c \in E \cup {t} \/ us[c].streaming)
      BY DEF Open
    <3>1. ts[p].batch[c] = "empty" BY <1>2
    <3>2. ts[c].parent = p /\ (c \in E \/ ts[c].streaming) BY <3>1 DEF Good, Open
    <3> QED BY <1>2, <3>2
  <2> QED BY <2>1, <2>2, <2>3
<1>7. ASSUME NEW u \in Thread \ (E \cup {t}) PROVE Settled(us, ml, q, u)
  <2>1. us[u] = ts[u] /\ Settled(ts, ml, q, u) BY DEF Good
  <2>2. ASSUME HasRunningChild(ts, u) PROVE HasRunningChild(us, u)
    <3>1. PICK c \in Sub : ts[c].open /\ ts[c].parent = u /\ ts[c].streaming
      BY <2>2 DEF HasRunningChild, RunningChildren, Children
    <3>2. us[c].open /\ us[c].parent = u /\ us[c].streaming BY <1>2, <3>1
    <3> QED BY <3>2 DEF HasRunningChild, RunningChildren, Children
  <2>3. ASSUME u \in Sub, us[u].streaming, ts[ts[u].parent].claude PROVE us[us[u].parent].claude
    <3>1. ts[u].open /\ ts[u].parent \in Top
      <4>1. ts[u].open BY <2>1, <2>3 DEF Good, Alone, Shape
      <4> QED BY <2>3, <4>1 DEF Good, SubShape
    <3>2. CASE ts[u].parent = t
      <4>1. u \in RunningChildren(ts, t) BY <2>1, <2>3, <3>1, <3>2 DEF RunningChildren, Children
      <4> QED BY <1>2, <2>1, <2>3, <3>1, <3>2, <4>1
    <3>3. CASE ts[u].parent # t BY <1>2, <2>1, <2>3, <3>1, <3>3
    <3> QED BY <3>2, <3>3
  <2> QED BY <2>1, <2>2, <2>3 DEF Settled
<1> QED BY <1>4, <1>5, <1>6, <1>7 DEF Good

\* A thread that is settled needs no exception.
LEMMA Settle ==
  ASSUME NEW ml, NEW q, NEW ts, NEW t \in Thread, Good(ts, ml, q, {t}), Settled(ts, ml, q, t),
         t \in Sub /\ ~ts[t].streaming => \A p \in Top : ts[p].batch[t] # "empty"
  PROVE  Good(ts, ml, q, {})
<1>1. \A c \in Sub : Open(ts, c, {}) BY DEF Good, Open
<1>2. \A u \in Thread : Settled(ts, ml, q, u) BY DEF Good
<1> QED BY <1>1, <1>2 DEF Good

\* A change that nobody sees.
LEMMA SameAlone ==
  ASSUME NEW r, NEW s, NEW ml, NEW t, SameTurn(r, s), SameWork(r, s),
         s.token = r.token, s.token # "none" \/ s.batch = r.batch
  PROVE  (Alone(r, ml, t) => Alone(s, ml, t)) /\ (Silent(r, ml, t) <=> Silent(s, ml, t))
<1>1. Shape(r) => Shape(s) BY DEF Shape, SameTurn, SameWork
<1>2. Silent(r, ml, t) <=> Silent(s, ml, t) BY DEF Silent, Off, SameWork
<1>3. \A m : Heard(r, m) => Heard(s, m) BY DEF Heard, SameTurn, SameWork
<1>4. \A i : Followed(r, ml, i, t) => Followed(s, ml, i, t) BY DEF Followed, SameWork
<1>5. Calls(r, ml, t) => Calls(s, ml, t)
  <2>1. s.gen = r.gen /\ s.tools = r.tools BY DEF SameWork
  <2> QED BY <1>3, <1>4, <2>1 DEF Calls
<1> QED BY <1>1, <1>2, <1>5 DEF Alone, SameTurn

LEMMA Unseen ==
  ASSUME NEW ml, NEW q, NEW E, NEW ts, Good(ts, ml, q, E), NEW us \in Threads,
         \A u \in Thread : /\ SameTurn(ts[u], us[u]) /\ SameBatch(ts[u], us[u])
                           /\ SameWork(ts[u], us[u])
                           /\ ts[u].failure => us[u].failure
  PROVE  Good(us, ml, q, E) /\ \A t \in Thread : AtWork(ts, ml, q, t) => AtWork(us, ml, q, t)
<1>1. \A u \in Thread : /\ Alone(ts[u], ml, u) => Alone(us[u], ml, u)
                        /\ Silent(ts[u], ml, u) <=> Silent(us[u], ml, u)
  BY SameAlone DEF SameBatch
<1>2. \A p \in Top : us[p].open /\ us[p].parent = NoThread BY DEF Good, SameTurn, Thread
<1>3. ASSUME NEW c \in Sub, NEW F
      PROVE  /\ SubShape(ts[c]) => SubShape(us[c])
             /\ Open(ts, c, F) => Open(us, c, F)
             /\ SubShape(ts[c]) /\ Lives(ts, ml, c) /\ Alone(ts[c], ml, c) => Lives(us, ml, c)
  <2>1. c \in Thread /\ Top \subseteq Thread BY DEF Thread
  <2>2. SubShape(ts[c]) => SubShape(us[c]) BY <2>1 DEF SubShape, SameTurn, SameBatch
  <2>3. Open(ts, c, F) => Open(us, c, F) BY <2>1 DEF Open, SameTurn, SameBatch
  <2>4. ASSUME SubShape(ts[c]), Lives(ts, ml, c), Alone(ts[c], ml, c), us[c].streaming
        PROVE  Lives(us, ml, c)
    <3>1. ts[c].streaming /\ us[c].parent = ts[c].parent /\ us[c].stop = ts[c].stop
          /\ us[c].token = ts[c].token
      BY <2>1, <2>4 DEF SameTurn, SameBatch
    <3>2. ts[c].parent \in Thread BY <2>1, <2>4, <3>1 DEF Alone, Shape, SubShape
    <3>3. SameTurn(ts[ts[c].parent], us[ts[c].parent]) /\ SameBatch(ts[ts[c].parent], us[ts[c].parent])
      BY <3>2
    <3> QED BY <1>1, <2>1, <2>4, <3>1, <3>3 DEF Lives, SameTurn, SameBatch
  <2> QED BY <2>2, <2>3, <2>4 DEF Lives
<1>4. ASSUME NEW u \in Thread PROVE Settled(ts, ml, q, u) => Settled(us, ml, q, u)
  <2>1. HasRunningChild(ts, u) => HasRunningChild(us, u)
    BY DEF HasRunningChild, RunningChildren, Children, SameTurn, Thread
  <2>2. ASSUME u \in Sub, ts[u].streaming, ts[ts[u].parent].claude PROVE us[us[u].parent].claude
    <3>1. ts[u].parent \in Thread BY <2>2 DEF Good, Alone, Shape, SubShape, Thread
    <3> QED BY <2>2, <3>1 DEF SameTurn
  <2> QED BY <1>1, <2>1, <2>2 DEF Settled, SameTurn, SameBatch
<1>5. Good(us, ml, q, E)
  BY <1>1, <1>2, <1>3, <1>4 DEF Good, Thread
<1>6. ASSUME NEW t \in Thread, AtWork(ts, ml, q, t) PROVE AtWork(us, ml, q, t)
  <2>1. Good(us, ml, q, {t})
    <3>1. Good(ts, ml, q, {t}) BY <1>6 DEF AtWork
    <3> QED BY <1>1, <1>2, <1>3, <1>4, <3>1 DEF Good, Thread
  <2>2. us[t].streaming /\ Silent(us[t], ml, t) BY <1>1, <1>6 DEF AtWork, SameTurn
  <2>3. ASSUME t \in Sub PROVE us[t].parent \in Top /\ us[us[t].parent].batch[t] = "empty"
    BY <1>6, <2>3 DEF AtWork, SameTurn, SameBatch, Thread
  <2> QED BY <2>1, <2>2, <2>3 DEF AtWork
<1> QED BY <1>5, <1>6

-----------------------------------------------------------------------------
(* Starting work.                                                          *)

\* DoSendActualRequest, field by field.
Requested(ts, us, t, kind) ==
  /\ us \in Threads
  /\ \A u \in Thread : u # t => us[u] = ts[u]
  /\ SameTurn(ts[t], us[t]) /\ SameBatch(ts[t], us[t])
  /\ us[t].gen = ts[t].gen + 1
  /\ us[t].request = [kind |-> kind, gen |-> ts[t].gen + 1, cancelled |-> FALSE]
  /\ us[t].tools = ts[t].tools /\ us[t].proc = ts[t].proc

LEMMA SendRequestIs ==
  ASSUME NEW ts \in Threads, NEW t \in Thread, NEW kind \in {"completion", "summary"}
  PROVE  Requested(ts, SendRequest(ts, t, kind), t, kind)
<1> DEFINE us == SendRequest(ts, t, kind)
<1>1. us \in Threads BY SendRequestType
<1>2. ts[t] \in ThreadType BY Get
<1> DEFINE req == [kind |-> kind, gen |-> ts[t].gen + 1, cancelled |-> FALSE]
           r == [[ts[t] EXCEPT !.gen = ts[t].gen + 1] EXCEPT !.request = req]
<1>3. us = [ts EXCEPT ![t] = r] BY <1>2 DEF SendRequest
<1>4. us[t] = r /\ \A u \in Thread : u # t => us[u] = ts[u] BY <1>3 DEF Threads
<1> HIDE DEF req, us
<1>5. /\ SameTurn(ts[t], r) /\ SameBatch(ts[t], r)
      /\ r.gen = ts[t].gen + 1 /\ r.request = req
      /\ r.tools = ts[t].tools /\ r.proc = ts[t].proc
  BY <1>2 DEF ThreadType, SameTurn, SameBatch
<1> QED BY <1>1, <1>4, <1>5 DEF req, us, Requested

\* StartClaudeTurn, field by field.
LEMMA SpawnClaudeIs ==
  ASSUME NEW ts \in Threads, NEW t \in Thread, NEW resumed \in BOOLEAN,
         NEW us, us = SpawnClaude(ts, t, resumed)
  PROVE  /\ us \in Threads
         /\ \A u \in Thread : u # t => us[u] = ts[u]
         /\ SameTurn(ts[t], us[t]) /\ SameBatch(ts[t], us[t])
         /\ us[t].gen = ts[t].gen + 1
         /\ us[t].proc = [on |-> TRUE, gen |-> ts[t].gen + 1, cancelled |-> FALSE]
         /\ us[t].tools = ts[t].tools /\ us[t].request = ts[t].request
<1>1. us \in Threads BY SpawnClaudeType
<1>2. ts[t] \in ThreadType BY Get
<1> DEFINE proc == [on |-> TRUE, gen |-> ts[t].gen + 1, cancelled |-> FALSE]
           r == [[[[ts[t] EXCEPT !.gen = ts[t].gen + 1] EXCEPT !.proc = proc]
                     EXCEPT !.resumed = resumed] EXCEPT !.result = "none"]
<1>3. us = [ts EXCEPT ![t] = r] BY <1>2 DEF SpawnClaude
<1>4. us[t] = r /\ \A u \in Thread : u # t => us[u] = ts[u] BY <1>3 DEF Threads
<1> HIDE DEF proc
<1>5. /\ SameTurn(ts[t], r) /\ SameBatch(ts[t], r)
      /\ r.gen = ts[t].gen + 1 /\ r.proc = proc
      /\ r.tools = ts[t].tools /\ r.request = ts[t].request
  BY <1>2 DEF ThreadType, SameTurn, SameBatch
<1> QED BY <1>1, <1>4, <1>5 DEF proc

\* A thread at work that goes on with a worker of the new gen.
LEMMA Works ==
  ASSUME NEW ml \in Seq(Call), NEW q \in BOOLEAN, NEW ts, NEW t \in Thread,
         AtWork(ts, ml, q, t), NEW us \in Threads,
         \A u \in Thread : u # t => us[u] = ts[u],
         SameTurn(ts[t], us[t]), SameBatch(ts[t], us[t]), ts[t].token = "none",
         us[t].gen = ts[t].gen + 1,
         \/ /\ us[t].request.kind # "off" /\ us[t].request.gen = us[t].gen
            /\ ~us[t].request.cancelled /\ ~us[t].claude
            /\ us[t].tools = ts[t].tools /\ us[t].proc = ts[t].proc
         \/ /\ us[t].proc.on /\ us[t].proc.gen = us[t].gen
            /\ ~us[t].proc.cancelled /\ us[t].claude
            /\ us[t].tools = ts[t].tools /\ us[t].request = ts[t].request
  PROVE  Good(us, ml, q, {})
<1>1. Good(ts, ml, q, {t}) /\ ts[t].streaming /\ Silent(ts[t], ml, t) BY DEF AtWork
<1>2. ts[t] \in ThreadType /\ us[t] \in ThreadType BY <1>1, Get DEF Good
<1>3. Alone(ts[t], ml, t) BY <1>1 DEF Good
<1>4. ts[t].gen <= us[t].gen BY <1>2, TurnFields
<1>5. us[t].tools.state = "off" BY <1>1 DEF Silent, Off
<1>6. Calls(us[t], ml, t) BY <1>1, <1>2, <1>3, <1>4, <1>5, SilentCalls DEF Alone
<1>7. Shape(us[t])
  BY <1>1, <1>3, <1>5 DEF Alone, Shape, Silent, Off, SameTurn, SameBatch
<1>8. us[t].streaming /\ us[t].open /\ us[t].parent = ts[t].parent
  BY <1>1, <1>7 DEF SameTurn, Shape
<1>9. t \in Sub => SubShape(us[t]) /\ ts[t].parent \in Top
                   /\ ts[ts[t].parent].batch[t] = "empty"
  BY <1>1 DEF AtWork, Good, SubShape, SameTurn, SameBatch
<1>10. Good(us, ml, q, {t} \cup {t})
  BY <1>1, <1>6, <1>7, <1>8, <1>9, Change DEF Alone, SameTurn, SameBatch
<1>11. Settled(us, ml, q, t) BY <1>8 DEF Settled, Silent, Off
<1> QED BY <1>8, <1>10, <1>11, Settle

LEMMA SendRequestGood ==
  ASSUME NEW ml \in Seq(Call), NEW q \in BOOLEAN, NEW ts, NEW t \in Thread,
         NEW kind \in {"completion", "summary"},
         AtWork(ts, ml, q, t), ts[t].token = "none", ~ts[t].claude
  PROVE  Good(SendRequest(ts, t, kind), ml, q, {})
<1> DEFINE us == SendRequest(ts, t, kind)
<1>1. ts \in Threads BY DEF AtWork, Good
<1>2. Requested(ts, us, t, kind) BY <1>1, SendRequestIs
<1> USE DEF Requested
<1> HIDE DEF us
<1>3. us[t].request.kind # "off" /\ us[t].request.gen = us[t].gen /\ ~us[t].request.cancelled
  BY <1>2
<1>4. ~us[t].claude BY <1>2 DEF SameTurn
<1>5. Good(us, ml, q, {}) BY <1>2, <1>3, <1>4, Works
<1> QED BY <1>5 DEF us

LEMMA SpawnClaudeGood ==
  ASSUME NEW ml \in Seq(Call), NEW q \in BOOLEAN, NEW ts, NEW t \in Thread,
         NEW resumed \in BOOLEAN, AtWork(ts, ml, q, t), ts[t].token = "none", ts[t].claude
  PROVE  Good(SpawnClaude(ts, t, resumed), ml, q, {})
<1> DEFINE us == SpawnClaude(ts, t, resumed)
<1>1. ts \in Threads BY DEF AtWork, Good
<1>2. /\ us \in Threads
      /\ \A u \in Thread : u # t => us[u] = ts[u]
      /\ SameTurn(ts[t], us[t]) /\ SameBatch(ts[t], us[t])
      /\ us[t].gen = ts[t].gen + 1
      /\ us[t].proc = [on |-> TRUE, gen |-> ts[t].gen + 1, cancelled |-> FALSE]
      /\ us[t].tools = ts[t].tools /\ us[t].request = ts[t].request
  <2> HIDE DEF us
  <2>1. us = SpawnClaude(ts, t, resumed) BY DEF us
  <2> QED BY <1>1, <2>1, SpawnClaudeIs
<1> HIDE DEF us
<1>3. us[t].proc.on /\ us[t].proc.gen = us[t].gen /\ ~us[t].proc.cancelled BY <1>2
<1>4. us[t].claude BY <1>2 DEF SameTurn
<1>5. Good(us, ml, q, {}) BY <1>2, <1>3, <1>4, Works
<1> QED BY <1>5 DEF us

-----------------------------------------------------------------------------
(* Ending turns.                                                           *)

\* FinalizeTurn, field by field.
FinalizedTo(ts, us, t) ==
  /\ us \in Threads
  /\ \A u \in Thread :
       /\ SameBatch(ts[u], us[u]) /\ SameWork(ts[u], us[u])
       /\ us[u].open = ts[u].open /\ us[u].parent = ts[u].parent
       /\ us[u].stop = ts[u].stop /\ us[u].claude = ts[u].claude /\ us[u].queue = ts[u].queue
       /\ us[u].failure = ts[u].failure \/ us[u].failure
       /\ u = t \/ u \in RunningChildren(ts, t) => ~us[u].streaming
       /\ u # t /\ u \notin RunningChildren(ts, t) => us[u] = ts[u]

LEMMA FinalizedIs ==
  ASSUME NEW ts \in Threads, NEW t \in Thread
  PROVE  FinalizedTo(ts, Finalized(ts, t), t)
<1> DEFINE us == Finalized(ts, t)
<1>1. us \in Threads BY FinalizedType
<1>2. ASSUME NEW u \in Thread
      PROVE  /\ u = t => us[u] = [ts[u] EXCEPT !.streaming = FALSE]
             /\ u # t /\ u \in RunningChildren(ts, t) =>
                  us[u] = [[ts[u] EXCEPT !.streaming = FALSE] EXCEPT !.failure = TRUE]
             /\ u # t /\ u \notin RunningChildren(ts, t) => us[u] = ts[u]
  BY Get DEF Finalized
<1> HIDE DEF us
<1>3. ASSUME NEW u \in Thread
      PROVE  /\ SameBatch(ts[u], us[u]) /\ SameWork(ts[u], us[u])
             /\ us[u].open = ts[u].open /\ us[u].parent = ts[u].parent
             /\ us[u].stop = ts[u].stop /\ us[u].claude = ts[u].claude
             /\ us[u].queue = ts[u].queue
             /\ us[u].failure = ts[u].failure \/ us[u].failure
             /\ u = t \/ u \in RunningChildren(ts, t) => ~us[u].streaming
  <2>1. ts[u] \in ThreadType BY Get
  <2>2. CASE u = t BY <1>2, <2>1, <2>2 DEF ThreadType, SameBatch, SameWork
  <2>3. CASE u # t /\ u \in RunningChildren(ts, t)
    BY <1>2, <2>1, <2>3 DEF ThreadType, SameBatch, SameWork
  <2>4. CASE u # t /\ u \notin RunningChildren(ts, t)
    BY <1>2, <2>1, <2>4 DEF SameBatch, SameWork
  <2> QED BY <2>2, <2>3, <2>4
<1> QED BY <1>1, <1>2, <1>3 DEF FinalizedTo, us

\* A thread with no work may stop streaming.
LEMMA Ends ==
  ASSUME NEW ml \in Seq(Call), NEW t \in Thread, NEW r \in ThreadType, NEW s \in ThreadType,
         Alone(r, ml, t), Silent(r, ml, t), r.token = "none",
         SameBatch(r, s), SameWork(r, s), s.open = r.open, s.stop = r.stop, ~s.streaming
  PROVE  Alone(s, ml, t)
<1>1. r.gen \in Nat /\ s.gen = r.gen /\ s.tools.state = "off" /\ Off(s)
  BY TurnFields DEF SameWork, Silent, Off
<1>2. r.gen <= s.gen BY <1>1
<1>3. Calls(s, ml, t) /\ Silent(s, ml, t) BY <1>1, <1>2, SilentCalls DEF Alone
<1>4. Shape(s) BY <1>1 DEF Alone, Shape, Off, SameBatch, SameWork
<1> QED BY <1>3, <1>4 DEF Alone

\* The parent that a subagent's end may leave unwoken.
Parents(ts, t) == IF t \in Sub THEN {ts[t].parent} ELSE {}

LEMMA FinalizedGood ==
  ASSUME NEW ml \in Seq(Call), NEW q \in BOOLEAN, NEW ts, NEW t \in Thread,
         Good(ts, ml, q, {t}), Silent(ts[t], ml, t), ts[t].token = "none", NEW us, FinalizedTo(ts, us, t)
  PROVE  Good(us, ml, q, {t} \cup Parents(ts, t))
<1>1. Good(ts, ml, q, {t}) /\ Silent(ts[t], ml, t) OBVIOUS
<1>2. us \in Threads /\ ts \in Threads BY <1>1 DEF FinalizedTo, Good
<1>3. \A u \in Thread : us[u] \in ThreadType /\ ts[u] \in ThreadType BY <1>2, Get
<1>4. Top \cap Sub = {} /\ Thread = Top \cup Sub BY ThreadAssumption DEF Thread
<1>5. ts[t].batch = NoBatch BY <1>1 DEF Good, Alone, Shape
<1>6. \A c \in Sub : ts[t].batch[c] # "empty" BY <1>5 DEF NoBatch
<1>7. ASSUME NEW c \in RunningChildren(ts, t)
      PROVE  c \in Sub /\ t \in Top /\ ts[c].parent = t /\ Silent(ts[c], ml, c) /\ ts[c].token = "none"
  <2>1. c \in Sub /\ ts[c].open /\ ts[c].parent = t /\ ts[c].streaming
    BY <1>7 DEF RunningChildren, Children
  <2> QED BY <1>1, <1>6, <2>1 DEF Good, SubShape, Lives
<1>8. ASSUME NEW u \in Thread PROVE Alone(us[u], ml, u)
  <2>1. Alone(ts[u], ml, u) BY <1>1 DEF Good
  <2>2. CASE u = t \/ u \in RunningChildren(ts, t)
    <3>1. Silent(ts[u], ml, u) /\ ts[u].token = "none" BY <1>1, <1>7, <2>2
    <3> QED BY <1>3, <2>1, <2>2, <3>1, Ends DEF FinalizedTo
  <2>3. CASE u # t /\ u \notin RunningChildren(ts, t) BY <2>1, <2>3 DEF FinalizedTo
  <2> QED BY <2>2, <2>3
<1>9. \A p \in Top : us[p].open /\ us[p].parent = NoThread BY <1>1, <1>4 DEF Good, FinalizedTo
<1>10. ASSUME NEW c \in Sub
       PROVE  SubShape(us[c]) /\ Lives(us, ml, c) /\ Open(us, c, {t} \cup Parents(ts, t))
  <2>1. SubShape(ts[c]) /\ Lives(ts, ml, c) /\ Open(ts, c, {t}) BY <1>1 DEF Good
  <2>2. SubShape(us[c]) BY <1>4, <2>1 DEF SubShape, FinalizedTo, SameBatch
  <2>3. ASSUME us[c].streaming PROVE Lives(us, ml, c)
    <3>1. c # t /\ c \notin RunningChildren(ts, t) /\ us[c] = ts[c]
      BY <1>4, <2>3 DEF FinalizedTo
    <3>2. ts[c].open /\ ts[c].parent \in Top
      BY <1>1, <1>4, <2>1, <2>3, <3>1 DEF Good, Alone, Shape, SubShape
    <3>3. ts[c].parent # t BY <2>3, <3>1, <3>2 DEF RunningChildren, Children
    <3>4. us[ts[c].parent] = ts[ts[c].parent]
      BY <1>4, <3>2, <3>3 DEF FinalizedTo, RunningChildren, Children
    <3> QED BY <2>1, <2>3, <3>1, <3>4 DEF Lives
  <2>4. ASSUME NEW p \in Top, us[p].batch[c] = "empty"
        PROVE  us[c].parent = p /\ (c \in {t} \cup Parents(ts, t) \/ us[c].streaming)
    <3>1. ts[p].batch[c] = "empty" BY <1>4, <2>4 DEF FinalizedTo, SameBatch
    <3>2. ts[c].parent = p /\ (c \in {t} \/ ts[c].streaming) BY <2>1, <3>1 DEF Open
    <3>3. p # t BY <1>6, <3>1
    <3>4. c \notin RunningChildren(ts, t) BY <1>7, <3>2, <3>3
    <3> QED BY <1>4, <3>2, <3>4 DEF FinalizedTo
  <2> QED BY <2>2, <2>3, <2>4 DEF Lives, Open
<1>11. ASSUME NEW u \in Thread \ ({t} \cup Parents(ts, t)) PROVE Settled(us, ml, q, u)
  <2>1. Settled(ts, ml, q, u) BY <1>1 DEF Good
  <2>2. CASE u \in RunningChildren(ts, t)
    <3>1. us[u].queue = 0 /\ ~us[u].streaming BY <1>7, <1>10, <2>2 DEF SubShape, FinalizedTo
    <3> QED BY <3>1 DEF Settled
  <2>3. CASE u \notin RunningChildren(ts, t)
    <3>1. us[u] = ts[u] BY <2>3 DEF FinalizedTo
    <3>2. ASSUME HasRunningChild(ts, u) PROVE HasRunningChild(us, u)
      <4>1. PICK c \in Sub : ts[c].open /\ ts[c].parent = u /\ ts[c].streaming
        BY <3>2 DEF HasRunningChild, RunningChildren, Children
      <4>2. c # t /\ c \notin RunningChildren(ts, t) BY <1>7, <4>1 DEF Parents
      <4>3. us[c] = ts[c] BY <1>4, <4>2 DEF FinalizedTo
      <4> QED BY <4>1, <4>3 DEF HasRunningChild, RunningChildren, Children
    <3>3. ASSUME u \in Sub, ts[u].streaming, ts[ts[u].parent].claude
          PROVE  us[us[u].parent].claude
      <4>1. ts[u].parent \in Thread
        BY <1>1, <1>4, <3>3 DEF Good, Alone, Shape, SubShape
      <4> QED BY <3>1, <3>3, <4>1 DEF FinalizedTo
    <3> QED BY <2>1, <3>1, <3>2, <3>3 DEF Settled
  <2> QED BY <2>2, <2>3
<1> QED BY <1>2, <1>8, <1>9, <1>10, <1>11 DEF Good

\* A thread that has ended, with its reason if messages wait behind it.
LEMMA EndedTop ==
  ASSUME NEW ml \in Seq(Call), NEW q \in BOOLEAN, NEW ts, NEW t \in Top,
         AtWork(ts, ml, q, t), ts[t].token = "none", ts[t].failure \/ ts[t].stop
  PROVE  Good(Finalized(ts, t), ml, q, {})
<1> DEFINE us == Finalized(ts, t)
<1>1. t \in Thread /\ Parents(ts, t) = {} BY ThreadAssumption DEF Thread, Parents
<1>2. ts \in Threads /\ Good(ts, ml, q, {t}) /\ Silent(ts[t], ml, t) BY DEF AtWork, Good
<1>3. FinalizedTo(ts, us, t) BY <1>1, <1>2, FinalizedIs
<1> HIDE DEF us
<1>7. Good(us, ml, q, {t} \cup Parents(ts, t)) BY <1>1, <1>2, <1>3, FinalizedGood
<1>4. Good(us, ml, q, {t} \cup {}) BY <1>1, <1>7
<1>5. Settled(us, ml, q, t) BY <1>1, <1>3 DEF Settled, FinalizedTo
<1>6. Good(us, ml, q, {}) BY <1>1, <1>4, <1>5, ThreadAssumption, Settle
<1> QED BY <1>6 DEF us

\* Storing a record that differs in nothing the proof looks at.
LEMMA PutUnseen ==
  ASSUME NEW ml, NEW q, NEW E, NEW ts, Good(ts, ml, q, E), NEW t \in Thread,
         NEW r \in ThreadType, SameTurn(ts[t], r), SameBatch(ts[t], r), SameWork(ts[t], r),
         ts[t].failure => r.failure
  PROVE  /\ Good([ts EXCEPT ![t] = r], ml, q, E)
         /\ AtWork(ts, ml, q, t) => AtWork([ts EXCEPT ![t] = r], ml, q, t)
<1> DEFINE us == [ts EXCEPT ![t] = r]
<1>1. ts \in Threads BY DEF Good
<1>2. us \in Threads /\ us[t] = r /\ \A u \in Thread : u # t => us[u] = ts[u]
  BY <1>1, Put DEF Threads
<1> HIDE DEF us
<1>3. \A u \in Thread : /\ SameTurn(ts[u], us[u]) /\ SameBatch(ts[u], us[u])
                        /\ SameWork(ts[u], us[u])
                        /\ ts[u].failure => us[u].failure
  BY <1>2 DEF SameTurn, SameBatch, SameWork
<1>4. Good(us, ml, q, E) /\ (AtWork(ts, ml, q, t) => AtWork(us, ml, q, t))
  BY <1>2, <1>3, Unseen
<1> QED BY <1>4 DEF us

\* ... when the thread is at work.
LEMMA PutAtWork ==
  ASSUME NEW ml, NEW q, NEW ts, NEW t \in Thread, AtWork(ts, ml, q, t),
         NEW r \in ThreadType, SameTurn(ts[t], r), SameBatch(ts[t], r), SameWork(ts[t], r),
         ts[t].failure => r.failure
  PROVE  AtWork([ts EXCEPT ![t] = r], ml, q, t) /\ [ts EXCEPT ![t] = r][t] = r
<1>1. Good(ts, ml, q, {t}) BY DEF AtWork
<1>2. [ts EXCEPT ![t] = r][t] = r BY <1>1 DEF Good, Threads
<1> QED BY <1>1, <1>2, PutUnseen

\* The fields nothing depends on.
LEMMA UnseenFields ==
  ASSUME NEW r \in ThreadType
  PROVE  /\ \A v \in BOOLEAN : LET s == [r EXCEPT !.forced = v]
              IN s \in ThreadType /\ SameTurn(r, s) /\ SameBatch(r, s) /\ SameWork(r, s) /\ s.failure = r.failure
         /\ \A v \in BOOLEAN : LET s == [r EXCEPT !.fresh = v]
              IN s \in ThreadType /\ SameTurn(r, s) /\ SameBatch(r, s) /\ SameWork(r, s) /\ s.failure = r.failure
         /\ \A v \in BOOLEAN : LET s == [r EXCEPT !.compacting = v]
              IN s \in ThreadType /\ SameTurn(r, s) /\ SameBatch(r, s) /\ SameWork(r, s) /\ s.failure = r.failure
         /\ \A v \in Nat : LET s == [r EXCEPT !.round = v]
              IN s \in ThreadType /\ SameTurn(r, s) /\ SameBatch(r, s) /\ SameWork(r, s) /\ s.failure = r.failure
         /\ \A v \in {"none", "ok", "error"} : LET s == [r EXCEPT !.result = v]
              IN s \in ThreadType /\ SameTurn(r, s) /\ SameBatch(r, s) /\ SameWork(r, s) /\ s.failure = r.failure
         /\ LET s == [r EXCEPT !.failure = TRUE]
            IN s \in ThreadType /\ SameTurn(r, s) /\ SameBatch(r, s) /\ SameWork(r, s) /\ s.failure
<1>1. \A v \in BOOLEAN : LET s == [r EXCEPT !.forced = v]
        IN s \in ThreadType /\ SameTurn(r, s) /\ SameBatch(r, s) /\ SameWork(r, s) /\ s.failure = r.failure
  BY DEF ThreadType, SameTurn, SameBatch, SameWork
<1>2. \A v \in BOOLEAN : LET s == [r EXCEPT !.fresh = v]
        IN s \in ThreadType /\ SameTurn(r, s) /\ SameBatch(r, s) /\ SameWork(r, s) /\ s.failure = r.failure
  BY DEF ThreadType, SameTurn, SameBatch, SameWork
<1>3. \A v \in BOOLEAN : LET s == [r EXCEPT !.compacting = v]
        IN s \in ThreadType /\ SameTurn(r, s) /\ SameBatch(r, s) /\ SameWork(r, s) /\ s.failure = r.failure
  BY DEF ThreadType, SameTurn, SameBatch, SameWork
<1>4. \A v \in Nat : LET s == [r EXCEPT !.round = v]
        IN s \in ThreadType /\ SameTurn(r, s) /\ SameBatch(r, s) /\ SameWork(r, s) /\ s.failure = r.failure
  BY DEF ThreadType, SameTurn, SameBatch, SameWork
<1>5. \A v \in {"none", "ok", "error"} : LET s == [r EXCEPT !.result = v]
        IN s \in ThreadType /\ SameTurn(r, s) /\ SameBatch(r, s) /\ SameWork(r, s) /\ s.failure = r.failure
  BY DEF ThreadType, SameTurn, SameBatch, SameWork
<1>6. LET s == [r EXCEPT !.failure = TRUE]
      IN s \in ThreadType /\ SameTurn(r, s) /\ SameBatch(r, s) /\ SameWork(r, s) /\ s.failure
  BY DEF ThreadType, SameTurn, SameBatch, SameWork
<1> QED BY <1>1, <1>2, <1>3, <1>4, <1>5, <1>6

\* ShowTurnFailure gives the reason.
LEMMA FailedGood ==
  ASSUME NEW ml, NEW q, NEW E, NEW ts, Good(ts, ml, q, E), NEW t \in Thread,
         NEW us, us = Failed(ts, t)
  PROVE  /\ Good(us, ml, q, E)
         /\ AtWork(ts, ml, q, t) => AtWork(us, ml, q, t)
         /\ SameTurn(ts[t], us[t]) /\ SameBatch(ts[t], us[t]) /\ us[t].failure
         /\ \A u \in Thread : u # t => us[u] = ts[u]
<1> DEFINE r == [ts[t] EXCEPT !.failure = TRUE]
<1>1. ts[t] \in ThreadType /\ ts \in Threads BY Get DEF Good
<1>2. /\ r \in ThreadType /\ SameTurn(ts[t], r) /\ SameBatch(ts[t], r) /\ SameWork(ts[t], r)
      /\ r.failure
  BY <1>1, UnseenFields
<1>3. us = [ts EXCEPT ![t] = r] BY <1>1 DEF Failed
<1> HIDE DEF r
<1>4. us[t] = r /\ \A u \in Thread : u # t => us[u] = ts[u] BY <1>1, <1>3 DEF Threads
<1>7. ts[t].failure => r.failure BY <1>2
<1>8. /\ Good([ts EXCEPT ![t] = r], ml, q, E)
      /\ AtWork(ts, ml, q, t) => AtWork([ts EXCEPT ![t] = r], ml, q, t)
  BY <1>2, <1>7, PutUnseen
<1>5. Good(us, ml, q, E) BY <1>3, <1>8
<1>6. AtWork(ts, ml, q, t) => AtWork(us, ml, q, t) BY <1>3, <1>8
<1> QED BY <1>2, <1>4, <1>5, <1>6

\* StartCompletion of a conversation, whatever it meets.
LEMMA StartCompletionTop ==
  ASSUME NEW ml \in Seq(Call), NEW q \in BOOLEAN, NEW ts, NEW t \in Top,
         NEW how \in ApiHow \cup ClaudeHow,
         AtWork(ts, ml, q, t), ts[t].token = "none",
         how \in {"completion", "summary"} => ~ts[t].claude,
         how \in {"resume", "fresh"} => ts[t].claude
  PROVE  Good(StartCompletion(ts, t, how), ml, q, {})
<1>1. t \in Thread /\ ts \in Threads /\ Good(ts, ml, q, {t}) BY DEF Thread, AtWork, Good
<1>2. CASE how = "completion" BY <1>1, <1>2, SendRequestGood DEF StartCompletion
<1>3. CASE how = "summary" /\ ts[t].compacting
  BY <1>1, <1>3, SendRequestGood DEF StartCompletion
<1>4. CASE how = "summary" /\ ~ts[t].compacting
  <2> DEFINE r == [ts[t] EXCEPT !.compacting = TRUE]
             e == [ts EXCEPT ![t] = r]
  <2>1. ts[t] \in ThreadType BY <1>1, Get
  <2>2. r \in ThreadType /\ SameTurn(ts[t], r) /\ SameBatch(ts[t], r) /\ SameWork(ts[t], r)
        /\ r.failure = ts[t].failure
    BY <2>1, UnseenFields
  <2>3. StartCompletion(ts, t, how) = SendRequest(e, t, "summary")
    BY <1>4 DEF StartCompletion, SendSummary
  <2> HIDE DEF r
  <2>4. AtWork(e, ml, q, t) /\ e[t] = r BY <1>1, <2>2, PutAtWork
  <2> HIDE DEF e
  <2>5. e[t].token = "none" /\ ~e[t].claude BY <1>4, <2>2, <2>4 DEF SameTurn, SameBatch
  <2> QED BY <1>1, <2>3, <2>4, <2>5, SendRequestGood
<1>5. CASE how \in {"resume", "fresh"}
  <2> DEFINE r == [ts[t] EXCEPT !.fresh = FALSE]
             e == [ts EXCEPT ![t] = r]
             resumed == how = "resume"
  <2>1. ts[t] \in ThreadType BY <1>1, Get
  <2>2. r \in ThreadType /\ SameTurn(ts[t], r) /\ SameBatch(ts[t], r) /\ SameWork(ts[t], r)
        /\ r.failure = ts[t].failure
    BY <2>1, UnseenFields
  <2>3. StartCompletion(ts, t, how) = SpawnClaude(e, t, resumed)
    BY <1>5 DEF StartCompletion
  <2>6. resumed \in BOOLEAN OBVIOUS
  <2> HIDE DEF r, resumed
  <2>4. AtWork(e, ml, q, t) /\ e[t] = r BY <1>1, <2>2, PutAtWork
  <2> HIDE DEF e
  <2>5. e[t].token = "none" /\ e[t].claude BY <1>5, <2>2, <2>4 DEF SameTurn, SameBatch
  <2> QED BY <1>1, <2>3, <2>4, <2>5, <2>6, SpawnClaudeGood
<1>6. CASE how \in Refusal
  <2> DEFINE e == Failed(ts, t)
  <2>1. AtWork(e, ml, q, t) /\ e[t].failure /\ e[t].token = "none"
    <3> HIDE DEF e
    <3>1. e = Failed(ts, t) BY DEF e
    <3> QED BY <1>1, <3>1, FailedGood DEF SameBatch
  <2>2. StartCompletion(ts, t, how) = Finalized(e, t)
    BY <1>6 DEF StartCompletion, Refusal
  <2> HIDE DEF e
  <2> QED BY <2>1, <2>2, EndedTop
<1> QED BY <1>2, <1>3, <1>4, <1>5, <1>6 DEF ApiHow, ClaudeHow, Refusal

\* A turn that does not run has no subagents, and neither has a subagent.
LEMMA NoChildren ==
  ASSUME NEW ml, NEW q, NEW E, NEW ts, Good(ts, ml, q, E), NEW t \in Thread,
         ~ts[t].streaming \/ t \in Sub
  PROVE  RunningChildren(ts, t) = {}
<1> SUFFICES ASSUME NEW c \in Sub, ts[c].open, ts[c].parent = t, ts[c].streaming PROVE FALSE
  BY DEF RunningChildren, Children
<1>1. t \in Top /\ ts[t].streaming BY DEF Good, SubShape, Lives
<1> QED BY <1>1, ThreadAssumption

\* StartTurn of an idle conversation.
LEMMA StartTurnTop ==
  ASSUME NEW ml \in Seq(Call), NEW q \in BOOLEAN, NEW ts, NEW t \in Top,
         NEW how \in ApiHow \cup ClaudeHow, Good(ts, ml, q, {t}), ~ts[t].streaming
  PROVE  Good(StartTurn(ts, t, how), ml, q, {})
<1> DEFINE claude == how \in ClaudeHow
           r == [[[[[[ts[t] EXCEPT !.forced = FALSE] EXCEPT !.stop = FALSE] EXCEPT !.failure = FALSE]
                   EXCEPT !.claude = claude] EXCEPT !.streaming = TRUE] EXCEPT !.round = 0]
           e == [ts EXCEPT ![t] = r]
<1>1. t \in Thread /\ t \notin Sub /\ ts \in Threads BY ThreadAssumption DEF Thread, Good
<1>2. ts[t] \in ThreadType BY <1>1, Get
<1>3. StartTurn(ts, t, how) = StartCompletion(e, t, how) BY <1>2 DEF StartTurn
<1>4. claude \in BOOLEAN OBVIOUS
<1>5. claude = (how \in ClaudeHow) OBVIOUS
<1> HIDE DEF claude
<1>6. /\ r.open = ts[t].open /\ r.parent = ts[t].parent /\ r.streaming /\ r.claude = claude
      /\ SameBatch(ts[t], r) /\ SameWork(ts[t], r)
  BY <1>2, <1>4 DEF ThreadType, SameBatch, SameWork
<1>7. r \in ThreadType
  <2>1. [ts[t] EXCEPT !.forced = FALSE] \in ThreadType BY <1>2, Setters
  <2>2. [[ts[t] EXCEPT !.forced = FALSE] EXCEPT !.stop = FALSE] \in ThreadType BY <2>1, Setters
  <2>3. [[[ts[t] EXCEPT !.forced = FALSE] EXCEPT !.stop = FALSE] EXCEPT !.failure = FALSE] \in ThreadType
    BY <2>2, Setters
  <2>4. [[[[ts[t] EXCEPT !.forced = FALSE] EXCEPT !.stop = FALSE] EXCEPT !.failure = FALSE]
            EXCEPT !.claude = claude] \in ThreadType
    BY <1>4, <2>3, Setters
  <2>5. [[[[[ts[t] EXCEPT !.forced = FALSE] EXCEPT !.stop = FALSE] EXCEPT !.failure = FALSE]
            EXCEPT !.claude = claude] EXCEPT !.streaming = TRUE] \in ThreadType
    BY <2>4, Setters
  <2> QED BY <2>5, Setters
<1> HIDE DEF r
<1>8. e \in Threads /\ e[t] = r /\ \A u \in Thread : u # t => e[u] = ts[u]
  BY <1>1, <1>7, Put DEF Threads
<1> HIDE DEF e
<1>9. Silent(ts[t], ml, t) /\ ts[t].token = "none" /\ ts[t].open /\ Alone(ts[t], ml, t)
  BY <1>1 DEF Good, Alone, Shape
<1>10. Alone(e[t], ml, t) /\ Silent(e[t], ml, t)
  <2>1. r.gen \in Nat /\ ts[t].gen <= r.gen /\ r.tools.state # "reported" /\ Off(r)
    BY <1>6, <1>7, <1>9, TurnFields DEF SameWork, Silent, Off
  <2>2. Calls(r, ml, t) /\ Silent(r, ml, t) BY <1>1, <1>2, <1>7, <1>9, <2>1, SilentCalls DEF Alone
  <2>3. Shape(r) BY <1>6, <1>9, <2>1 DEF Alone, Shape, Off, SameBatch
  <2> QED BY <1>6, <1>8, <2>2, <2>3 DEF Alone
<1>11. RunningChildren(ts, t) = {} BY <1>1, NoChildren
<1>12. \A c \in Sub : e[t].batch[c] # "empty"
  BY <1>6, <1>8, <1>9 DEF Alone, Shape, SameBatch, NoBatch
<1>13. Good(e, ml, q, {t} \cup {t})
  BY <1>1, <1>6, <1>8, <1>9, <1>10, <1>11, <1>12, Change
<1>14. AtWork(e, ml, q, t) BY <1>1, <1>6, <1>8, <1>10, <1>13 DEF AtWork
<1>15. e[t].token = "none" BY <1>6, <1>8, <1>9 DEF SameBatch
<1>16. /\ how \in {"completion", "summary"} => ~e[t].claude
       /\ how \in {"resume", "fresh"} => e[t].claude
  <2>1. e[t].claude = claude BY <1>6, <1>8, Zenon
  <2>2. /\ how \in {"completion", "summary"} => ~claude
        /\ how \in {"resume", "fresh"} => claude
    BY DEF claude, ClaudeHow
  <2> QED BY <2>1, <2>2, Zenon
<1> QED BY <1>3, <1>14, <1>15, <1>16, StartCompletionTop

\* The next message of an idle conversation's queue.
LEMMA DispatchTop ==
  ASSUME NEW ml \in Seq(Call), NEW q \in BOOLEAN, NEW ts, NEW t \in Top,
         NEW how \in ApiHow \cup ClaudeHow, Good(ts, ml, q, {t}), ~ts[t].streaming
  PROVE  Good(DispatchNextQueued(ts, t, how), ml, q, {})
<1>1. t \in Thread /\ t \notin Sub /\ ts \in Threads BY ThreadAssumption DEF Thread, Good
<1>2. CASE ts[t].queue = 0
  <2>1. Settled(ts, ml, q, t) BY <1>2 DEF Settled
  <2> QED BY <1>1, <1>2, <2>1, Settle DEF DispatchNextQueued
<1>3. CASE ts[t].queue # 0
  <2> DEFINE r == [ts[t] EXCEPT !.queue = ts[t].queue - 1]
             e == [ts EXCEPT ![t] = r]
  <2>1. ts[t] \in ThreadType BY <1>1, Get
  <2>2. DispatchNextQueued(ts, t, how) = StartTurn(e, t, how) BY <1>3 DEF DispatchNextQueued
  <2>3. r \in ThreadType
    <3>1. ts[t].queue \in 0..MaxQueue BY <2>1, Fields
    <3>2. ts[t].queue - 1 \in 0..MaxQueue BY <1>3, <3>1, ThreadAssumption
    <3> QED BY <2>1, <3>2, Setters
  <2>4. /\ r.open = ts[t].open /\ r.parent = ts[t].parent /\ ~r.streaming /\ r.stop = ts[t].stop
        /\ SameBatch(ts[t], r) /\ SameWork(ts[t], r)
    BY <2>1 DEF ThreadType, SameBatch, SameWork
  <2> HIDE DEF r
  <2>5. e \in Threads /\ e[t] = r /\ \A u \in Thread : u # t => e[u] = ts[u]
    BY <1>1, <2>3, Put DEF Threads
  <2> HIDE DEF e
  <2>6. Silent(ts[t], ml, t) /\ ts[t].token = "none" /\ ts[t].open /\ Alone(ts[t], ml, t)
    BY <1>1 DEF Good, Alone, Shape
  <2>7. Alone(e[t], ml, t) BY <1>1, <2>1, <2>3, <2>4, <2>5, <2>6, Ends
  <2>8. RunningChildren(ts, t) = {} BY <1>1, NoChildren
  <2>9. \A c \in Sub : e[t].batch[c] # "empty"
    BY <2>4, <2>5, <2>6 DEF Alone, Shape, SameBatch, NoBatch
  <2>10. Good(e, ml, q, {t} \cup {t})
    BY <1>1, <2>4, <2>5, <2>6, <2>7, <2>8, <2>9, Change
  <2> QED BY <2>2, <2>4, <2>5, <2>10, StartTurnTop
<1> QED BY <1>2, <1>3

-----------------------------------------------------------------------------
(* Tool batches.                                                           *)

\* A batch whose worker is over waits for subagents only.
LEMMA BatchSilent ==
  ASSUME NEW r, NEW ml \in Seq(Call), NEW t, Alone(r, ml, t), r.token # "none", r.tools.state = "off"
  PROVE  Silent(r, ml, t) /\ r.streaming /\ ~r.claude
<1>1. Off(r) /\ r.streaming /\ ~r.claude BY DEF Alone, Shape, Off
<1>2. ASSUME NEW i \in DOMAIN ml, ml[i].to = t, ml[i].gen = r.gen PROVE FALSE
  <2>1. ml[i].kind \in LastCall \cup ClaudeLine BY CallAt DEF Call
  <2>2. Heard(r, ml[i]) BY <1>2 DEF Alone, Calls
  <2> QED BY <1>1, <2>1, <2>2 DEF Heard, LastCall
<1> QED BY <1>1, <1>2 DEF Silent

\* The batch is recorded, and the turn goes on or ends.
LEMMA BatchRecordedIs ==
  ASSUME NEW ts \in Threads, NEW t \in Thread, NEW us, us = BatchRecorded(ts, t)
  PROVE  /\ us \in Threads /\ \A u \in Thread : u # t => us[u] = ts[u]
         /\ SameTurn(ts[t], us[t]) /\ SameWork(ts[t], us[t])
         /\ us[t].token = "none" /\ us[t].batch = NoBatch
<1> DEFINE r == [[ts[t] EXCEPT !.token = "none"] EXCEPT !.batch = NoBatch]
<1>1. us \in Threads BY BatchRecordedType
<1>2. ts[t] \in ThreadType BY Get
<1>3. us = [ts EXCEPT ![t] = r] BY <1>2 DEF BatchRecorded
<1>4. us[t] = r /\ \A u \in Thread : u # t => us[u] = ts[u] BY <1>3 DEF Threads
<1>5. /\ SameTurn(ts[t], r) /\ SameWork(ts[t], r) /\ r.token = "none" /\ r.batch = NoBatch
  BY <1>2 DEF ThreadType, SameTurn, SameWork
<1> QED BY <1>1, <1>4, <1>5

LEMMA BatchRecordedGood ==
  ASSUME NEW ml \in Seq(Call), NEW q \in BOOLEAN, NEW ts, NEW t \in Thread,
         AtWork(ts, ml, q, t), RunningChildren(ts, t) = {}, NEW us, us = BatchRecorded(ts, t)
  PROVE  AtWork(us, ml, q, t) /\ SameTurn(ts[t], us[t]) /\ us[t].token = "none"
<1>1. Good(ts, ml, q, {t}) /\ ts[t].streaming /\ Silent(ts[t], ml, t) /\ ts \in Threads
  BY DEF AtWork, Good
<1>2. /\ us \in Threads /\ \A u \in Thread : u # t => us[u] = ts[u]
      /\ SameTurn(ts[t], us[t]) /\ SameWork(ts[t], us[t])
      /\ us[t].token = "none" /\ us[t].batch = NoBatch
  BY <1>1, BatchRecordedIs
<1>3. ts[t] \in ThreadType /\ us[t] \in ThreadType BY <1>1, <1>2, Get
<1>4. us[t].gen \in Nat /\ ts[t].gen <= us[t].gen /\ us[t].tools.state # "reported" /\ Off(us[t])
  BY <1>1, <1>2, <1>3, TurnFields DEF SameWork, Silent, Off
<1>5. Alone(ts[t], ml, t) BY <1>1 DEF Good
<1>6. Calls(us[t], ml, t) /\ Silent(us[t], ml, t)
  BY <1>1, <1>3, <1>4, <1>5, SilentCalls DEF Alone
<1>7. Shape(us[t]) BY <1>2, <1>4, <1>5 DEF Alone, Shape, Off, SameTurn, SameWork
<1>8. Alone(us[t], ml, t) BY <1>6, <1>7 DEF Alone
<1>9. \A c \in Sub : us[t].batch[c] # "empty" BY <1>2 DEF NoBatch
<1>10. us[t].open /\ us[t].parent = ts[t].parent BY <1>1, <1>2, <1>5 DEF Alone, Shape, SameTurn
<1>11. t \in Sub => /\ SubShape(us[t]) /\ ts[t].parent \in Top
                    /\ ts[t].stop => us[t].stop
                    /\ ts[ts[t].parent].batch[t] = "empty" /\ us[t].streaming
  BY <1>1, <1>2 DEF AtWork, Good, SubShape, SameTurn
<1>12. Good(us, ml, q, {t} \cup {t}) BY <1>1, <1>2, <1>8, <1>9, <1>10, <1>11, Change
<1>13. t \in Sub => us[t].parent \in Top /\ us[us[t].parent].batch[t] = "empty"
  BY <1>2, <1>10, <1>11, ThreadAssumption DEF Thread
<1> QED BY <1>1, <1>2, <1>6, <1>12, <1>13 DEF AtWork, SameTurn

\* The next round of the turn is about to start.
LEMMA NextRoundReady ==
  ASSUME NEW ml \in Seq(Call), NEW q \in BOOLEAN, NEW ts, NEW t \in Thread,
         AtWork(ts, ml, q, t), RunningChildren(ts, t) = {}, ts[t].token # "none",
         NEW us, us = [BatchRecorded(ts, t) EXCEPT ![t].round = @ + 1]
  PROVE  AtWork(us, ml, q, t) /\ us[t].token = "none" /\ ~us[t].claude
<1> DEFINE e == BatchRecorded(ts, t)
           r == [e[t] EXCEPT !.round = e[t].round + 1]
<1>1. AtWork(e, ml, q, t) /\ SameTurn(ts[t], e[t]) /\ e[t].token = "none"
  <2> HIDE DEF e
  <2>1. e = BatchRecorded(ts, t) BY DEF e
  <2> QED BY <2>1, BatchRecordedGood
<1>2. us = [e EXCEPT ![t] = r] OBVIOUS
<1> HIDE DEF e
<1>3. e[t] \in ThreadType BY <1>1, Get DEF AtWork, Good
<1>4. e[t].round + 1 \in Nat BY <1>3, Fields
<1>5. /\ r \in ThreadType /\ SameTurn(e[t], r) /\ SameBatch(e[t], r) /\ SameWork(e[t], r)
      /\ r.failure = e[t].failure
  BY <1>3, <1>4, UnseenFields
<1> HIDE DEF r
<1>6. AtWork([e EXCEPT ![t] = r], ml, q, t) /\ [e EXCEPT ![t] = r][t] = r
  BY <1>1, <1>5, PutAtWork
<1>7. ~ts[t].claude BY DEF AtWork, Good, Alone, Shape
<1> QED BY <1>1, <1>2, <1>5, <1>6, <1>7 DEF SameTurn, SameBatch

\* OnToolBatchDone of a conversation whose batch may be over.
LEMMA WakeParentGood ==
  ASSUME NEW ml \in Seq(Call), NEW q \in BOOLEAN, NEW ts, NEW p \in Top, NEW how \in ApiHow,
         Good(ts, ml, q, {p}), ts[p].token # "none"
  PROVE  Good(WakeParent(ts, p, how), ml, q, {})
<1>1. p \in Thread /\ p \notin Sub BY ThreadAssumption DEF Thread
<1>2. ts[p].streaming /\ Alone(ts[p], ml, p) BY <1>1 DEF Good, Alone, Shape
<1>3. CASE ~BatchOver(ts, p)
  <2>1. Settled(ts, ml, q, p) BY <1>2, <1>3 DEF Settled, BatchOver, Silent, Off
  <2> QED BY <1>1, <1>3, <2>1, Settle DEF WakeParent
<1>4. CASE BatchOver(ts, p)
  <2>1. RunningChildren(ts, p) = {} /\ ts[p].tools.state = "off"
    BY <1>4 DEF BatchOver, HasRunningChild
  <2>2. AtWork(ts, ml, q, p) BY <1>1, <1>2, <2>1, BatchSilent DEF AtWork
  <2>3. CASE ts[p].token = "cancelled"
    <3> DEFINE e == BatchRecorded(ts, p)
    <3>1. WakeParent(ts, p, how) = Finalized(e, p) BY <1>4, <2>3 DEF WakeParent
    <3>2. e = BatchRecorded(ts, p) OBVIOUS
    <3> HIDE DEF e
    <3>3. AtWork(e, ml, q, p) /\ SameTurn(ts[p], e[p]) /\ e[p].token = "none"
      BY <1>1, <2>1, <2>2, <3>2, BatchRecordedGood
    <3>4. e[p].stop BY <1>2, <2>3, <3>3 DEF Alone, Shape, SameTurn
    <3> QED BY <3>1, <3>3, <3>4, EndedTop
  <2>4. CASE ts[p].token # "cancelled"
    <3> DEFINE e == [BatchRecorded(ts, p) EXCEPT ![p].round = @ + 1]
    <3>1. WakeParent(ts, p, how) = StartCompletion(e, p, how)
      BY <1>4, <2>4 DEF WakeParent, NextRound
    <3>2. e = [BatchRecorded(ts, p) EXCEPT ![p].round = @ + 1] OBVIOUS
    <3> HIDE DEF e
    <3>3. AtWork(e, ml, q, p) /\ e[p].token = "none" /\ ~e[p].claude
      BY <1>1, <2>1, <2>2, <3>2, NextRoundReady
    <3>4. how \in ApiHow \cup ClaudeHow /\ how \notin {"resume", "fresh"} BY DEF ApiHow
    <3> QED BY <3>1, <3>3, <3>4, StartCompletionTop
  <2> QED BY <2>3, <2>4
<1> QED BY <1>3, <1>4

-----------------------------------------------------------------------------
(* Subagents report to the batch they ran in.                              *)

LEMMA ReportGood ==
  ASSUME NEW ml \in Seq(Call), NEW q \in BOOLEAN, NEW ts, NEW c \in Sub, NEW p \in Top,
         NEW failed \in BOOLEAN, NEW how \in ApiHow,
         Good(ts, ml, q, {c, p}), ~ts[c].streaming, ts[c].parent = p, ts[p].batch[c] = "empty"
  PROVE  Good(ReportToParent(ts, c, failed, how), ml, q, {})
<1> DEFINE report == CASE ~failed -> "report"
                       [] failed /\ ts[c].failure -> "failed"
                       [] OTHER -> "cancelled"
           e == [ts EXCEPT ![p].batch[c] = report]
<1>1. ReportToParent(ts, c, failed, how) = WakeParent(e, p, how)
  BY ThreadAssumption DEF ReportToParent
<1>2. report \in Entry /\ report # "empty" BY DEF Entry
<1> HIDE DEF report
<1> DEFINE b == [ts[p].batch EXCEPT ![c] = report]
           r == [ts[p] EXCEPT !.batch = b]
<1>3. Thread = Top \cup Sub /\ Top \cap Sub = {} /\ ts \in Threads
  BY ThreadAssumption DEF Thread, Good
<1>4. \A u \in Thread : ts[u] \in ThreadType BY <1>3, Get
<1>5. b \in [Sub -> Entry] /\ b[c] # "empty" /\ \A d \in Sub : d # c => b[d] = ts[p].batch[d]
  BY <1>2, <1>3, <1>4, Fields
<1>6. e = [ts EXCEPT ![p] = r] OBVIOUS
<1> HIDE DEF b
<1>7. r \in ThreadType BY <1>3, <1>4, <1>5, Setters
<1>8. SameTurn(ts[p], r) /\ SameWork(ts[p], r) /\ r.token = ts[p].token /\ r.batch = b
  BY <1>3, <1>4 DEF ThreadType, SameTurn, SameWork
<1> HIDE DEF r
<1>9. e \in Threads /\ e[p] = r /\ \A u \in Thread : u # p => e[u] = ts[u]
  BY <1>3, <1>6, <1>7, Put DEF Threads
<1> HIDE DEF e
<1>10. ts[p].token # "none"
  <2>1. Shape(ts[p]) BY <1>3 DEF Good, Alone
  <2> QED BY <2>1 DEF Shape, NoBatch
<1>11. \A u \in Thread : SameTurn(ts[u], e[u]) /\ e[u].token = ts[u].token
  BY <1>8, <1>9 DEF SameTurn
<1>12. \A u \in Thread : Alone(e[u], ml, u)
  <2>1. Alone(e[p], ml, p) BY <1>3, <1>8, <1>9, <1>10, SameAlone DEF Good
  <2> QED BY <1>9, <2>1 DEF Good
<1>13. \A u \in Top : e[u].open /\ e[u].parent = NoThread BY <1>3, <1>11 DEF Good, SameTurn
<1>14. ASSUME NEW d \in Sub PROVE SubShape(e[d]) /\ Lives(e, ml, d) /\ Open(e, d, {p})
  <2>1. e[d] = ts[d] /\ SubShape(ts[d]) /\ Lives(ts, ml, d) /\ Open(ts, d, {c, p})
    BY <1>3, <1>9 DEF Good
  <2>2. ASSUME ts[d].streaming PROVE Lives(e, ml, d)
    <3>1. ts[d].parent \in Top /\ d # c
      BY <1>3, <2>1, <2>2 DEF Good, Alone, Shape, SubShape
    <3>2. SameTurn(ts[ts[d].parent], e[ts[d].parent])
          /\ e[ts[d].parent].token = ts[ts[d].parent].token
          /\ e[ts[d].parent].batch[d] = ts[ts[d].parent].batch[d]
      BY <1>3, <1>5, <1>8, <1>9, <1>11, <3>1
    <3> QED BY <2>1, <2>2, <3>2 DEF Lives, SameTurn
  <2>3. ASSUME NEW u \in Top, e[u].batch[d] = "empty"
        PROVE  e[d].parent = u /\ (d \in {p} \/ e[d].streaming)
    <3>1. ts[u].batch[d] = "empty" /\ ~(u = p /\ d = c) BY <1>3, <1>5, <1>8, <1>9, <2>3
    <3>2. ts[d].parent = u /\ (d \in {c, p} \/ ts[d].streaming) BY <2>1, <3>1 DEF Open
    <3> QED BY <1>3, <2>1, <3>1, <3>2
  <2> QED BY <2>1, <2>2, <2>3 DEF Lives, Open
<1>15. ASSUME NEW u \in Thread \ {p} PROVE Settled(e, ml, q, u)
  <2>1. e[u] = ts[u] BY <1>9
  <2>2. CASE u = c
    <3>1. ts[u].queue = 0 BY <2>2 DEF Good, SubShape
    <3> QED BY <2>1, <2>2, <3>1 DEF Settled
  <2>3. CASE u # c
    <3>1. Settled(ts, ml, q, u) BY <2>3 DEF Good
    <3>2. HasRunningChild(ts, u) => HasRunningChild(e, u)
      BY <1>3, <1>11 DEF HasRunningChild, RunningChildren, Children, SameTurn
    <3>3. ASSUME u \in Sub, ts[u].streaming, ts[ts[u].parent].claude PROVE e[e[u].parent].claude
      <4>1. ts[u].parent \in Thread BY <1>3, <3>3 DEF Good, Alone, Shape, SubShape
      <4> QED BY <1>11, <2>1, <3>3, <4>1 DEF SameTurn
    <3> QED BY <2>1, <3>1, <3>2, <3>3 DEF Settled
  <2> QED BY <2>2, <2>3
<1>16. Good(e, ml, q, {p}) BY <1>9, <1>12, <1>13, <1>14, <1>15 DEF Good
<1>17. e[p].token # "none" BY <1>8, <1>9, <1>10
<1> QED BY <1>1, <1>16, <1>17, WakeParentGood

\* FinalizeTurn of a `task` subagent, whose parent's batch waits for it.
LEMMA EndedSub ==
  ASSUME NEW ml \in Seq(Call), NEW q \in BOOLEAN, NEW ts, NEW t \in Sub,
         NEW failed \in BOOLEAN, NEW how \in ApiHow,
         AtWork(ts, ml, q, t), ts[t].token = "none"
  PROVE  Good(ReportToParent(Finalized(ts, t), t, failed, how), ml, q, {})
<1> DEFINE us == Finalized(ts, t)
           p == ts[t].parent
<1>1. t \in Thread /\ Parents(ts, t) = {p} BY DEF Thread, Parents
<1>2. ts \in Threads /\ Good(ts, ml, q, {t}) /\ Silent(ts[t], ml, t) BY DEF AtWork, Good
<1>3. FinalizedTo(ts, us, t) BY <1>1, <1>2, FinalizedIs
<1> HIDE DEF us
<1>4. Good(us, ml, q, {t} \cup Parents(ts, t)) BY <1>1, <1>2, <1>3, FinalizedGood
<1>5. {t} \cup Parents(ts, t) = {t, p} BY <1>1
<1>6. Good(us, ml, q, {t, p}) BY <1>4, <1>5
<1>7. p \in Top /\ ts[p].batch[t] = "empty" BY DEF AtWork
<1>8. ~us[t].streaming /\ us[t].parent = p /\ us[p].batch[t] = "empty"
  BY <1>1, <1>3, <1>7 DEF FinalizedTo, SameBatch, Thread
<1>9. Good(ReportToParent(us, t, failed, how), ml, q, {})
  BY <1>6, <1>7, <1>8, ReportGood
<1> QED BY <1>9 DEF us

\* FinalizeTurn, of a thread that has no batch.
LEMMA EndTurnGood ==
  ASSUME NEW ml \in Seq(Call), NEW q \in BOOLEAN, NEW ts, NEW t \in Thread,
         NEW failed \in BOOLEAN, NEW how \in ApiHow \cup ClaudeHow, NEW phow \in ApiHow,
         AtWork(ts, ml, q, t), ts[t].token = "none",
         failed => ts[t].failure \/ ts[t].stop
  PROVE  Good(EndTurn(ts, t, failed, how, phow), ml, q, {})
<1>1. CASE t \in Sub BY <1>1, EndedSub DEF EndTurn
<1>2. CASE t \in Top /\ failed BY <1>2, ThreadAssumption, EndedTop DEF EndTurn
<1>3. CASE t \in Top /\ ~failed
  <2> DEFINE us == Finalized(ts, t)
  <2>1. t \notin Sub /\ Parents(ts, t) = {} BY <1>3, ThreadAssumption DEF Parents
  <2>2. ts \in Threads /\ Good(ts, ml, q, {t}) /\ Silent(ts[t], ml, t) BY DEF AtWork, Good
  <2>3. FinalizedTo(ts, us, t) BY <2>2, FinalizedIs
  <2>4. EndTurn(ts, t, failed, how, phow) = DispatchNextQueued(us, t, how)
    BY <1>3, <2>1 DEF EndTurn
  <2> HIDE DEF us
  <2>5. Good(us, ml, q, {t} \cup Parents(ts, t)) BY <2>2, <2>3, FinalizedGood
  <2>6. Good(us, ml, q, {t}) BY <2>1, <2>5
  <2>7. ~us[t].streaming BY <2>3 DEF FinalizedTo
  <2> QED BY <1>3, <2>4, <2>6, <2>7, DispatchTop
<1> QED BY <1>1, <1>2, <1>3 DEF Thread

\* StartCompletion of any thread that talks to an API model.
LEMMA ProceedGood ==
  ASSUME NEW ml \in Seq(Call), NEW q \in BOOLEAN, NEW ts, NEW t \in Thread,
         NEW how \in ApiHow, NEW phow \in ApiHow,
         AtWork(ts, ml, q, t), ts[t].token = "none", ~ts[t].claude
  PROVE  Good(Proceed(ts, t, how, phow), ml, q, {})
<1>1. CASE how \in Refusal
  <2> DEFINE e == Failed(ts, t)
  <2>1. Proceed(ts, t, how, phow) = ReportToParent(Finalized(e, t), t, TRUE, phow)
    BY <1>1 DEF Proceed, StartCompletion, Refusal
  <2>2. e = Failed(ts, t) /\ Good(ts, ml, q, {t}) BY DEF AtWork
  <2> HIDE DEF e
  <2>3. AtWork(e, ml, q, t) /\ e[t].failure /\ SameTurn(ts[t], e[t]) /\ SameBatch(ts[t], e[t])
    BY <2>2, FailedGood
  <2>4. e[t].token = "none" BY <2>3 DEF SameBatch
  <2>5. CASE t \in Sub BY <2>1, <2>3, <2>4, <2>5, EndedSub
  <2>6. CASE t \in Top
    <3>1. Good(Finalized(e, t), ml, q, {}) BY <2>3, <2>4, <2>6, EndedTop
    <3> DEFINE us == Finalized(e, t)
    <3>2. us[t].parent = NoThread BY <2>6, <3>1 DEF Good
    <3> HIDE DEF us
    <3>3. ReportToParent(us, t, TRUE, phow) = us BY <3>2 DEF ReportToParent
    <3> QED BY <2>1, <3>1, <3>3 DEF us
  <2> QED BY <2>5, <2>6 DEF Thread
<1>2. CASE how \notin Refusal
  <2>1. Proceed(ts, t, how, phow) = StartCompletion(ts, t, how) BY <1>2 DEF Proceed
  <2>2. CASE how = "completion" \/ (how = "summary" /\ ts[t].compacting)
    BY <2>1, <2>2, SendRequestGood DEF StartCompletion
  <2>3. CASE (how = "summary" /\ ~ts[t].compacting)
    <3> DEFINE r == [ts[t] EXCEPT !.compacting = TRUE]
               e == [ts EXCEPT ![t] = r]
    <3>1. ts[t] \in ThreadType BY Get DEF AtWork, Good
    <3>2. r \in ThreadType /\ SameTurn(ts[t], r) /\ SameBatch(ts[t], r) /\ SameWork(ts[t], r)
          /\ r.failure = ts[t].failure
      BY <3>1, UnseenFields
    <3>3. StartCompletion(ts, t, how) = SendRequest(e, t, "summary")
      BY <2>3 DEF StartCompletion, SendSummary
    <3> HIDE DEF r
    <3>4. AtWork(e, ml, q, t) /\ e[t] = r BY <3>2, PutAtWork
    <3> HIDE DEF e
    <3>5. e[t].token = "none" /\ ~e[t].claude BY <3>2, <3>4 DEF SameTurn, SameBatch
    <3> QED BY <2>1, <3>3, <3>4, <3>5, SendRequestGood
  <2> QED BY <1>2, <2>2, <2>3 DEF ApiHow, Refusal
<1> QED BY <1>1, <1>2

\* OnToolBatchDone.
LEMMA OnToolBatchDoneGood ==
  ASSUME NEW ml \in Seq(Call), NEW q \in BOOLEAN, NEW ts, NEW t \in Thread,
         NEW how \in ApiHow, NEW phow \in ApiHow,
         AtWork(ts, ml, q, t), ts[t].token # "none"
  PROVE  Good(OnToolBatchDone(ts, t, how, phow), ml, q, {})
<1>1. Good(ts, ml, q, {t}) /\ Alone(ts[t], ml, t) /\ ts[t].streaming /\ Silent(ts[t], ml, t)
  BY DEF AtWork, Good
<1>2. CASE ~BatchOver(ts, t)
  <2>1. Settled(ts, ml, q, t) BY <1>1, <1>2 DEF Settled, BatchOver, Silent, Off
  <2> QED BY <1>1, <1>2, <2>1, Settle DEF OnToolBatchDone
<1>3. CASE BatchOver(ts, t)
  <2>1. RunningChildren(ts, t) = {} BY <1>3 DEF BatchOver, HasRunningChild
  <2>2. CASE ts[t].token = "cancelled"
    <3> DEFINE e == BatchRecorded(ts, t)
    <3>1. OnToolBatchDone(ts, t, how, phow) = EndTurn(e, t, TRUE, how, phow)
      BY <1>3, <2>2 DEF OnToolBatchDone
    <3>2. e = BatchRecorded(ts, t) OBVIOUS
    <3> HIDE DEF e
    <3>3. AtWork(e, ml, q, t) /\ SameTurn(ts[t], e[t]) /\ e[t].token = "none"
      BY <2>1, <3>2, BatchRecordedGood
    <3>4. e[t].stop BY <1>1, <2>2, <3>3 DEF Alone, Shape, SameTurn
    <3> QED BY <3>1, <3>3, <3>4, EndTurnGood
  <2>3. CASE ts[t].token # "cancelled"
    <3> DEFINE e == [BatchRecorded(ts, t) EXCEPT ![t].round = @ + 1]
    <3>1. OnToolBatchDone(ts, t, how, phow) = Proceed(e, t, how, phow)
      BY <1>3, <2>3 DEF OnToolBatchDone
    <3>2. e = [BatchRecorded(ts, t) EXCEPT ![t].round = @ + 1] OBVIOUS
    <3> HIDE DEF e
    <3>3. AtWork(e, ml, q, t) /\ e[t].token = "none" /\ ~e[t].claude
      BY <2>1, <3>2, NextRoundReady
    <3> QED BY <3>1, <3>3, ProceedGood
  <2> QED BY <2>2, <2>3
<1> QED BY <1>2, <1>3

-----------------------------------------------------------------------------
(* A tool batch starts.                                                    *)

\* A `task` subagent that has just been opened.
NewTask(r, t, how) ==
  /\ r \in ThreadType /\ r.open /\ r.parent = t /\ ~r.stop /\ ~r.claude /\ r.queue = 0
  /\ r.token = "none" /\ r.batch = NoBatch /\ r.tools.state = "off" /\ ~r.proc.on
  /\ \/ /\ how = "completion" /\ r.streaming /\ r.gen = 1
        /\ r.request = [kind |-> "completion", gen |-> 1, cancelled |-> FALSE]
     \/ how = "nokey" /\ ~r.streaming /\ r.gen = 0 /\ r.request = RequestOff

LEMMA NewTaskIs ==
  ASSUME NEW t \in Top, NEW how \in {"completion", "nokey"}
  PROVE  NewTask(TaskChild(t, how), t, how)
<1> DEFINE req == [kind |-> "completion", gen |-> 1, cancelled |-> FALSE]
           c == [[[Unused EXCEPT !.open = TRUE] EXCEPT !.parent = t] EXCEPT !.streaming = TRUE]
           a == [[c EXCEPT !.streaming = FALSE] EXCEPT !.failure = TRUE]
           b == [[c EXCEPT !.gen = 1] EXCEPT !.request = req]
<1>1. TaskChild(t, how) \in ThreadType BY TaskChildType
<1>2. TaskChild(t, how) = IF how = "nokey" THEN a ELSE b
  BY DEF TaskChild, Child, Unused
<1>3. /\ Unused \in ThreadType /\ ~Unused.stop /\ ~Unused.claude /\ Unused.queue = 0
      /\ Unused.token = "none" /\ Unused.batch = NoBatch /\ Unused.tools = ToolsOff
      /\ Unused.proc = ProcOff /\ Unused.gen = 0 /\ Unused.request = RequestOff
  BY UnusedType DEF Unused
<1>4. ToolsOff.state = "off" /\ ~ProcOff.on BY DEF ToolsOff, ProcOff
<1> HIDE DEF req
<1>5. /\ c.open /\ c.parent = t /\ ~c.stop /\ ~c.claude /\ c.queue = 0 /\ c.token = "none"
      /\ c.batch = NoBatch /\ c.tools = ToolsOff /\ c.proc = ProcOff /\ c.streaming /\ c.gen = 0
      /\ c.request = RequestOff /\ c \in ThreadType
  BY <1>3, ChildType DEF ThreadType
<1> HIDE DEF c
<1>6. CASE how = "nokey"
  <2>1. /\ a.open /\ a.parent = t /\ ~a.stop /\ ~a.claude /\ a.queue = 0 /\ a.token = "none"
        /\ a.batch = NoBatch /\ a.tools = ToolsOff /\ a.proc = ProcOff /\ ~a.streaming
        /\ a.gen = 0 /\ a.request = RequestOff
    BY <1>5 DEF ThreadType
  <2> HIDE DEF a
  <2> QED BY <1>1, <1>2, <1>4, <1>6, <2>1 DEF NewTask
<1>7. CASE how # "nokey"
  <2>1. /\ b.open /\ b.parent = t /\ ~b.stop /\ ~b.claude /\ b.queue = 0 /\ b.token = "none"
        /\ b.batch = NoBatch /\ b.tools = ToolsOff /\ b.proc = ProcOff /\ b.streaming
        /\ b.gen = 1 /\ b.request = req
    BY <1>5 DEF ThreadType
  <2> HIDE DEF b
  <2> QED BY <1>1, <1>2, <1>4, <1>7, <2>1 DEF NewTask, req
<1> QED BY <1>6, <1>7

\* HandleCompletion with tool calls, field by field.
BatchStarted(ts, us, t, kids, how) ==
  /\ us \in Threads
  /\ \A u \in Thread : u # t /\ u \notin kids => us[u] = ts[u]
  /\ \A c \in kids : NewTask(us[c], t, how)
  /\ SameTurn(ts[t], us[t])
  /\ us[t].gen = ts[t].gen + 1
  /\ us[t].request = ts[t].request /\ us[t].proc = ts[t].proc
  /\ us[t].tools.state = "running" /\ us[t].tools.gen = us[t].gen
  /\ us[t].token = "live"
  /\ \A c \in Sub : us[t].batch[c] = "empty" <=> c \in kids /\ how = "completion"
  /\ kids = {} => us[t].batch = NoBatch

LEMMA StartToolBatchIs ==
  ASSUME NEW ts \in Threads, NEW t \in Thread, NEW how \in {"completion", "nokey"},
         NEW kids \in SUBSET Sub, t \notin kids, t \in Sub => kids = {}
  PROVE  BatchStarted(ts, StartToolBatch(ts, t, kids, how), t, kids, how)
<1> DEFINE us == StartToolBatch(ts, t, kids, how)
           tools == [state |-> "running", gen |-> ts[t].gen + 1]
           batch == [c \in Sub |-> IF c \notin kids THEN "absent"
                                   ELSE IF how = "nokey" THEN "failed" ELSE "empty"]
           r == [[[[ts[t] EXCEPT !.gen = ts[t].gen + 1] EXCEPT !.tools = tools]
                    EXCEPT !.token = "live"] EXCEPT !.batch = batch]
<1>1. us \in Threads BY StartToolBatchType
<1>2. ts[t] \in ThreadType BY Get
<1>3. us[t] = r BY <1>2 DEF StartToolBatch
<1>4. ASSUME NEW u \in Thread, u # t PROVE us[u] = IF u \in kids THEN TaskChild(t, how) ELSE ts[u]
  BY <1>4 DEF StartToolBatch
<1> HIDE DEF us
<1>5. \A c \in kids : NewTask(us[c], t, how)
  <2> SUFFICES ASSUME NEW c \in kids PROVE NewTask(us[c], t, how) OBVIOUS
  <2>1. t \in Top /\ c \in Thread /\ c # t BY DEF Thread
  <2>2. us[c] = TaskChild(t, how) BY <1>4, <2>1
  <2> QED BY <2>1, <2>2, NewTaskIs
<1>6. \A c \in Sub : batch[c] = "empty" <=> c \in kids /\ how = "completion" OBVIOUS
<1>7. kids = {} => batch = NoBatch BY DEF NoBatch
<1>8. tools.state = "running" /\ tools.gen = ts[t].gen + 1 OBVIOUS
<1> HIDE DEF batch, tools
<1>9. /\ SameTurn(ts[t], r) /\ r.gen = ts[t].gen + 1 /\ r.request = ts[t].request
      /\ r.proc = ts[t].proc /\ r.tools = tools /\ r.token = "live" /\ r.batch = batch
  BY <1>2 DEF ThreadType, SameTurn
<1> HIDE DEF r
<1> QED BY <1>1, <1>3, <1>4, <1>5, <1>6, <1>7, <1>8, <1>9 DEF BatchStarted, us

\* A name that no thread has yet has had no callback.
LEMMA UnopenedSilent ==
  ASSUME NEW ml \in Seq(Call), NEW q, NEW E, NEW ts, Good(ts, ml, q, E),
         NEW c \in Sub, ~ts[c].open
  PROVE  /\ ~ts[c].streaming /\ Silent(ts[c], ml, c) /\ Calls(ts[c], ml, c)
         /\ ts[c].gen = 0 /\ ts[c] \in ThreadType
BY Get DEF Good, Alone, Shape, Thread

LEMMA NewTaskAlone ==
  ASSUME NEW ml \in Seq(Call), NEW q, NEW E, NEW ts, Good(ts, ml, q, E),
         NEW c \in Sub, ~ts[c].open, NEW t \in Top, NEW how, NEW r, NewTask(r, t, how)
  PROVE  Alone(r, ml, c)
<1>1. ~ts[c].streaming /\ Silent(ts[c], ml, c) /\ Calls(ts[c], ml, c) /\ ts[c].gen = 0
      /\ ts[c] \in ThreadType /\ r \in ThreadType
  BY UnopenedSilent DEF NewTask
<1>2. r.gen \in Nat /\ ts[c].gen <= r.gen /\ r.tools.state # "reported" BY <1>1 DEF NewTask
<1>3. Calls(r, ml, c) /\ (Off(r) => Silent(r, ml, c)) BY <1>1, <1>2, SilentCalls DEF Thread
<1>4. Shape(r) BY DEF NewTask, Shape, RequestOff
<1>5. ~r.streaming => Off(r) BY DEF NewTask, Off, RequestOff
<1> QED BY <1>3, <1>4, <1>5 DEF Alone

LEMMA BatchStartedGood ==
  ASSUME NEW ml \in Seq(Call), NEW q \in BOOLEAN, NEW ts, NEW t \in Thread,
         NEW how, NEW kids \in SUBSET Sub, \A c \in kids : ~ts[c].open,
         t \in Sub => kids = {}, AtWork(ts, ml, q, t), ts[t].token = "none", ~ts[t].claude,
         NEW us, BatchStarted(ts, us, t, kids, how)
  PROVE  Good(us, ml, q, {})
<1>1. Good(ts, ml, q, {t}) /\ ts[t].streaming /\ Silent(ts[t], ml, t) BY DEF AtWork
<1>2. ts \in Threads /\ us \in Threads BY <1>1 DEF Good, BatchStarted
<1>3. \A u \in Thread : ts[u] \in ThreadType /\ us[u] \in ThreadType BY <1>2, Get
<1>4. Thread = Top \cup Sub /\ Top \cap Sub = {} BY ThreadAssumption DEF Thread
<1>5. \A c \in kids : ~ts[c].streaming /\ c # t BY <1>1, UnopenedSilent
<1>6. ASSUME NEW u \in Thread, u # t, u \notin kids PROVE us[u] = ts[u]
  BY <1>6 DEF BatchStarted
<1>7. SameTurn(ts[t], us[t]) BY DEF BatchStarted
<1>8. Alone(us[t], ml, t)
  <2>1. Alone(ts[t], ml, t) BY <1>1 DEF Good
  <2>2. us[t].tools.state = "running" /\ us[t].gen = ts[t].gen + 1 BY DEF BatchStarted
  <2>3. ts[t].gen <= us[t].gen BY <1>3, <2>2, TurnFields
  <2>4. Calls(us[t], ml, t) BY <1>1, <1>3, <2>1, <2>2, <2>3, SilentCalls DEF Alone
  <2>5. us[t].request.kind = "off" /\ ~us[t].proc.on BY <1>1 DEF BatchStarted, Silent, Off
  <2>6. Shape(us[t]) BY <1>1, <2>1, <2>5 DEF BatchStarted, Shape, Alone, SameTurn
  <2> QED BY <1>1, <1>7, <2>4, <2>6 DEF Alone, SameTurn
<1>9. ASSUME NEW u \in Thread PROVE Alone(us[u], ml, u)
  <2>1. CASE u = t BY <1>8, <2>1
  <2>2. CASE u \in kids
    <3>1. t \in Top /\ NewTask(us[u], t, how) BY <1>4, <2>2 DEF BatchStarted
    <3> QED BY <1>1, <2>2, <3>1, NewTaskAlone
  <2>3. CASE u # t /\ u \notin kids BY <1>1, <1>6, <2>3 DEF Good
  <2> QED BY <2>1, <2>2, <2>3
<1>10. \A p \in Top : us[p].open /\ us[p].parent = NoThread
  BY <1>1, <1>4, <1>6, <1>7 DEF Good, SameTurn
<1>11. \A u \in Thread : u \notin kids => SameTurn(ts[u], us[u]) BY <1>6, <1>7 DEF SameTurn
<1>12. ASSUME NEW d \in Sub, d \notin kids, us[d].streaming
       PROVE  /\ ts[d].streaming /\ us[d].parent = ts[d].parent /\ ts[d].parent \in Top
              /\ us[d].open = ts[d].open /\ us[d].stop = ts[d].stop
  BY <1>1, <1>4, <1>11, <1>12 DEF Good, Alone, Shape, SubShape, SameTurn
<1>13. ASSUME NEW d \in Sub PROVE SubShape(us[d]) /\ Lives(us, ml, d) /\ Open(us, d, {})
  <2>1. SubShape(ts[d]) /\ Lives(ts, ml, d) /\ Open(ts, d, {t}) BY <1>1 DEF Good
  <2>2. SubShape(us[d])
    <3>1. CASE d = t BY <1>4, <1>7, <2>1, <3>1 DEF BatchStarted, SubShape, SameTurn
    <3>2. CASE d \in kids BY <1>4, <3>2 DEF BatchStarted, SubShape, NewTask
    <3>3. CASE d # t /\ d \notin kids BY <1>4, <1>6, <2>1, <3>3
    <3> QED BY <3>1, <3>2, <3>3
  <2>3. ASSUME us[d].streaming PROVE Lives(us, ml, d)
    <3>1. CASE d \in kids
      <4>1. NewTask(us[d], t, how) BY <3>1 DEF BatchStarted
      <4>2. us[d].parent = t /\ how = "completion" BY <2>3, <4>1 DEF NewTask
      <4>3. us[t].batch[d] = "empty" /\ us[t].token # "cancelled"
        BY <3>1, <4>2 DEF BatchStarted
      <4>4. us[t].streaming BY <1>1, <1>7 DEF SameTurn
      <4> QED BY <4>2, <4>3, <4>4 DEF Lives
    <3>2. CASE d \notin kids
      <4> DEFINE p == ts[d].parent
      <4>1. us[d].parent = p /\ p \in Top /\ ts[d].streaming /\ us[d].stop = ts[d].stop
        BY <1>12, <2>3, <3>2
      <4>2. p # t
        <5>1. ts[t].batch = NoBatch BY <1>1 DEF Good, Alone, Shape
        <5>2. ts[t].batch[d] # "empty" BY <5>1 DEF NoBatch
        <5> QED BY <2>1, <4>1, <5>2 DEF Lives
      <4>3. us[p] = ts[p] BY <1>4, <1>6, <4>1, <4>2
      <4>4. CASE d = t BY <1>4, <2>1, <4>1, <4>3, <4>4 DEF AtWork, Lives
      <4>5. CASE d # t BY <1>4, <1>6, <2>1, <3>2, <4>1, <4>3, <4>5 DEF Lives
      <4> QED BY <4>4, <4>5
    <3> QED BY <3>1, <3>2
  <2>4. ASSUME NEW p \in Top, us[p].batch[d] = "empty" PROVE us[d].parent = p /\ us[d].streaming
    <3>1. CASE p = t BY <2>4, <3>1 DEF BatchStarted, NewTask
    <3>2. CASE p # t
      <4>1. ts[p].batch[d] = "empty" BY <1>4, <1>6, <2>4, <3>2
      <4>2. ts[d].parent = p /\ (d \in {t} \/ ts[d].streaming) BY <2>1, <4>1 DEF Open
      <4>3. d \notin kids BY <1>5, <4>2
      <4> QED BY <1>1, <1>4, <1>11, <4>2, <4>3 DEF SameTurn
    <3> QED BY <3>1, <3>2
  <2> QED BY <2>2, <2>3, <2>4 DEF Lives, Open
<1>14. ASSUME NEW u \in Thread PROVE Settled(us, ml, q, u)
  <2>1. CASE u = t
    BY <1>1, <1>7, <2>1 DEF BatchStarted, Settled, Silent, Off, SameTurn
  <2>2. CASE u \in kids
    BY <2>2 DEF BatchStarted, NewTask, Settled, Silent, Off
  <2>3. CASE u # t /\ u \notin kids
    <3>1. us[u] = ts[u] /\ Settled(ts, ml, q, u) BY <1>1, <1>6, <2>3 DEF Good
    <3>2. HasRunningChild(ts, u) => HasRunningChild(us, u)
      BY <1>4, <1>5, <1>11 DEF HasRunningChild, RunningChildren, Children, SameTurn
    <3>3. ASSUME u \in Sub, us[u].streaming, ts[ts[u].parent].claude PROVE us[us[u].parent].claude
      <4>1. ts[u].parent \in Top BY <1>12, <2>3, <3>3
      <4> QED BY <1>4, <1>11, <3>1, <3>3, <4>1 DEF SameTurn
    <3> QED BY <3>1, <3>2, <3>3 DEF Settled
  <2> QED BY <2>1, <2>2, <2>3
<1> QED BY <1>2, <1>9, <1>10, <1>13, <1>14 DEF Good

LEMMA StartToolBatchGood ==
  ASSUME NEW ml \in Seq(Call), NEW q \in BOOLEAN, NEW ts, NEW t \in Thread,
         NEW how \in {"completion", "nokey"},
         NEW kids \in SUBSET Sub, \A c \in kids : ~ts[c].open,
         t \in Sub => kids = {}, AtWork(ts, ml, q, t), ts[t].token = "none", ~ts[t].claude
  PROVE  Good(StartToolBatch(ts, t, kids, how), ml, q, {})
<1>1. ts \in Threads /\ t \notin kids BY DEF AtWork, Good
<1>2. BatchStarted(ts, StartToolBatch(ts, t, kids, how), t, kids, how)
  BY <1>1, StartToolBatchIs
<1> DEFINE us == StartToolBatch(ts, t, kids, how)
<1> HIDE DEF us
<1>3. BatchStarted(ts, us, t, kids, how) BY <1>2 DEF us
<1>4. Good(us, ml, q, {}) BY <1>3, BatchStartedGood
<1> QED BY <1>4 DEF us

-----------------------------------------------------------------------------
(* Cancelling and closing.                                                 *)

\* What RequestCancel does to one thread.
SignalledTo(r, s) ==
  /\ s.open = r.open /\ s.parent = r.parent /\ s.streaming = r.streaming
  /\ s.failure = r.failure /\ s.claude = r.claude /\ s.queue = r.queue
  /\ s.gen = r.gen /\ s.tools = r.tools /\ s.batch = r.batch
  /\ s.stop = (r.stop \/ r.streaming)
  /\ s.request.kind = r.request.kind /\ s.request.gen = r.request.gen
  /\ s.proc.on = r.proc.on /\ s.proc.gen = r.proc.gen
  /\ s.proc.cancelled => s.proc.on
  /\ s.token = "none" <=> r.token = "none"

LEMMA SignalledIs ==
  ASSUME NEW r \in ThreadType
  PROVE  SignalledTo(r, Signalled(r))
<1> DEFINE stop == r.stop \/ r.streaming
           req  == [r.request EXCEPT !.cancelled = r.request.kind # "off"]
           proc == [r.proc EXCEPT !.cancelled = r.proc.on]
           token == IF r.token = "none" THEN "none" ELSE "cancelled"
           s == [[[[r EXCEPT !.stop = stop] EXCEPT !.request = req] EXCEPT !.proc = proc]
                   EXCEPT !.token = token]
<1>1. Signalled(r) = s BY DEF ThreadType, Signalled
<1>2. r.request \in RequestType /\ r.proc \in ProcType BY Fields
<1>3. req.kind = r.request.kind /\ req.gen = r.request.gen BY <1>2 DEF RequestType
<1>4. /\ proc.on = r.proc.on /\ proc.gen = r.proc.gen /\ proc.cancelled = r.proc.on
  BY <1>2 DEF ProcType
<1>5. token = "none" <=> r.token = "none" OBVIOUS
<1> HIDE DEF stop, req, proc, token
<1>6. /\ s.open = r.open /\ s.parent = r.parent /\ s.streaming = r.streaming
      /\ s.failure = r.failure /\ s.claude = r.claude /\ s.queue = r.queue
      /\ s.gen = r.gen /\ s.tools = r.tools /\ s.batch = r.batch
      /\ s.request = req /\ s.proc = proc /\ s.token = token
  BY DEF ThreadType
<1>7. s.stop = stop BY DEF ThreadType
<1> HIDE DEF s
<1>8. s.stop = (r.stop \/ r.streaming) BY <1>7 DEF stop
<1>9. SignalledTo(r, s) BY <1>3, <1>4, <1>5, <1>6, <1>8 DEF SignalledTo
<1> QED BY <1>1, <1>9

LEMMA SignalledAlone ==
  ASSUME NEW r, NEW s, NEW ml, NEW t, SignalledTo(r, s)
  PROVE  (Alone(r, ml, t) => Alone(s, ml, t)) /\ (Silent(r, ml, t) <=> Silent(s, ml, t))
<1>1. Shape(r) => Shape(s)
  BY DEF Shape, SignalledTo
<1>2. Silent(r, ml, t) <=> Silent(s, ml, t) BY DEF Silent, Off, SignalledTo
<1>3. \A m : Heard(r, m) => Heard(s, m) BY DEF Heard, SignalledTo
<1>4. \A i : Followed(r, ml, i, t) => Followed(s, ml, i, t) BY DEF Followed, SignalledTo
<1>5. Calls(r, ml, t) => Calls(s, ml, t)
  <2>1. s.gen = r.gen /\ s.tools = r.tools BY DEF SignalledTo
  <2> QED BY <1>3, <1>4, <2>1 DEF Calls
<1> QED BY <1>1, <1>2, <1>5 DEF Alone, SignalledTo

\* Signalling any threads keeps the invariant, as long as it reaches the
\* subagents of every batch it cancels.
LEMMA SignalGood ==
  ASSUME NEW ml, NEW q, NEW ts, NEW S, Good(ts, ml, q, {}),
         \A p \in Top \cap S : ts[p].token # "none" => RunningChildren(ts, p) \subseteq S
  PROVE  Good(Signal(ts, S), ml, q, {})
<1> DEFINE us == Signal(ts, S)
<1>1. ts \in Threads /\ us \in Threads BY SignalType DEF Good
<1>2. \A u \in Thread : us[u] = IF u \in S THEN Signalled(ts[u]) ELSE ts[u] BY DEF Signal
<1> HIDE DEF us
<1>3. Thread = Top \cup Sub /\ Top \cap Sub = {} BY ThreadAssumption DEF Thread
<1>4. \A u \in Thread : u \in S => SignalledTo(ts[u], us[u]) BY <1>1, <1>2, Get, SignalledIs
<1>5. ASSUME NEW u \in Thread
      PROVE  /\ Alone(ts[u], ml, u) => Alone(us[u], ml, u)
             /\ Silent(ts[u], ml, u) <=> Silent(us[u], ml, u)
  BY <1>2, <1>4, SignalledAlone
<1>6. ASSUME NEW u \in Thread
      PROVE  /\ us[u].open = ts[u].open /\ us[u].parent = ts[u].parent
             /\ us[u].streaming = ts[u].streaming /\ us[u].failure = ts[u].failure
             /\ us[u].claude = ts[u].claude /\ us[u].queue = ts[u].queue
             /\ us[u].batch = ts[u].batch
             /\ us[u].token = "none" <=> ts[u].token = "none"
             /\ ts[u].stop => us[u].stop
             /\ u \in S /\ ts[u].streaming => us[u].stop
             /\ u \notin S => us[u] = ts[u]
  <2>1. CASE u \in S BY <1>4, <2>1 DEF SignalledTo
  <2>2. CASE u \notin S BY <1>2, <2>2
  <2> QED BY <2>1, <2>2
<1>7. \A u \in Thread : Alone(us[u], ml, u) BY <1>5 DEF Good
<1>8. \A p \in Top : us[p].open /\ us[p].parent = NoThread BY <1>3, <1>6 DEF Good
<1>9. ASSUME NEW c \in Sub PROVE SubShape(us[c]) /\ Lives(us, ml, c) /\ Open(us, c, {})
  <2>1. SubShape(ts[c]) /\ Lives(ts, ml, c) /\ Open(ts, c, {}) BY DEF Good
  <2>2. SubShape(us[c]) BY <1>3, <1>6, <2>1 DEF SubShape
  <2>3. ASSUME us[c].streaming PROVE Lives(us, ml, c)
    <3> DEFINE p == ts[c].parent
    <3>1. ts[c].streaming /\ ts[c].open /\ us[c].parent = p /\ p \in Top
      BY <1>3, <1>6, <2>1, <2>3 DEF Good, Alone, Shape, SubShape
    <3>2. c \in RunningChildren(ts, p) BY <3>1 DEF RunningChildren, Children
    <3>3. us[p].streaming BY <1>3, <1>6, <2>1, <3>1 DEF Lives
    <3>4. ASSUME us[p].token = "cancelled" PROVE us[c].stop
      <4>1. ts[p].token # "none" BY <1>3, <1>6, <3>1, <3>4
      <4>2. CASE p \in S BY <1>3, <1>6, <3>1, <3>2, <4>1, <4>2
      <4>3. CASE p \notin S BY <1>3, <1>6, <2>1, <3>1, <3>4, <4>3 DEF Lives
      <4> QED BY <4>2, <4>3
    <3>5. ts[p].batch[c] = "empty" \/ (ts[p].claude /\ Silent(ts[c], ml, c) /\ ts[c].token = "none")
      BY <2>1, <3>1 DEF Lives
    <3>6. us[p].batch[c] = "empty" \/ (us[p].claude /\ Silent(us[c], ml, c) /\ us[c].token = "none")
      BY <1>3, <1>5, <1>6, <3>1, <3>5
    <3> QED BY <3>1, <3>3, <3>4, <3>6 DEF Lives
  <2>4. Open(us, c, {}) BY <1>3, <1>6, <2>1 DEF Open
  <2> QED BY <2>2, <2>3, <2>4 DEF Lives
<1>10. ASSUME NEW u \in Thread PROVE Settled(us, ml, q, u)
  <2>1. Settled(ts, ml, q, u) BY DEF Good
  <2>2. HasRunningChild(ts, u) => HasRunningChild(us, u)
    BY <1>3, <1>6 DEF HasRunningChild, RunningChildren, Children
  <2>3. ASSUME u \in Sub, us[u].streaming, ts[ts[u].parent].claude PROVE us[us[u].parent].claude
    <3>1. ts[u].parent \in Thread BY <1>3, <1>6, <2>3 DEF Good, Alone, Shape, SubShape
    <3> QED BY <1>6, <2>3, <3>1
  <2> QED BY <1>5, <1>6, <2>1, <2>2, <2>3 DEF Settled
<1>11. Good(us, ml, q, {}) BY <1>1, <1>7, <1>8, <1>9, <1>10 DEF Good
<1> QED BY <1>11 DEF us

\* RequestCancel reaches the whole batch of the thread it signals.
LEMMA RequestCancelGood ==
  ASSUME NEW ml, NEW q, NEW ts, NEW t \in Thread, Good(ts, ml, q, {})
  PROVE  Good(RequestCancel(ts, t), ml, q, {})
<1> DEFINE S == Reached(ts, t)
<1>1. ASSUME NEW p \in Top \cap S, ts[p].token # "none" PROVE RunningChildren(ts, p) \subseteq S
  <2>1. CASE p = Runner(ts, t) BY <1>1, <2>1 DEF Reached
  <2>2. CASE p # Runner(ts, t)
    <3>1. p \in Sub BY <2>2 DEF Reached, RunningChildren, Children
    <3> QED BY <3>1, ThreadAssumption
  <2> QED BY <2>1, <2>2
<1> HIDE DEF S
<1>2. Good(Signal(ts, S), ml, q, {}) BY <1>1, SignalGood
<1> QED BY <1>2 DEF RequestCancel, S

\* Signalling every thread that runs reaches every batch.
LEMMA CancelAllGood ==
  ASSUME NEW ml, NEW q, NEW ts, Good(ts, ml, q, {})
  PROVE  Good(CancelAll(ts), ml, q, {})
<1> DEFINE S == UNION {Reached(ts, t) : t \in {u \in Thread : ts[u].open}}
<1>1. ASSUME NEW p \in Top \cap S, ts[p].token # "none" PROVE RunningChildren(ts, p) \subseteq S
  <2>1. PICK t \in Thread : ts[t].open /\ p \in Reached(ts, t) OBVIOUS
  <2>2. RunningChildren(ts, p) \subseteq Reached(ts, t)
    <3>1. CASE p = Runner(ts, t) BY <1>1, <3>1 DEF Reached
    <3>2. CASE p # Runner(ts, t)
      <4>1. p \in Sub BY <2>1, <3>2 DEF Reached, RunningChildren, Children
      <4> QED BY <4>1, ThreadAssumption
    <3> QED BY <3>1, <3>2
  <2> QED BY <2>1, <2>2
<1> HIDE DEF S
<1>2. Good(Signal(ts, S), ml, q, {}) BY <1>1, SignalGood
<1> QED BY <1>2 DEF CancelAll, S

\* A frame that waits to close asks for less.
LEMMA GoodWhenQuit ==
  ASSUME NEW ml, NEW q, NEW E, NEW ts, Good(ts, ml, q, E)
  PROVE  Good(ts, ml, TRUE, E)
BY DEF Good, Settled

LEMMA CloseGood ==
  ASSUME NEW ml, NEW ts, Good(ts, ml, quit, {}), Close(ts)
  PROVE  Good(thr', ml, quit', {})
<1>1. CASE quit' = TRUE /\ thr' = CancelAll(ts) BY <1>1, CancelAllGood, GoodWhenQuit
<1>2. CASE thr' = ts /\ quit' = quit BY <1>2
<1> QED BY <1>1, <1>2 DEF Close

-----------------------------------------------------------------------------
(* The queue of callbacks.                                                 *)

\* A callback that is let in.
Current(r, t, m) == m.to = t /\ m.gen = r.gen

\* Taking the first callback.
LEMMA TailAt ==
  ASSUME NEW ml \in Seq(Call), ml # <<>>
  PROVE  /\ Tail(ml) \in Seq(Call) /\ 1 \in DOMAIN ml /\ ml[1] = Head(ml)
         /\ \A i \in DOMAIN Tail(ml) : i + 1 \in DOMAIN ml /\ Tail(ml)[i] = ml[i + 1] /\ i \in Nat
         /\ \A j \in DOMAIN ml : j = 1 \/ (j - 1 \in DOMAIN Tail(ml) /\ Tail(ml)[j - 1] = ml[j])
         /\ \A j \in DOMAIN ml : j \in Nat /\ j >= 1
OBVIOUS

\* Posting a callback.
LEMMA AppendAt ==
  ASSUME NEW ml \in Seq(Call), NEW m \in Call
  PROVE  /\ Append(ml, m) \in Seq(Call)
         /\ Len(ml) + 1 \in DOMAIN Append(ml, m) /\ Append(ml, m)[Len(ml) + 1] = m
         /\ \A i \in DOMAIN ml : /\ i \in DOMAIN Append(ml, m) /\ Append(ml, m)[i] = ml[i]
                                 /\ i < Len(ml) + 1
         /\ \A i \in DOMAIN Append(ml, m) : i \in DOMAIN ml \/ i = Len(ml) + 1
OBVIOUS

\* What taking the first callback keeps of a thread that does not wait for it.
LEMMA TailAlone ==
  ASSUME NEW ml \in Seq(Call), ml # <<>>, NEW r, NEW t,
         Alone(r, ml, t),
         ~Current(r, t, Head(ml)) \/ Head(ml).kind # "tools" \/ r.tools.state # "reported"
  PROVE  /\ Alone(r, Tail(ml), t)
         /\ ~Current(r, t, Head(ml)) => (Silent(r, ml, t) <=> Silent(r, Tail(ml), t))
<1> DEFINE tl == Tail(ml)
<1>1. /\ 1 \in DOMAIN ml /\ ml[1] = Head(ml)
      /\ \A i \in DOMAIN tl : i + 1 \in DOMAIN ml /\ tl[i] = ml[i + 1] /\ i \in Nat
      /\ \A j \in DOMAIN ml : j = 1 \/ (j - 1 \in DOMAIN tl /\ tl[j - 1] = ml[j])
      /\ \A j \in DOMAIN ml : j \in Nat /\ j >= 1
  BY TailAt
<1> HIDE DEF tl
<1>2. ASSUME NEW i \in DOMAIN tl, Followed(r, ml, i + 1, t) PROVE Followed(r, tl, i, t)
  <2> SUFFICES ASSUME tl[i].kind \in ClaudeLine, ~r.proc.on
               PROVE  \E j \in DOMAIN tl : j > i /\ tl[j].to = t /\ tl[j].gen = r.gen
                                           /\ tl[j].kind = "claude"
    BY DEF Followed
  <2>1. PICK j \in DOMAIN ml : j > i + 1 /\ ml[j].to = t /\ ml[j].gen = r.gen
                               /\ ml[j].kind = "claude"
    BY <1>1, <1>2 DEF Followed
  <2>2. j - 1 \in DOMAIN tl /\ tl[j - 1] = ml[j] /\ j - 1 > i BY <1>1, <2>1
  <2> QED BY <2>1, <2>2
<1>3. ASSUME NEW i \in DOMAIN tl, tl[i].to = t
      PROVE  tl[i].gen <= r.gen /\ (tl[i].gen = r.gen => Heard(r, tl[i]) /\ Followed(r, tl, i, t))
  BY <1>1, <1>2, <1>3 DEF Alone, Calls
<1>4. \A i, j \in DOMAIN tl :
        /\ tl[i].to = t /\ tl[i].gen = r.gen /\ tl[i].kind \in LastCall
        /\ tl[j].to = t /\ tl[j].gen = r.gen /\ tl[j].kind \in LastCall
        => i = j
  <2> SUFFICES ASSUME NEW i \in DOMAIN tl, NEW j \in DOMAIN tl,
                      tl[i].to = t /\ tl[i].gen = r.gen /\ tl[i].kind \in LastCall,
                      tl[j].to = t /\ tl[j].gen = r.gen /\ tl[j].kind \in LastCall
               PROVE  i = j
    OBVIOUS
  <2>1. i + 1 \in DOMAIN ml /\ j + 1 \in DOMAIN ml /\ tl[i] = ml[i + 1] /\ tl[j] = ml[j + 1]
        /\ i \in Nat /\ j \in Nat
    BY <1>1
  <2>2. i + 1 = j + 1 BY <2>1 DEF Alone, Calls
  <2> QED BY <2>1, <2>2
<1>5. ASSUME r.tools.state = "reported"
      PROVE  \E i \in DOMAIN tl : tl[i].to = t /\ tl[i].gen = r.gen /\ tl[i].kind = "tools"
  <2>1. PICK j \in DOMAIN ml : ml[j].to = t /\ ml[j].gen = r.gen /\ ml[j].kind = "tools"
    BY <1>5 DEF Alone, Calls
  <2>2. j # 1 BY <1>1, <1>5, <2>1 DEF Current
  <2> QED BY <1>1, <2>1, <2>2
<1>6. Calls(r, tl, t) BY <1>3, <1>4, <1>5 DEF Calls
<1>7. Silent(r, ml, t) => Silent(r, tl, t) BY <1>1 DEF Silent
<1>8. ~Current(r, t, Head(ml)) => (Silent(r, tl, t) => Silent(r, ml, t))
  BY <1>1 DEF Silent, Current
<1>9. Alone(r, tl, t) BY <1>6, <1>7 DEF Alone
<1> QED BY <1>7, <1>8, <1>9 DEF tl

\* A callback to another thread.
LEMMA AppendAlone ==
  ASSUME NEW ml \in Seq(Call), NEW m \in Call, NEW r, NEW t, Alone(r, ml, t), m.to # t
  PROVE  Alone(r, Append(ml, m), t) /\ (Silent(r, ml, t) <=> Silent(r, Append(ml, m), t))
<1> DEFINE al == Append(ml, m)
           n == Len(ml) + 1
<1>1. /\ n \in DOMAIN al /\ al[n] = m
      /\ \A i \in DOMAIN ml : i \in DOMAIN al /\ al[i] = ml[i]
      /\ \A i \in DOMAIN al : i \in DOMAIN ml \/ i = n
  BY AppendAt
<1> HIDE DEF al, n
<1>2. \A i \in DOMAIN al : al[i].to = t => i \in DOMAIN ml BY <1>1
<1>3. \A i \in DOMAIN ml : Followed(r, ml, i, t) => Followed(r, al, i, t)
  BY <1>1 DEF Followed
<1>4. Calls(r, al, t) BY <1>1, <1>2, <1>3 DEF Alone, Calls
<1>5. Silent(r, ml, t) <=> Silent(r, al, t) BY <1>1, <1>2 DEF Silent
<1> QED BY <1>4, <1>5 DEF Alone, al

\* The queue of callbacks changes, and with it one thread that waited.
LEMMA MailChange ==
  ASSUME NEW ml, NEW mm, NEW q, NEW ts, Good(ts, ml, q, {}),
         NEW us \in Threads, NEW t \in Thread, \A u \in Thread : u # t => us[u] = ts[u],
         SameTurn(ts[t], us[t]), SameBatch(ts[t], us[t]), ~Silent(ts[t], ml, t),
         \A u \in Thread : u # t => /\ Alone(ts[u], mm, u)
                                    /\ Silent(ts[u], ml, u) <=> Silent(ts[u], mm, u),
         Alone(us[t], mm, t)
  PROVE  Good(us, mm, q, {t})
<1>1. Thread = Top \cup Sub /\ Top \cap Sub = {} BY ThreadAssumption DEF Thread
<1>2. \A u \in Thread : SameTurn(ts[u], us[u]) /\ SameBatch(ts[u], us[u])
  BY DEF SameTurn, SameBatch
<1>3. \A p \in Top : us[p].open /\ us[p].parent = NoThread BY <1>1, <1>2 DEF Good, SameTurn
<1>4. ASSUME NEW c \in Sub PROVE SubShape(us[c]) /\ Lives(us, mm, c) /\ Open(us, c, {t})
  <2>1. SubShape(ts[c]) /\ Lives(ts, ml, c) /\ Open(ts, c, {}) BY DEF Good
  <2>2. SubShape(us[c]) BY <1>1, <1>2, <2>1 DEF SubShape, SameTurn, SameBatch
  <2>3. ASSUME us[c].streaming PROVE Lives(us, mm, c)
    <3> DEFINE p == ts[c].parent
    <3>1. ts[c].streaming /\ us[c].parent = p /\ us[c].stop = ts[c].stop
          /\ us[c].token = ts[c].token
      BY <1>1, <1>2, <2>3 DEF SameTurn, SameBatch
    <3>2. p \in Top BY <1>1, <2>1, <3>1 DEF Good, Alone, Shape, SubShape
    <3>3. us[p].streaming = ts[p].streaming /\ us[p].token = ts[p].token
          /\ us[p].batch = ts[p].batch /\ us[p].claude = ts[p].claude
      BY <1>1, <1>2, <3>2 DEF SameTurn, SameBatch
    <3>4. Silent(ts[c], ml, c) => Silent(us[c], mm, c) BY <1>1
    <3> QED BY <2>1, <3>1, <3>3, <3>4 DEF Lives
  <2>4. Open(us, c, {t}) BY <1>1, <1>2, <2>1 DEF Open, SameTurn, SameBatch
  <2> QED BY <2>2, <2>3, <2>4 DEF Lives
<1>5. ASSUME NEW u \in Thread \ {t} PROVE Settled(us, mm, q, u)
  <2>1. Settled(ts, ml, q, u) /\ us[u] = ts[u] BY DEF Good
  <2>2. HasRunningChild(ts, u) => HasRunningChild(us, u)
    BY <1>1, <1>2 DEF HasRunningChild, RunningChildren, Children, SameTurn
  <2>3. ASSUME u \in Sub, us[u].streaming, ts[ts[u].parent].claude PROVE us[us[u].parent].claude
    <3>1. ts[u].parent \in Thread BY <1>1, <2>1, <2>3 DEF Good, Alone, Shape, SubShape
    <3> QED BY <1>2, <2>1, <2>3, <3>1 DEF SameTurn
  <2> QED BY <2>1, <2>2, <2>3 DEF Settled
<1> QED BY <1>3, <1>4, <1>5 DEF Good

\* A callback that Find(id, gen) refuses changes nothing.
LEMMA DropGood ==
  ASSUME NEW ml \in Seq(Call), ml # <<>>, NEW q, NEW ts, Good(ts, ml, q, {}), ~Found(ts, Head(ml))
  PROVE  Good(ts, Tail(ml), q, {})
<1>1. ASSUME NEW u \in Thread PROVE ~Current(ts[u], u, Head(ml))
  <2> SUFFICES ASSUME Current(ts[u], u, Head(ml)) PROVE FALSE OBVIOUS
  <2>1. ~ts[u].open BY DEF Found, Current
  <2>2. Alone(ts[u], ml, u) BY DEF Good
  <2>3. Silent(ts[u], ml, u) BY <2>1, <2>2 DEF Alone, Shape
  <2> QED BY <2>3, TailAt DEF Silent, Current
<1>2. \A u \in Thread : /\ Alone(ts[u], Tail(ml), u)
                        /\ Silent(ts[u], ml, u) <=> Silent(ts[u], Tail(ml), u)
  BY <1>1, TailAlone DEF Good
<1>3. \A c \in Sub : Lives(ts, ml, c) => Lives(ts, Tail(ml), c) BY <1>2 DEF Lives, Thread
<1>4. \A u \in Thread : Settled(ts, ml, q, u) => Settled(ts, Tail(ml), q, u) BY <1>2 DEF Settled
<1> QED BY <1>2, <1>3, <1>4 DEF Good

\* Taking a callback that is let in, and what it leaves of the thread.
LEMMA TakeChange ==
  ASSUME NEW ml \in Seq(Call), ml # <<>>, NEW q, NEW ts, Good(ts, ml, q, {}),
         NEW t \in Thread, Current(ts[t], t, Head(ml)),
         NEW us \in Threads, \A u \in Thread : u # t => us[u] = ts[u],
         SameTurn(ts[t], us[t]), SameBatch(ts[t], us[t]), Alone(us[t], Tail(ml), t)
  PROVE  Good(us, Tail(ml), q, {t})
<1>1. ~Silent(ts[t], ml, t) BY TailAt DEF Silent, Current
<1>2. ASSUME NEW u \in Thread, u # t
      PROVE  /\ Alone(ts[u], Tail(ml), u)
             /\ Silent(ts[u], ml, u) <=> Silent(ts[u], Tail(ml), u)
  <2>1. Alone(ts[u], ml, u) BY DEF Good
  <2>2. ~Current(ts[u], u, Head(ml)) BY <1>2 DEF Current
  <2> QED BY <2>1, <2>2, TailAlone
<1> QED BY <1>1, <1>2, MailChange

\* Whoever hears from a thread's last worker finds no other: the thread goes on.
LEMMA TakeLast ==
  ASSUME NEW ml \in Seq(Call), ml # <<>>, NEW q, NEW ts, Good(ts, ml, q, {}),
         NEW t \in Thread, Current(ts[t], t, Head(ml)),
         Head(ml).kind \in {"completion", "summary", "claude"}
  PROVE  /\ AtWork(ts, Tail(ml), q, t) /\ ts[t].token = "none"
         /\ Head(ml).kind = "claude" <=> ts[t].claude
         /\ ts[t].claude => t \in Top
         /\ Head(ml).out = "cancelled" => ts[t].stop
<1> DEFINE r == ts[t]
           m == Head(ml)
<1>1. /\ Tail(ml) \in Seq(Call) /\ 1 \in DOMAIN ml /\ ml[1] = m
      /\ \A i \in DOMAIN Tail(ml) : i + 1 \in DOMAIN ml /\ Tail(ml)[i] = ml[i + 1] /\ i \in Nat
      /\ \A j \in DOMAIN ml : j \in Nat /\ j >= 1
  BY TailAt
<1>2. ts \in Threads /\ Alone(r, ml, t) BY DEF Good
<1>3. Heard(r, m) BY <1>1, <1>2 DEF Alone, Calls, Current
<1>4. ~Silent(r, ml, t) BY <1>1 DEF Silent, Current
<1>5. r.streaming /\ r.open BY <1>2, <1>4 DEF Alone, Shape
<1>6. m.kind = "claude" <=> r.claude BY <1>3 DEF Heard
<1>7. r.token = "none" BY <1>2, <1>3 DEF Heard, Alone, Shape
<1>8. Off(r) BY <1>2, <1>3, <1>6, <1>7 DEF Heard, Alone, Shape, Off
<1>9. ASSUME NEW i \in DOMAIN Tail(ml), Tail(ml)[i].to = t, Tail(ml)[i].gen = r.gen PROVE FALSE
  <2> DEFINE j == i + 1
  <2>1. j \in DOMAIN ml /\ ml[j] = Tail(ml)[i] /\ j > 1 /\ j \in Nat
    <3>1. j \in DOMAIN ml /\ ml[j] = Tail(ml)[i] /\ i \in Nat /\ i + 1 >= 1 BY <1>1
    <3>2. i >= 1 OBVIOUS
    <3> QED BY <3>1, <3>2
  <2> HIDE DEF j
  <2>2. m.kind \in LastCall BY DEF LastCall
  <2>3. ASSUME NEW k \in DOMAIN ml, ml[k].to = t, ml[k].gen = r.gen, ml[k].kind \in LastCall
        PROVE  k = 1
    BY <1>1, <1>2, <2>2, <2>3 DEF Alone, Calls, Current
  <2>4. ml[j].kind \in ClaudeLine
    <3>1. ml[j].kind \in LastCall \cup ClaudeLine BY <2>1, CallAt DEF Call
    <3>2. ml[j].kind \notin LastCall BY <1>9, <2>1, <2>3
    <3> QED BY <3>1, <3>2
  <2>5. Heard(r, ml[j]) /\ Followed(r, ml, j, t) BY <1>2, <1>9, <2>1 DEF Alone, Calls
  <2>6. \E k \in DOMAIN ml : k > j /\ ml[k].to = t /\ ml[k].gen = r.gen /\ ml[k].kind = "claude"
    BY <1>8, <2>4, <2>5 DEF Followed, Off
  <2>7. PICK k \in DOMAIN ml : k > j /\ ml[k].to = t /\ ml[k].gen = r.gen /\ ml[k].kind \in LastCall
    BY <2>6 DEF LastCall
  <2>8. k = 1 BY <2>3, <2>7
  <2> QED BY <2>1, <2>7, <2>8
<1>10. Silent(r, Tail(ml), t) BY <1>8, <1>9 DEF Silent
<1>11. Alone(r, Tail(ml), t) BY <1>2, <1>8, TailAlone DEF Off
<1>12. Good(ts, Tail(ml), q, {t}) BY <1>2, <1>11, TakeChange DEF SameTurn, SameBatch
<1>13. ASSUME t \in Sub PROVE r.parent \in Top /\ ts[r.parent].batch[t] = "empty" /\ ~r.claude
  <2>1. SubShape(r) /\ Lives(ts, ml, t) BY <1>13 DEF Good
  <2> QED BY <1>4, <1>5, <2>1 DEF SubShape, Lives
<1>14. AtWork(ts, Tail(ml), q, t) BY <1>5, <1>10, <1>12, <1>13 DEF AtWork
<1> QED BY <1>3, <1>6, <1>7, <1>13, <1>14 DEF Heard, Thread

\* The tool worker's last callback.
LEMMA TakeTools ==
  ASSUME NEW ml \in Seq(Call), ml # <<>>, NEW q, NEW ts, Good(ts, ml, q, {}),
         NEW t \in Thread, Current(ts[t], t, Head(ml)), Head(ml).kind = "tools",
         NEW us, us = [ts EXCEPT ![t].tools = ToolsOff]
  PROVE  AtWork(us, Tail(ml), q, t) /\ us[t].token # "none"
<1> DEFINE r == ts[t]
           m == Head(ml)
           s == [ts[t] EXCEPT !.tools = ToolsOff]
<1>1. /\ Tail(ml) \in Seq(Call) /\ 1 \in DOMAIN ml /\ ml[1] = m
      /\ \A i \in DOMAIN Tail(ml) : i + 1 \in DOMAIN ml /\ Tail(ml)[i] = ml[i + 1] /\ i \in Nat
  BY TailAt
<1>2. ts \in Threads /\ Alone(r, ml, t) /\ r \in ThreadType BY Get DEF Good
<1>3. r.tools.state = "reported" BY <1>1, <1>2 DEF Alone, Calls, Current, Heard
<1>4. ~Silent(r, ml, t) BY <1>3 DEF Silent, Off
<1>5. r.token # "none" /\ r.streaming /\ ~r.claude /\ r.open /\ r.request.kind = "off" /\ ~r.proc.on
  BY <1>2, <1>3 DEF Alone, Shape
<1>6. /\ SameTurn(r, s) /\ SameBatch(r, s) /\ s.gen = r.gen /\ s.request = r.request
      /\ s.proc = r.proc /\ s.tools = ToolsOff
  BY <1>2 DEF ThreadType, SameTurn, SameBatch
<1>7. us = [ts EXCEPT ![t] = s] /\ s \in ThreadType BY <1>2, OffTypes, Setters
<1> HIDE DEF s
<1>8. us \in Threads /\ us[t] = s /\ \A u \in Thread : u # t => us[u] = ts[u]
  BY <1>2, <1>7, Put DEF Threads
<1>9. Off(s) BY <1>5, <1>6 DEF Off, ToolsOff
<1>10. ASSUME NEW i \in DOMAIN Tail(ml), Tail(ml)[i].to = t PROVE Tail(ml)[i].gen # r.gen
  <2> SUFFICES ASSUME Tail(ml)[i].gen = r.gen PROVE FALSE OBVIOUS
  <2> DEFINE j == i + 1
  <2>1. j \in DOMAIN ml /\ ml[j] = Tail(ml)[i] /\ j # 1
    <3>1. j \in DOMAIN ml /\ ml[j] = Tail(ml)[i] /\ i \in Nat BY <1>1
    <3>2. i >= 1 OBVIOUS
    <3> QED BY <3>1, <3>2
  <2> HIDE DEF j
  <2>2. m.kind \in LastCall BY DEF LastCall
  <2>3. ml[j].kind \notin LastCall
    BY <1>1, <1>2, <1>10, <2>1, <2>2 DEF Alone, Calls, Current
  <2>4. ml[j].kind \in LastCall \cup ClaudeLine BY <2>1, CallAt DEF Call
  <2>5. Heard(r, ml[j]) BY <1>2, <1>10, <2>1 DEF Alone, Calls
  <2> QED BY <1>5, <2>3, <2>4, <2>5 DEF Heard
<1>11. Silent(s, Tail(ml), t) BY <1>6, <1>9, <1>10 DEF Silent
<1>12. Shape(s) BY <1>2, <1>6, <1>9 DEF Alone, Shape, Off, SameTurn, SameBatch
<1>13. Calls(s, Tail(ml), t)
  <2>1. \A i \in DOMAIN Tail(ml) : Tail(ml)[i].to = t => Tail(ml)[i].gen <= s.gen
    BY <1>1, <1>2, <1>6 DEF Alone, Calls
  <2> QED BY <1>9, <1>11, <2>1 DEF Calls, Silent, Off
<1>14. Alone(us[t], Tail(ml), t) BY <1>8, <1>11, <1>12, <1>13 DEF Alone
<1>15. Good(us, Tail(ml), q, {t}) BY <1>6, <1>8, <1>14, TakeChange
<1>16. ASSUME t \in Sub PROVE r.parent \in Top /\ ts[r.parent].batch[t] = "empty"
  <2>1. SubShape(r) /\ Lives(ts, ml, t) BY <1>16 DEF Good
  <2> QED BY <1>4, <1>5, <2>1 DEF SubShape, Lives
<1>17. t \in Sub => us[t].parent \in Top /\ us[us[t].parent].batch[t] = "empty"
  BY <1>6, <1>8, <1>16, ThreadAssumption DEF SameTurn, Thread
<1> QED BY <1>5, <1>6, <1>8, <1>11, <1>15, <1>17 DEF AtWork, SameTurn, SameBatch

\* A line of Claude's output.
LEMMA TakeLine ==
  ASSUME NEW ml \in Seq(Call), ml # <<>>, NEW q, NEW ts, Good(ts, ml, q, {}),
         NEW t \in Thread, Current(ts[t], t, Head(ml)), Head(ml).kind \in ClaudeLine
  PROVE  /\ Good(ts, Tail(ml), q, {}) /\ ts[t].streaming /\ ts[t].claude /\ t \in Top
         /\ ts[t].token = "none" /\ ts[t].batch = NoBatch
<1> DEFINE r == ts[t]
           m == Head(ml)
<1>1. /\ 1 \in DOMAIN ml /\ ml[1] = m
      /\ \A j \in DOMAIN ml : j = 1 \/ (j - 1 \in DOMAIN Tail(ml) /\ Tail(ml)[j - 1] = ml[j])
  BY TailAt
<1>2. ts \in Threads /\ Alone(r, ml, t) BY DEF Good
<1>3. Heard(r, m) /\ Followed(r, ml, 1, t) BY <1>1, <1>2 DEF Alone, Calls, Current
<1>4. r.streaming /\ r.claude /\ r.token = "none" /\ r.batch = NoBatch
  BY <1>2, <1>3 DEF Heard, Alone, Shape
<1>5. t \in Top BY <1>4 DEF Good, SubShape, Thread
<1>6. Alone(r, Tail(ml), t)
  <2>1. m.kind # "tools" BY DEF ClaudeLine
  <2> QED BY <1>2, <2>1, TailAlone
<1>7. Good(ts, Tail(ml), q, {t}) BY <1>2, <1>6, TakeChange DEF SameTurn, SameBatch
<1>8. ~Silent(r, Tail(ml), t)
  <2>1. CASE r.proc.on BY <2>1 DEF Silent, Off
  <2>2. CASE ~r.proc.on
    <3>1. PICK j \in DOMAIN ml : j > 1 /\ ml[j].to = t /\ ml[j].gen = r.gen
      BY <1>1, <1>3, <2>2 DEF Followed
    <3>2. j # 1 BY <3>1
    <3>3. j - 1 \in DOMAIN Tail(ml) /\ Tail(ml)[j - 1] = ml[j] BY <1>1, <3>2
    <3> DEFINE k == j - 1
    <3> HIDE DEF k
    <3>4. k \in DOMAIN Tail(ml) /\ Tail(ml)[k].to = t /\ Tail(ml)[k].gen = r.gen
      BY <3>1, <3>3 DEF k
    <3> QED BY <3>4 DEF Silent
  <2> QED BY <2>1, <2>2
<1>9. Settled(ts, Tail(ml), q, t) BY <1>4, <1>8 DEF Settled
<1>10. Good(ts, Tail(ml), q, {}) BY <1>4, <1>7, <1>9, Settle
<1> QED BY <1>4, <1>5, <1>10

\* A worker posts to its own thread, and may be over.
LEMMA PostAlone ==
  ASSUME NEW ml \in Seq(Call), NEW m \in Call, NEW r, NEW s, NEW t,
         Alone(r, ml, t), Current(r, t, m), s.gen = r.gen, r.gen \in Nat, Shape(s), s.streaming,
         \A i \in DOMAIN ml : Current(r, t, ml[i]) =>
           Heard(s, ml[i]) /\ (ml[i].kind \in LastCall => m.kind \notin LastCall),
         Heard(s, m), m.kind \in ClaudeLine => s.proc.on,
         r.proc.on => s.proc.on \/ m.kind = "claude",
         s.tools.state = "reported" => r.tools.state = "reported" \/ m.kind = "tools"
  PROVE  Alone(s, Append(ml, m), t)
<1> DEFINE al == Append(ml, m)
           n == Len(ml) + 1
<1>1. /\ n \in DOMAIN al /\ al[n] = m
      /\ \A i \in DOMAIN ml : i \in DOMAIN al /\ al[i] = ml[i] /\ i < n
      /\ \A i \in DOMAIN al : i \in DOMAIN ml \/ i = n
  BY AppendAt
<1> HIDE DEF al, n
<1>2. m.to = t /\ m.gen = s.gen /\ m.gen <= s.gen BY DEF Current
<1>3. ASSUME NEW i \in DOMAIN ml, ml[i].to = t, ml[i].gen = r.gen, Followed(r, ml, i, t)
      PROVE  Followed(s, al, i, t)
  <2> SUFFICES ASSUME ml[i].kind \in ClaudeLine, ~s.proc.on
               PROVE  \E j \in DOMAIN al : j > i /\ al[j].to = t /\ al[j].gen = s.gen
                                           /\ al[j].kind = "claude"
    BY <1>1 DEF Followed
  <2>1. CASE r.proc.on
    <3>1. m.kind = "claude" /\ n > i BY <1>1, <2>1
    <3> QED BY <1>1, <1>2, <3>1
  <2>2. CASE ~r.proc.on
    <3>1. PICK j \in DOMAIN ml : j > i /\ ml[j].to = t /\ ml[j].gen = r.gen /\ ml[j].kind = "claude"
      BY <1>3, <2>2 DEF Followed
    <3> QED BY <1>1, <3>1
  <2> QED BY <2>1, <2>2
<1>4. ASSUME NEW i \in DOMAIN al, al[i].to = t
      PROVE  al[i].gen <= s.gen /\ (al[i].gen = s.gen => Heard(s, al[i]) /\ Followed(s, al, i, t))
  <2>1. CASE i = n BY <1>1, <1>2, <2>1 DEF Followed
  <2>2. CASE i \in DOMAIN ml
    <3>1. ml[i].gen <= r.gen /\ (ml[i].gen = r.gen => Followed(r, ml, i, t))
      BY <1>1, <1>4, <2>2 DEF Alone, Calls
    <3> QED BY <1>1, <1>3, <1>4, <2>2, <3>1 DEF Current
  <2> QED BY <1>1, <2>1, <2>2
<1>5. ASSUME NEW i \in DOMAIN al, NEW j \in DOMAIN al,
             al[i].to = t /\ al[i].gen = s.gen /\ al[i].kind \in LastCall,
             al[j].to = t /\ al[j].gen = s.gen /\ al[j].kind \in LastCall
      PROVE  i = j
  <2>1. CASE i \in DOMAIN ml /\ j \in DOMAIN ml BY <1>1, <1>5, <2>1 DEF Alone, Calls
  <2>2. CASE i = n /\ j \in DOMAIN ml BY <1>1, <1>5, <2>2 DEF Current
  <2>3. CASE i \in DOMAIN ml /\ j = n BY <1>1, <1>5, <2>3 DEF Current
  <2> QED BY <1>1, <2>1, <2>2, <2>3
<1>6. ASSUME s.tools.state = "reported"
      PROVE  \E i \in DOMAIN al : al[i].to = t /\ al[i].gen = s.gen /\ al[i].kind = "tools"
  <2>1. CASE m.kind = "tools" BY <1>1, <1>2, <2>1
  <2>2. CASE r.tools.state = "reported"
    <3>1. PICK i \in DOMAIN ml : ml[i].to = t /\ ml[i].gen = r.gen /\ ml[i].kind = "tools"
      BY <2>2 DEF Alone, Calls
    <3> QED BY <1>1, <3>1
  <2> QED BY <1>6, <2>1, <2>2
<1>7. Calls(s, al, t) BY <1>4, <1>5, <1>6 DEF Calls
<1> QED BY <1>7 DEF Alone, al

LEMMA PostGood ==
  ASSUME NEW ml \in Seq(Call), NEW m \in Call, NEW q, NEW ts, Good(ts, ml, q, {}),
         NEW t \in Thread, Current(ts[t], t, m), ~Silent(ts[t], ml, t),
         NEW us \in Threads, \A u \in Thread : u # t => us[u] = ts[u],
         SameTurn(ts[t], us[t]), SameBatch(ts[t], us[t]), us[t].gen = ts[t].gen,
         us[t].streaming, Alone(us[t], Append(ml, m), t)
  PROVE  Good(us, Append(ml, m), q, {})
<1>1. \A u \in Thread : u # t => /\ Alone(ts[u], Append(ml, m), u)
                                 /\ Silent(ts[u], ml, u) <=> Silent(ts[u], Append(ml, m), u)
  BY AppendAlone DEF Good, Current
<1>2. Good(us, Append(ml, m), q, {t}) BY <1>1, MailChange
<1>3. ~Silent(us[t], Append(ml, m), t) BY AppendAt DEF Silent, Current
<1>4. Settled(us, Append(ml, m), q, t) BY <1>3 DEF Settled
<1> QED BY <1>2, <1>4, Settle

\* curl returns.
LEMMA RequestEndsGood ==
  ASSUME NEW ml \in Seq(Call), NEW q, NEW ts, Good(ts, ml, q, {}), NEW t \in Thread,
         ts[t].request.kind # "off", NEW m \in Call,
         m.to = t, m.gen = ts[t].request.gen, m.kind = ts[t].request.kind,
         m.out = "cancelled" => ts[t].request.cancelled,
         NEW us, us = [ts EXCEPT ![t] = [ts[t] EXCEPT !.request = RequestOff]]
  PROVE  Good(us, Append(ml, m), q, {})
<1> DEFINE r == ts[t]
           s == [ts[t] EXCEPT !.request = RequestOff]
<1>1. ts \in Threads /\ Alone(r, ml, t) /\ r \in ThreadType BY Get DEF Good
<1>2. /\ r.request.gen = r.gen /\ r.streaming /\ ~r.claude /\ r.token = "none"
      /\ r.tools.state = "off" /\ ~r.proc.on
  BY <1>1 DEF Alone, Shape
<1>3. m.kind \in {"completion", "summary"} BY <1>1, Fields DEF RequestType
<1>4. /\ SameTurn(r, s) /\ SameBatch(r, s) /\ s.gen = r.gen /\ s.tools = r.tools
      /\ s.proc = r.proc /\ s.request = RequestOff
  BY <1>1 DEF ThreadType, SameTurn, SameBatch
<1>5. s \in ThreadType BY <1>1, OffTypes, Setters
<1> HIDE DEF s
<1>6. us \in Threads /\ us[t] = s /\ \A u \in Thread : u # t => us[u] = ts[u]
  BY <1>1, <1>5, Put DEF Threads, s
<1>7. ASSUME NEW i \in DOMAIN ml, Current(r, t, ml[i]) PROVE FALSE
  <2>1. Heard(r, ml[i]) BY <1>1, <1>7 DEF Alone, Calls, Current
  <2>2. ml[i].kind \in LastCall \cup ClaudeLine BY CallAt DEF Call
  <2> QED BY <1>2, <2>1, <2>2 DEF Heard, LastCall
<1>8. Shape(s) BY <1>1, <1>2, <1>4 DEF Alone, Shape, RequestOff, SameTurn, SameBatch
<1>9. m.out = "cancelled" => s.stop BY <1>1, <1>4 DEF Alone, Shape, SameTurn
<1>10. Heard(s, m)
  BY <1>2, <1>3, <1>4, <1>9 DEF Heard, RequestOff, SameTurn, SameBatch, ClaudeLine
<1>11. m.kind \notin ClaudeLine /\ s.streaming /\ r.gen \in Nat
  BY <1>1, <1>2, <1>3, <1>4, Fields DEF ClaudeLine, SameTurn
<1>12. Current(r, t, m) BY <1>2 DEF Current
<1>13. Alone(s, Append(ml, m), t)
  BY <1>1, <1>2, <1>4, <1>7, <1>8, <1>10, <1>11, <1>12, PostAlone
<1>14. ~Silent(r, ml, t) BY DEF Silent, Off
<1>15. /\ SameTurn(r, us[t]) /\ SameBatch(r, us[t]) /\ us[t].gen = r.gen
       /\ us[t].streaming /\ Alone(us[t], Append(ml, m), t)
  BY <1>4, <1>6, <1>11, <1>13
<1>16. ASSUME NEW vs, vs = us PROVE Good(vs, Append(ml, m), q, {})
  <2>1. /\ SameTurn(r, vs[t]) /\ SameBatch(r, vs[t]) /\ vs[t].gen = r.gen /\ vs \in Threads
        /\ vs[t].streaming /\ Alone(vs[t], Append(ml, m), t)
        /\ \A u \in Thread : u # t => vs[u] = ts[u]
    BY <1>6, <1>15, <1>16
  <2> QED BY <1>12, <1>14, <2>1, PostGood
<1> QED BY <1>16

\* The tool worker is done.
LEMMA ToolsEndGood ==
  ASSUME NEW ml \in Seq(Call), NEW q, NEW ts, Good(ts, ml, q, {}), NEW t \in Thread,
         ts[t].tools.state = "running", NEW m \in Call,
         m.to = t, m.gen = ts[t].tools.gen, m.kind = "tools", m.out # "cancelled",
         NEW us, us = [ts EXCEPT ![t].tools.state = "reported"]
  PROVE  Good(us, Append(ml, m), q, {})
<1> DEFINE r == ts[t]
           tools == [ts[t].tools EXCEPT !.state = "reported"]
           s == [ts[t] EXCEPT !.tools = tools]
<1>1. ts \in Threads /\ Alone(r, ml, t) /\ r \in ThreadType BY Get DEF Good
<1>2. /\ r.tools.gen = r.gen /\ r.streaming /\ ~r.claude /\ r.token # "none"
      /\ r.request.kind = "off" /\ ~r.proc.on
  BY <1>1 DEF Alone, Shape
<1>3. us = [ts EXCEPT ![t] = s] OBVIOUS
<1>4. tools \in ToolsType /\ tools.state = "reported" /\ tools.gen = r.gen
  BY <1>1, <1>2, Fields DEF ToolsType
<1> HIDE DEF tools
<1>5. /\ SameTurn(r, s) /\ SameBatch(r, s) /\ s.gen = r.gen /\ s.tools = tools
      /\ s.proc = r.proc /\ s.request = r.request
  BY <1>1 DEF ThreadType, SameTurn, SameBatch
<1>6. s \in ThreadType BY <1>1, <1>4, Setters
<1> HIDE DEF s
<1>7. us \in Threads /\ us[t] = s /\ \A u \in Thread : u # t => us[u] = ts[u]
  BY <1>1, <1>3, <1>6, Put DEF Threads
<1>8. ASSUME NEW i \in DOMAIN ml, Current(r, t, ml[i]) PROVE FALSE
  <2>1. Heard(r, ml[i]) BY <1>1, <1>8 DEF Alone, Calls, Current
  <2>2. ml[i].kind \in LastCall \cup ClaudeLine BY CallAt DEF Call
  <2> QED BY <1>2, <2>1, <2>2 DEF Heard, LastCall
<1>9. Shape(s) BY <1>1, <1>2, <1>4, <1>5 DEF Alone, Shape, SameTurn, SameBatch
<1>10. Heard(s, m) /\ m.kind \notin ClaudeLine BY <1>4, <1>5 DEF Heard, ClaudeLine
<1>11. s.streaming /\ r.gen \in Nat BY <1>1, <1>2, <1>5, Fields DEF SameTurn
<1>12. Current(r, t, m) BY <1>2 DEF Current
<1>13. Alone(s, Append(ml, m), t)
  BY <1>1, <1>2, <1>5, <1>8, <1>9, <1>10, <1>11, <1>12, PostAlone
<1>14. ~Silent(r, ml, t) BY DEF Silent, Off
<1>15. /\ SameTurn(r, us[t]) /\ SameBatch(r, us[t]) /\ us[t].gen = r.gen
       /\ us[t].streaming /\ Alone(us[t], Append(ml, m), t)
  BY <1>5, <1>7, <1>11, <1>13
<1>16. ASSUME NEW vs, vs = us PROVE Good(vs, Append(ml, m), q, {})
  <2>1. /\ SameTurn(r, vs[t]) /\ SameBatch(r, vs[t]) /\ vs[t].gen = r.gen /\ vs \in Threads
        /\ vs[t].streaming /\ Alone(vs[t], Append(ml, m), t)
        /\ \A u \in Thread : u # t => vs[u] = ts[u]
    BY <1>7, <1>15, <1>16
  <2> QED BY <1>12, <1>14, <2>1, PostGood
<1> QED BY <1>16

\* A line of output, and the end of a Claude run.
LEMMA ClaudePostGood ==
  ASSUME NEW ml \in Seq(Call), NEW q, NEW ts, Good(ts, ml, q, {}), NEW t \in Thread,
         ts[t].proc.on, NEW m \in Call, m.to = t, m.gen = ts[t].proc.gen,
         m.out = "cancelled" => ts[t].proc.cancelled, NEW us,
         \/ us = ts /\ m.kind \in ClaudeLine
         \/ us = [ts EXCEPT ![t] = [ts[t] EXCEPT !.proc = ProcOff]] /\ m.kind = "claude"
  PROVE  Good(us, Append(ml, m), q, {})
<1> DEFINE r == ts[t]
           s == us[t]
<1>1. ts \in Threads /\ Alone(r, ml, t) /\ r \in ThreadType BY Get DEF Good
<1>2. /\ r.proc.gen = r.gen /\ r.streaming /\ r.claude /\ r.token = "none"
      /\ r.request.kind = "off" /\ r.tools.state = "off"
  BY <1>1 DEF Alone, Shape
<1>3. /\ us \in Threads /\ \A u \in Thread : u # t => us[u] = ts[u]
      /\ SameTurn(r, s) /\ SameBatch(r, s) /\ s.gen = r.gen /\ s.tools = r.tools
      /\ s.request = r.request
      /\ \/ m.kind \in ClaudeLine /\ s = r
         \/ m.kind = "claude" /\ s.proc = ProcOff
  <2>1. CASE us = ts /\ m.kind \in ClaudeLine BY <1>1, <2>1 DEF SameTurn, SameBatch
  <2>2. CASE us # ts \/ m.kind \notin ClaudeLine
    <3> DEFINE p == [ts[t] EXCEPT !.proc = ProcOff]
    <3>1. us = [ts EXCEPT ![t] = p] /\ m.kind = "claude" BY <2>2
    <3>2. /\ SameTurn(r, p) /\ SameBatch(r, p) /\ p.gen = r.gen /\ p.tools = r.tools
          /\ p.request = r.request /\ p.proc = ProcOff
      BY <1>1 DEF ThreadType, SameTurn, SameBatch
    <3>3. p \in ThreadType BY <1>1, OffTypes, Setters
    <3> HIDE DEF p
    <3>4. us \in Threads /\ us[t] = p /\ \A u \in Thread : u # t => us[u] = ts[u]
      BY <1>1, <3>1, <3>3, Put DEF Threads
    <3> QED BY <3>1, <3>2, <3>4
  <2> QED BY <2>1, <2>2
<1>4. s.streaming /\ s.claude /\ s.token = "none" /\ s.open = r.open /\ s.stop = r.stop
  BY <1>2, <1>3 DEF SameTurn, SameBatch
<1>5. ASSUME NEW i \in DOMAIN ml, Current(r, t, ml[i])
      PROVE  Heard(s, ml[i]) /\ ml[i].kind \notin LastCall
  <2>1. Heard(r, ml[i]) BY <1>1, <1>5 DEF Alone, Calls, Current
  <2>2. ml[i].kind \notin LastCall BY <1>2, <2>1 DEF Heard, LastCall
  <2>3. ml[i].kind \in ClaudeLine BY <2>2, CallAt DEF Call
  <2>4. ml[i].out = "cancelled" => s.stop BY <1>4, <2>1 DEF Heard
  <2> QED BY <1>4, <2>2, <2>3, <2>4 DEF Heard, ClaudeLine
<1>6. Shape(s)
  <2>1. CASE s = r BY <1>1, <2>1 DEF Alone
  <2>2. CASE s.proc = ProcOff
    BY <1>1, <1>2, <1>3, <1>4, <2>2 DEF Alone, Shape, ProcOff, SameTurn, SameBatch
  <2> QED BY <1>3, <2>1, <2>2
<1>7. m.out = "cancelled" => s.stop BY <1>1, <1>4 DEF Alone, Shape
<1>8. Heard(s, m) BY <1>3, <1>4, <1>7 DEF Heard, ProcOff, ClaudeLine
<1>9. (m.kind \in ClaudeLine => s.proc.on) /\ (s.proc.on \/ m.kind = "claude")
  BY <1>3 DEF ClaudeLine
<1>10. Current(r, t, m) /\ r.gen \in Nat BY <1>1, <1>2, Fields DEF Current
<1>11. Alone(s, Append(ml, m), t)
  BY <1>1, <1>2, <1>3, <1>4, <1>5, <1>6, <1>8, <1>9, <1>10, PostAlone
<1>12. ~Silent(r, ml, t) BY DEF Silent, Off
<1> QED BY <1>3, <1>4, <1>10, <1>11, <1>12, PostGood

-----------------------------------------------------------------------------
(* The changes the user and Claude Code make.                              *)

\* What holds of every thread holds of all but one.
LEMMA Weaken ==
  ASSUME NEW ml, NEW q, NEW ts, Good(ts, ml, q, {}), NEW t
  PROVE  Good(ts, ml, q, {t})
<1>1. \A c \in Sub : Open(ts, c, {t}) BY DEF Good, Open
<1> QED BY <1>1 DEF Good

\* A queue that gets messages behind a running turn, or that loses some.
LEMMA QueueGood ==
  ASSUME NEW ml \in Seq(Call), NEW q \in BOOLEAN, NEW ts, Good(ts, ml, q, {}), NEW t \in Top,
         NEW v \in 0..MaxQueue, ts[t].streaming \/ v = 0 \/ ts[t].queue > 0
  PROVE  Good([ts EXCEPT ![t].queue = v], ml, q, {})
<1> DEFINE s == [ts[t] EXCEPT !.queue = v]
           us == [ts EXCEPT ![t] = s]
<1>1. t \in Thread /\ t \notin Sub /\ ts \in Threads BY ThreadAssumption DEF Thread, Good
<1>2. ts[t] \in ThreadType BY <1>1, Get
<1>3. /\ s.open = ts[t].open /\ s.parent = ts[t].parent /\ s.streaming = ts[t].streaming
      /\ s.stop = ts[t].stop /\ s.failure = ts[t].failure /\ s.claude = ts[t].claude
      /\ s.queue = v /\ SameBatch(ts[t], s) /\ SameWork(ts[t], s) /\ s \in ThreadType
  <2>1. s \in ThreadType BY <1>2, Setters
  <2> QED BY <1>2, <2>1 DEF ThreadType, SameBatch, SameWork
<1> HIDE DEF s
<1>4. us \in Threads /\ us[t] = s /\ \A u \in Thread : u # t => us[u] = ts[u]
  BY <1>1, <1>3, Put DEF Threads
<1> HIDE DEF us
<1>5. Alone(ts[t], ml, t) /\ Settled(ts, ml, q, t) /\ ts[t].open BY <1>1 DEF Good
<1>6. Silent(ts[t], ml, t) <=> Silent(s, ml, t) BY <1>3 DEF Silent, Off, SameWork
<1>7. Alone(s, ml, t)
  <2>1. Shape(s) BY <1>3, <1>5 DEF Alone, Shape, SameBatch, SameWork
  <2>2. \A m : Heard(ts[t], m) => Heard(s, m) BY <1>3 DEF Heard, SameBatch, SameWork
  <2>3. \A i : Followed(ts[t], ml, i, t) => Followed(s, ml, i, t) BY <1>3 DEF Followed, SameWork
  <2>4. s.gen = ts[t].gen /\ s.tools = ts[t].tools BY <1>3 DEF SameWork
  <2>5. Calls(s, ml, t) BY <1>5, <2>2, <2>3, <2>4 DEF Alone, Calls
  <2> QED BY <1>3, <1>5, <1>6, <2>1, <2>5 DEF Alone
<1>8. \/ ts[t].streaming
      \/ RunningChildren(ts, t) = {} /\ \A c \in Sub : us[t].batch[c] # "empty"
  <2> SUFFICES ASSUME ~ts[t].streaming
               PROVE  RunningChildren(ts, t) = {} /\ \A c \in Sub : us[t].batch[c] # "empty"
    OBVIOUS
  <2>1. ts[t].batch = NoBatch BY <1>5 DEF Alone, Shape
  <2> QED BY <1>1, <1>3, <1>4, <2>1, NoChildren DEF NoBatch, SameBatch
<1>9. Good(us, ml, q, {} \cup {t})
  <2>1. us[t].open /\ us[t].parent = ts[t].parent /\ Alone(us[t], ml, t)
        /\ us[t].claude = ts[t].claude /\ us[t].batch = ts[t].batch
        /\ us[t].token = ts[t].token /\ us[t].streaming = ts[t].streaming
    BY <1>3, <1>4, <1>5, <1>7 DEF SameBatch
  <2> QED BY <1>1, <1>4, <1>8, <2>1, Change
<1>10. \A u \in Thread : us[u].open = ts[u].open /\ us[u].parent = ts[u].parent
                         /\ us[u].streaming = ts[u].streaming /\ us[u].token = ts[u].token
  BY <1>3, <1>4 DEF SameBatch
<1>11. HasRunningChild(ts, t) => HasRunningChild(us, t)
  BY <1>10 DEF HasRunningChild, RunningChildren, Children, Thread
<1>12. Settled(us, ml, q, t)
  BY <1>1, <1>3, <1>4, <1>5, <1>6, <1>10, <1>11 DEF Settled
<1>13. Good(us, ml, q, {t}) BY <1>9
<1>14. Good(us, ml, q, {}) BY <1>1, <1>12, <1>13, Settle
<1> QED BY <1>14 DEF us, s

\* OpenChild, for an agent that Claude Code runs in t's turn.
LEMMA ChildGood ==
  ASSUME NEW ml \in Seq(Call), NEW q \in BOOLEAN, NEW ts, Good(ts, ml, q, {}), NEW t \in Top,
         ts[t].streaming, ts[t].claude, ts[t].token = "none", NEW c \in Sub, ~ts[c].open
  PROVE  Good([ts EXCEPT ![c] = Child(t)], ml, q, {})
<1> DEFINE s == Child(t)
           us == [ts EXCEPT ![c] = s]
<1>1. c \in Thread /\ c # t /\ ts \in Threads BY ThreadAssumption DEF Thread, Good
<1>2. Thread = Top \cup Sub /\ Top \cap Sub = {} BY ThreadAssumption DEF Thread
<1>3. s \in ThreadType BY ChildType
<1>4. /\ s.open /\ s.parent = t /\ s.streaming /\ ~s.stop /\ ~s.claude /\ s.queue = 0
      /\ s.gen = 0 /\ s.request.kind = "off" /\ s.tools.state = "off" /\ ~s.proc.on
      /\ s.token = "none" /\ s.batch = NoBatch
  BY UnusedType DEF Child, Unused, RequestOff, ToolsOff, ProcOff
<1> HIDE DEF s
<1>5. us \in Threads /\ us[c] = s /\ \A u \in Thread : u # c => us[u] = ts[u]
  BY <1>1, <1>3, Put DEF Threads
<1> HIDE DEF us
<1>6. ~ts[c].streaming /\ Silent(ts[c], ml, c) /\ Calls(ts[c], ml, c) /\ ts[c].gen = 0
      /\ ts[c] \in ThreadType
  BY UnopenedSilent
<1>7. ts[c].gen <= s.gen /\ Off(s) BY <1>4, <1>6 DEF Off
<1>8. Calls(s, ml, c) /\ Silent(s, ml, c) BY <1>1, <1>3, <1>4, <1>6, <1>7, SilentCalls
<1>9. Alone(s, ml, c) BY <1>4, <1>8 DEF Alone, Shape
<1>10. \A u \in Thread : Alone(us[u], ml, u) BY <1>5, <1>9 DEF Good
<1>11. \A p \in Top : us[p] = ts[p] BY <1>2, <1>5
<1>12. ASSUME NEW d \in Sub PROVE SubShape(us[d]) /\ Lives(us, ml, d) /\ Open(us, d, {})
  <2>1. SubShape(ts[d]) /\ Lives(ts, ml, d) /\ Open(ts, d, {}) BY DEF Good
  <2>2. CASE d = c
    <3>1. SubShape(us[d]) BY <1>4, <1>5, <2>2 DEF SubShape
    <3>2. Lives(us, ml, d) BY <1>4, <1>5, <1>8, <1>11, <2>2 DEF Lives
    <3>3. Open(us, d, {}) BY <1>6, <1>11, <2>1, <2>2 DEF Open
    <3> QED BY <3>1, <3>2, <3>3
  <2>3. CASE d # c
    <3>1. us[d] = ts[d] BY <1>2, <1>5, <2>3
    <3>2. ASSUME ts[d].streaming PROVE Lives(us, ml, d)
      <4>1. ts[d].parent \in Top BY <1>2, <2>1, <3>2 DEF Good, Alone, Shape, SubShape
      <4> QED BY <1>11, <2>1, <3>1, <4>1 DEF Lives
    <3>3. Open(us, d, {}) BY <1>11, <2>1, <3>1 DEF Open
    <3> QED BY <2>1, <3>1, <3>2, <3>3 DEF Lives
  <2> QED BY <2>2, <2>3
<1>13. ASSUME NEW u \in Thread PROVE Settled(us, ml, q, u)
  <2>1. CASE u = c BY <1>4, <1>5, <1>11, <2>1 DEF Settled
  <2>2. CASE u # c
    <3>1. us[u] = ts[u] /\ Settled(ts, ml, q, u) BY <1>5, <2>2 DEF Good
    <3>2. HasRunningChild(ts, u) => HasRunningChild(us, u)
      <4>1. \A d \in Sub : ts[d].open => us[d] = ts[d] BY <1>2, <1>5
      <4> QED BY <4>1 DEF HasRunningChild, RunningChildren, Children
    <3>3. ASSUME u \in Sub, us[u].streaming, ts[ts[u].parent].claude PROVE us[us[u].parent].claude
      <4>1. ts[u].parent \in Top BY <1>2, <3>1, <3>3 DEF Good, Alone, Shape, SubShape
      <4> QED BY <1>11, <3>1, <3>3, <4>1
    <3> QED BY <3>1, <3>2, <3>3 DEF Settled
  <2> QED BY <2>1, <2>2
<1>14. Good(us, ml, q, {})
  <2>1. \A p \in Top : us[p].open /\ us[p].parent = NoThread BY <1>11 DEF Good
  <2> QED BY <1>5, <1>10, <1>12, <1>13, <2>1 DEF Good
<1> QED BY <1>14 DEF us, s

\* FinalizeTurn of an agent that Claude Code ran: its parent has no entry for it
\* and goes on.
LEMMA AgentEndedGood ==
  ASSUME NEW ml \in Seq(Call), NEW q \in BOOLEAN, NEW ts, Good(ts, ml, q, {}), NEW t \in Top,
         ts[t].claude, ts[t].batch = NoBatch, ts[t].token = "none", NEW c \in RunningChildren(ts, t),
         NEW failed \in BOOLEAN, NEW how, NEW phow
  PROVE  Good(EndTurn(ts, c, failed, how, phow), ml, q, {})
<1> DEFINE us == Finalized(ts, c)
<1>1. c \in Sub /\ c \in Thread /\ t \in Thread /\ t \notin Sub /\ ts[c].parent = t
      /\ ts[c].streaming /\ t # NoThread /\ c # t
  BY ThreadAssumption DEF RunningChildren, Children, Thread
<1>2. ts \in Threads /\ Good(ts, ml, q, {c}) BY Weaken DEF Good
<1>3. Silent(ts[c], ml, c) /\ ts[c].token = "none"
  <2>1. Lives(ts, ml, c) BY <1>1 DEF Good
  <2>2. ts[t].batch[c] # "empty" BY <1>1 DEF NoBatch
  <2> QED BY <1>1, <2>1, <2>2 DEF Lives
<1>4. FinalizedTo(ts, us, c) BY <1>1, <1>2, FinalizedIs
<1> HIDE DEF us
<1>5. Good(us, ml, q, {c} \cup Parents(ts, c)) BY <1>1, <1>2, <1>3, <1>4, FinalizedGood
<1>6. Parents(ts, c) = {t} BY <1>1 DEF Parents
<1>7. Good(us, ml, q, {c} \cup {t}) BY <1>5, <1>6
<1>8. us[t] = ts[t] /\ us[c].parent = t /\ ~us[c].streaming
  <2>1. t \notin RunningChildren(ts, c) BY <1>1 DEF RunningChildren, Children
  <2> QED BY <1>1, <1>4, <2>1 DEF FinalizedTo
<1>9. Settled(us, ml, q, c)
  <2>1. us[c].queue = 0 BY <1>1, <1>7 DEF Good, SubShape
  <2> QED BY <1>8, <2>1 DEF Settled
<1>10. Settled(us, ml, q, t)
  <2>1. Settled(ts, ml, q, t) /\ Alone(ts[t], ml, t) BY <1>1 DEF Good
  <2> QED BY <1>1, <1>8, <2>1 DEF Settled
<1>11. ASSUME NEW d \in Sub PROVE Open(us, d, {})
  <2>1. Open(us, d, {c} \cup {t}) BY <1>7 DEF Good
  <2>2. us[t].batch[d] # "empty" BY <1>8 DEF NoBatch
  <2> QED BY <1>1, <1>8, <2>1, <2>2 DEF Open
<1>12. Good(us, ml, q, {}) BY <1>7, <1>9, <1>10, <1>11 DEF Good
<1>13. us[t].batch[c] = "absent" BY <1>1, <1>8 DEF NoBatch
<1>14. EndTurn(ts, c, failed, how, phow) = us
  BY <1>1, <1>8, <1>13 DEF EndTurn, ReportToParent, us
<1> QED BY <1>12, <1>14

-----------------------------------------------------------------------------
(* The actions.                                                            *)

\* The user, who does not press Play in a subagent's view.
LEMMA UserGood ==
  ASSUME TypeOK, Good(thr, mail, quit, {}), "play" \notin UserMay, NEW t \in Thread, User(t)
  PROVE  Good(thr', mail', quit', {})
<1>1. mail \in Seq(Call) /\ quit \in BOOLEAN /\ thr \in Threads BY DEF TypeOK, Threads
<1>2. mail' = mail /\ quit' = quit
  BY DEF User, Send, Enqueue, Play, ContinueQueue, ClearQueue, RemoveChip, Cancel, UserInput,
         UserChoice
<1>3. t \in Sub => thr[t].queue = 0 BY DEF Good, SubShape
<1>4. thr[t].queue \in 0..MaxQueue BY <1>1, Get, Fields
<1>5. MaxQueue \in Nat /\ Thread = Top \cup Sub BY ThreadAssumption DEF Thread
<1>6. CASE Send(t) /\ t \in Top
  <2>1. PICK how \in ApiHow \cup ClaudeHow : thr' = StartTurn(thr, t, how) BY <1>6 DEF Send
  <2>2. Good(thr, mail, quit, {t}) /\ ~thr[t].streaming BY <1>6, Weaken DEF Send
  <2> QED BY <1>1, <1>2, <1>6, <2>1, <2>2, StartTurnTop
<1>7. CASE Enqueue(t)
  <2>1. t \in Top /\ thr[t].streaming /\ thr' = [thr EXCEPT ![t].queue = thr[t].queue + 1]
        /\ thr[t].queue + 1 \in 0..MaxQueue
    BY <1>4, <1>5, <1>7 DEF Enqueue
  <2> QED BY <1>1, <1>2, <2>1, QueueGood
<1>8. CASE Play(t) /\ t \in Top
  <2>1. PICK how \in ApiHow \cup ClaudeHow, phow \in ApiHow :
          thr' = IF how \in Refusal THEN ReportToParent(StartTurn(thr, t, how), t, TRUE, phow)
                 ELSE StartTurn(thr, t, how)
    BY <1>8 DEF Play
  <2> DEFINE e == StartTurn(thr, t, how)
  <2>2. Good(thr, mail, quit, {t}) /\ ~thr[t].streaming BY <1>8, Weaken DEF Play
  <2>3. Good(e, mail, quit, {}) BY <1>1, <1>8, <2>2, StartTurnTop
  <2>4. thr' = IF how \in Refusal THEN ReportToParent(e, t, TRUE, phow) ELSE e BY <2>1
  <2> HIDE DEF e
  <2>5. ReportToParent(e, t, TRUE, phow) = e BY <1>8, <2>3 DEF Good, ReportToParent
  <2>6. thr' = e BY <2>4, <2>5
  <2> QED BY <1>2, <2>3, <2>6
<1>9. CASE ContinueQueue(t)
  <2>1. t \in Top BY <1>3, <1>5, <1>9 DEF ContinueQueue
  <2>2. PICK how \in ApiHow \cup ClaudeHow : thr' = DispatchNextQueued(thr, t, how)
    BY <1>9 DEF ContinueQueue
  <2>3. Good(thr, mail, quit, {t}) /\ ~thr[t].streaming BY <1>9, Weaken DEF ContinueQueue
  <2> QED BY <1>1, <1>2, <2>1, <2>2, <2>3, DispatchTop
<1>10. CASE ClearQueue(t)
  <2>1. t \in Top /\ thr' = [thr EXCEPT ![t].queue = 0] /\ 0 \in 0..MaxQueue
    BY <1>3, <1>5, <1>10 DEF ClearQueue
  <2> QED BY <1>1, <1>2, <2>1, QueueGood
<1>11. CASE RemoveChip(t)
  <2>1. t \in Top /\ thr[t].queue > 0 /\ thr' = [thr EXCEPT ![t].queue = thr[t].queue - 1]
        /\ thr[t].queue - 1 \in 0..MaxQueue
    BY <1>3, <1>4, <1>5, <1>11 DEF RemoveChip
  <2> QED BY <1>1, <1>2, <2>1, QueueGood
<1>12. CASE Cancel(t)
  <2>1. thr' = RequestCancel(thr, t) BY <1>12 DEF Cancel
  <2> QED BY <1>2, <2>1, RequestCancelGood
<1>13. Send(t) => t \in Top BY DEF Send
<1>14. Play(t) => t \in Top BY <1>5 DEF Play
<1> QED BY <1>6, <1>7, <1>8, <1>9, <1>10, <1>11, <1>12, <1>13, <1>14 DEF User

LEMMA WorkerGood ==
  ASSUME TypeOK, Good(thr, mail, quit, {}), NEW t \in Thread, Worker(t)
  PROVE  Good(thr', mail', quit', {})
<1>1. mail \in Seq(Call) /\ quit \in BOOLEAN /\ thr \in Threads BY DEF TypeOK, Threads
<1>2. quit' = quit BY DEF Worker, RequestEnds, ToolsEnd, ClaudeSays, ClaudeEnds
<1>3. thr[t] \in ThreadType BY <1>1, Get
<1>4. /\ thr[t].request.gen \in Nat /\ thr[t].tools.gen \in Nat /\ thr[t].proc.gen \in Nat
      /\ thr[t].request.kind \in {"off", "completion", "summary"}
  BY <1>3, Fields DEF RequestType, ToolsType, ProcType
<1>5. CASE RequestEnds(t)
  <2>1. PICK out \in {"text", "calls", "overflow", "error", "ended", "cancelled"} :
          /\ out = "cancelled" => thr[t].request.cancelled
          /\ Post(t, thr[t].request.gen, thr[t].request.kind, out)
    BY <1>5 DEF RequestEnds
  <2> DEFINE m == [to |-> t, gen |-> thr[t].request.gen, kind |-> thr[t].request.kind, out |-> out]
  <2>2. thr[t].request.kind # "off" /\ thr' = [thr EXCEPT ![t].request = RequestOff]
    BY <1>5 DEF RequestEnds
  <2>3. m \in Call BY <1>4, <2>2 DEF Call, LastCall, Outcome
  <2>4. mail' = Append(mail, m) BY <2>1 DEF Post
  <2>5. m.to = t /\ m.gen = thr[t].request.gen /\ m.kind = thr[t].request.kind /\ m.out = out
    OBVIOUS
  <2> HIDE DEF m
  <2>6. m.out = "cancelled" => thr[t].request.cancelled BY <2>1, <2>5
  <2> QED BY <1>1, <1>2, <2>2, <2>3, <2>4, <2>5, <2>6, RequestEndsGood
<1>6. CASE ToolsEnd(t)
  <2> DEFINE m == [to |-> t, gen |-> thr[t].tools.gen, kind |-> "tools", out |-> "ended"]
  <2>1. thr[t].tools.state = "running" /\ thr' = [thr EXCEPT ![t].tools.state = "reported"]
        /\ mail' = Append(mail, m)
    BY <1>6 DEF ToolsEnd, Post
  <2>2. m \in Call BY <1>4 DEF Call, LastCall, Outcome
  <2>3. m.to = t /\ m.gen = thr[t].tools.gen /\ m.kind = "tools" /\ m.out # "cancelled" OBVIOUS
  <2> HIDE DEF m
  <2> QED BY <1>1, <1>2, <2>1, <2>2, <2>3, ToolsEndGood
<1>7. CASE ClaudeSays(t)
  <2>1. PICK kind \in ClaudeLine : Post(t, thr[t].proc.gen, kind, "line") BY <1>7 DEF ClaudeSays
  <2> DEFINE m == [to |-> t, gen |-> thr[t].proc.gen, kind |-> kind, out |-> "line"]
  <2>2. thr[t].proc.on /\ thr' = thr /\ mail' = Append(mail, m) BY <1>7, <2>1 DEF ClaudeSays, Post
  <2>3. m \in Call BY <1>4 DEF Call, Outcome
  <2>4. m.to = t /\ m.gen = thr[t].proc.gen /\ m.kind \in ClaudeLine /\ m.out # "cancelled" OBVIOUS
  <2> HIDE DEF m
  <2> QED BY <1>1, <1>2, <2>2, <2>3, <2>4, ClaudePostGood
<1>8. CASE ClaudeEnds(t)
  <2>1. PICK out \in {"ended", "gone", "error", "cancelled"} :
          /\ out = "cancelled" => thr[t].proc.cancelled
          /\ Post(t, thr[t].proc.gen, "claude", out)
    BY <1>8 DEF ClaudeEnds
  <2> DEFINE m == [to |-> t, gen |-> thr[t].proc.gen, kind |-> "claude", out |-> out]
  <2>2. thr[t].proc.on /\ thr' = [thr EXCEPT ![t].proc = ProcOff] /\ mail' = Append(mail, m)
    BY <1>8, <2>1 DEF ClaudeEnds, Post
  <2>3. m \in Call BY <1>4 DEF Call, LastCall, Outcome
  <2>4. m.to = t /\ m.gen = thr[t].proc.gen /\ m.kind = "claude" /\ m.out = out OBVIOUS
  <2> HIDE DEF m
  <2>5. m.out = "cancelled" => thr[t].proc.cancelled BY <2>1, <2>4
  <2>6. thr' = [thr EXCEPT ![t] = [thr[t] EXCEPT !.proc = ProcOff]] BY <2>2
  <2>7. \/ thr' = thr /\ m.kind \in ClaudeLine
        \/ thr' = [thr EXCEPT ![t] = [thr[t] EXCEPT !.proc = ProcOff]] /\ m.kind = "claude"
    BY <2>4, <2>6
  <2> QED BY <1>1, <1>2, <2>2, <2>3, <2>4, <2>5, <2>7, ClaudePostGood
<1> QED BY <1>5, <1>6, <1>7, <1>8 DEF Worker

\* The last callback of a phase, while the frame waits to close.
LEMMA CloseAgainGood ==
  ASSUME TypeOK, Good(thr, mail, quit, {}), CloseAgain
  PROVE  Good(thr', mail', quit', {})
<1>1. mail \in Seq(Call) /\ quit /\ thr \in Threads BY DEF TypeOK, Threads, CloseAgain
<1>2. TakeCall /\ Found(thr, Head(mail)) BY DEF CloseAgain, Take
<1>3. mail # <<>> /\ mail' = Tail(mail) BY <1>2 DEF TakeCall
<1> DEFINE t == Head(mail).to
<1>4. t \in Thread /\ Current(thr[t], t, Head(mail))
  BY <1>1, <1>2, <1>3, HeadCall DEF Found, Current
<1> HIDE DEF t
<1>5. ASSUME NEW ts, AtWork(ts, Tail(mail), quit, t) PROVE Good(ts, Tail(mail), quit, {})
  <2>1. Good(ts, Tail(mail), quit, {t}) /\ ts[t].streaming BY <1>5 DEF AtWork
  <2>2. Settled(ts, Tail(mail), quit, t) BY <1>1, <2>1 DEF Settled
  <2> QED BY <1>4, <2>1, <2>2, Settle
<1>6. CASE Head(mail).kind \in {"completion", "summary", "claude"} /\ Close(thr)
  <2>1. AtWork(thr, Tail(mail), quit, t) BY <1>1, <1>3, <1>4, <1>6, TakeLast
  <2>2. Good(thr, Tail(mail), quit, {}) BY <1>5, <2>1
  <2> QED BY <1>3, <1>6, <2>2, CloseGood
<1>7. CASE Head(mail).kind = "tools" /\ Close([thr EXCEPT ![t].tools = ToolsOff])
  <2>1. PICK us : us = [thr EXCEPT ![t].tools = ToolsOff] OBVIOUS
  <2>2. AtWork(us, Tail(mail), quit, t) BY <1>1, <1>3, <1>4, <1>7, <2>1, TakeTools
  <2>3. Good(us, Tail(mail), quit, {}) /\ Close(us) BY <1>5, <1>7, <2>1, <2>2
  <2> QED BY <1>3, <2>3, CloseGood
<1> QED BY <1>6, <1>7 DEF CloseAgain, Take, t

\* A last callback that is let in finds its thread at work.
LEMMA Handled ==
  ASSUME TypeOK, Good(thr, mail, quit, {}), NEW t, t = Head(mail).to, NEW kind, NEW out,
         Handle(kind, out), kind \in {"completion", "summary", "claude"}
  PROVE  /\ t \in Thread /\ mail' \in Seq(Call) /\ quit \in BOOLEAN /\ quit' = quit
         /\ AtWork(thr, mail', quit, t) /\ thr[t].token = "none"
         /\ kind = "claude" <=> thr[t].claude
         /\ thr[t].claude => t \in Top
         /\ out = "cancelled" => thr[t].stop
<1>1. mail \in Seq(Call) /\ quit \in BOOLEAN /\ thr \in Threads BY DEF TypeOK, Threads
<1>2. /\ mail # <<>> /\ mail' = Tail(mail) /\ quit' = quit /\ Found(thr, Head(mail))
      /\ Head(mail).kind = kind /\ Head(mail).out = out
  BY DEF Handle, Take, TakeCall
<1>3. t \in Thread /\ mail' \in Seq(Call) BY <1>1, <1>2, HeadCall
<1>4. Current(thr[t], t, Head(mail)) BY <1>2 DEF Found, Current
<1>5. /\ AtWork(thr, Tail(mail), quit, t) /\ thr[t].token = "none"
      /\ Head(mail).kind = "claude" <=> thr[t].claude
      /\ thr[t].claude => t \in Top
      /\ Head(mail).out = "cancelled" => thr[t].stop
  BY <1>1, <1>2, <1>3, <1>4, TakeLast
<1> QED BY <1>1, <1>2, <1>3, <1>5

\* A flag of the thread is set on the way.
Flag(ts, t) ==
  {[ts EXCEPT ![t].forced = v] : v \in BOOLEAN} \cup {[ts EXCEPT ![t].fresh = v] : v \in BOOLEAN}
    \cup {[ts EXCEPT ![t].compacting = v] : v \in BOOLEAN}

LEMMA Flagged ==
  ASSUME NEW ml, NEW q, NEW ts, NEW t \in Thread, AtWork(ts, ml, q, t), NEW us \in Flag(ts, t)
  PROVE  /\ AtWork(us, ml, q, t) /\ us[t].token = ts[t].token /\ us[t].stop = ts[t].stop
         /\ us[t].claude = ts[t].claude
<1>1. ts[t] \in ThreadType BY Get DEF AtWork, Good
<1>2. \E r \in ThreadType : /\ us = [ts EXCEPT ![t] = r]
                            /\ SameTurn(ts[t], r) /\ SameBatch(ts[t], r) /\ SameWork(ts[t], r)
                            /\ r.failure = ts[t].failure
  <2>1. CASE \E v \in BOOLEAN : us = [ts EXCEPT ![t].forced = v]
    <3>1. PICK v \in BOOLEAN : us = [ts EXCEPT ![t].forced = v] BY <2>1
    <3> DEFINE r == [ts[t] EXCEPT !.forced = v]
    <3>2. r \in ThreadType /\ SameTurn(ts[t], r) /\ SameBatch(ts[t], r) /\ SameWork(ts[t], r)
          /\ r.failure = ts[t].failure
      BY <1>1, UnseenFields
    <3>3. us = [ts EXCEPT ![t] = r] BY <3>1
    <3> HIDE DEF r
    <3> QED BY <3>2, <3>3
  <2>2. CASE \E v \in BOOLEAN : us = [ts EXCEPT ![t].fresh = v]
    <3>1. PICK v \in BOOLEAN : us = [ts EXCEPT ![t].fresh = v] BY <2>2
    <3> DEFINE r == [ts[t] EXCEPT !.fresh = v]
    <3>2. r \in ThreadType /\ SameTurn(ts[t], r) /\ SameBatch(ts[t], r) /\ SameWork(ts[t], r)
          /\ r.failure = ts[t].failure
      BY <1>1, UnseenFields
    <3>3. us = [ts EXCEPT ![t] = r] BY <3>1
    <3> HIDE DEF r
    <3> QED BY <3>2, <3>3
  <2>3. CASE \E v \in BOOLEAN : us = [ts EXCEPT ![t].compacting = v]
    <3>1. PICK v \in BOOLEAN : us = [ts EXCEPT ![t].compacting = v] BY <2>3
    <3> DEFINE r == [ts[t] EXCEPT !.compacting = v]
    <3>2. r \in ThreadType /\ SameTurn(ts[t], r) /\ SameBatch(ts[t], r) /\ SameWork(ts[t], r)
          /\ r.failure = ts[t].failure
      BY <1>1, UnseenFields
    <3>3. us = [ts EXCEPT ![t] = r] BY <3>1
    <3> HIDE DEF r
    <3> QED BY <3>2, <3>3
  <2> QED BY <2>1, <2>2, <2>3 DEF Flag
<1>3. PICK r \in ThreadType : /\ us = [ts EXCEPT ![t] = r]
                              /\ SameTurn(ts[t], r) /\ SameBatch(ts[t], r) /\ SameWork(ts[t], r)
                              /\ r.failure = ts[t].failure
  BY <1>2
<1>6. /\ SameTurn(ts[t], r) /\ SameBatch(ts[t], r) /\ SameWork(ts[t], r)
      /\ ts[t].failure => r.failure
  BY <1>3
<1>4. AtWork([ts EXCEPT ![t] = r], ml, q, t) /\ [ts EXCEPT ![t] = r][t] = r
  BY <1>6, PutAtWork
<1>5. AtWork(us, ml, q, t) /\ us[t] = r BY <1>3, <1>4
<1> QED BY <1>3, <1>5 DEF SameTurn, SameBatch

\* FinalizeTurn of a conversation whose Claude run failed.
LEMMA FailedEnds ==
  ASSUME NEW ml \in Seq(Call), NEW q \in BOOLEAN, NEW ts, NEW t \in Top,
         AtWork(ts, ml, q, t), ts[t].token = "none"
  PROVE  Good(Finalized(Failed(ts, t), t), ml, q, {})
<1>1. PICK e : e = Failed(ts, t) OBVIOUS
<1>2. t \in Thread /\ Good(ts, ml, q, {t}) BY DEF AtWork, Thread
<1>3. AtWork(e, ml, q, t) /\ e[t].failure /\ SameBatch(ts[t], e[t]) BY <1>1, <1>2, FailedGood
<1>4. Good(Finalized(e, t), ml, q, {}) BY <1>3, EndedTop DEF SameBatch
<1> QED BY <1>1, <1>4

\* OnStreamDone and OnSummaryStreamDone.
LEMMA ReplyGood ==
  ASSUME TypeOK, Good(thr, mail, quit, {}), NEW t \in Thread,
         \/ OnCompletionCancelled(t) \/ OnCompletionFailed(t) \/ OnOverflow(t)
         \/ OnReply(t) \/ OnToolCalls(t) \/ OnSummaryCancelled(t) \/ OnSummary(t)
  PROVE  Good(thr', mail', quit', {})
<1> DEFINE ml == mail'
<1> HIDE DEF ml
<1>1. \E kind \in {"completion", "summary"}, out \in Outcome :
        /\ Handle(kind, out) /\ t = Head(mail).to
        /\ OnCompletionCancelled(t) \/ OnSummaryCancelled(t) => out = "cancelled"
  BY DEF OnCompletionCancelled, OnCompletionFailed, OnOverflow, OnReply, OnToolCalls,
         OnSummaryCancelled, OnSummary, Handle, Take, Outcome
<1>2. PICK kind \in {"completion", "summary"}, out \in Outcome :
        /\ Handle(kind, out) /\ t = Head(mail).to
        /\ OnCompletionCancelled(t) \/ OnSummaryCancelled(t) => out = "cancelled"
  BY <1>1
<1>3. /\ ml \in Seq(Call) /\ quit \in BOOLEAN /\ quit' = quit
      /\ AtWork(thr, ml, quit, t) /\ thr[t].token = "none" /\ ~thr[t].claude
      /\ out = "cancelled" => thr[t].stop
  BY <1>2, Handled DEF ml
<1>4. "nokey" \in ApiHow /\ ApiHow \subseteq ApiHow \cup ClaudeHow BY DEF ApiHow
<1>5. Good(thr, ml, quit, {t}) /\ thr[t].streaming BY <1>3 DEF AtWork
<1>6. CASE OnCompletionCancelled(t)
  <2>1. PICK phow \in ApiHow : thr' = EndTurn(thr, t, TRUE, "nokey", phow)
    BY <1>5, <1>6 DEF OnCompletionCancelled
  <2> QED BY <1>2, <1>3, <1>4, <1>6, <2>1, EndTurnGood DEF ml
<1>7. CASE OnCompletionFailed(t)
  <2>1. PICK phow \in ApiHow : thr' = EndTurn(Failed(thr, t), t, TRUE, "nokey", phow)
    BY <1>7 DEF OnCompletionFailed
  <2>2. PICK e : e = Failed(thr, t) OBVIOUS
  <2>3. AtWork(e, ml, quit, t) /\ e[t].failure /\ e[t].token = "none"
    BY <1>3, <1>5, <2>2, FailedGood DEF SameBatch
  <2>4. Good(EndTurn(e, t, TRUE, "nokey", phow), ml, quit, {})
    BY <1>3, <1>4, <2>3, EndTurnGood
  <2> QED BY <1>3, <2>1, <2>2, <2>4 DEF ml
<1>8. CASE OnOverflow(t)
  <2>1. PICK phow \in ApiHow :
          LET e == [thr EXCEPT ![t].forced = TRUE]
          IN  thr' \in {SendSummary(e, t), Proceed(e, t, "nokey", phow)}
    BY <1>8 DEF OnOverflow
  <2>2. PICK e \in Flag(thr, t) : e = [thr EXCEPT ![t].forced = TRUE] BY DEF Flag
  <2>3. PICK s \in Flag(e, t) : s = [e EXCEPT ![t].compacting = TRUE] BY DEF Flag
  <2>4. AtWork(e, ml, quit, t) /\ e[t].token = "none" /\ ~e[t].claude BY <1>3, <2>2, Flagged
  <2>5. AtWork(s, ml, quit, t) /\ s[t].token = "none" /\ ~s[t].claude BY <2>3, <2>4, Flagged
  <2>6. Good(SendRequest(s, t, "summary"), ml, quit, {}) BY <1>3, <2>5, SendRequestGood
  <2>7. Good(Proceed(e, t, "nokey", phow), ml, quit, {}) BY <1>3, <1>4, <2>4, ProceedGood
  <2>8. thr' \in {SendRequest(s, t, "summary"), Proceed(e, t, "nokey", phow)}
    BY <2>1, <2>2, <2>3 DEF SendSummary
  <2> QED BY <1>3, <2>6, <2>7, <2>8 DEF ml
<1>9. CASE OnReply(t)
  <2>1. PICK how \in ApiHow \cup ClaudeHow, phow \in ApiHow : thr' = EndTurn(thr, t, FALSE, how, phow)
    BY <1>9 DEF OnReply
  <2> QED BY <1>3, <2>1, EndTurnGood DEF ml
<1>10. CASE OnToolCalls(t)
  <2>1. PICK kids \in SUBSET {c \in Sub : ~thr[c].open}, how \in {"completion", "nokey"} :
          (t \in Sub => kids = {}) /\ thr' = StartToolBatch(thr, t, kids, how)
    BY <1>10 DEF OnToolCalls
  <2>2. kids \in SUBSET Sub /\ \A c \in kids : ~thr[c].open OBVIOUS
  <2> QED BY <1>3, <2>1, <2>2, StartToolBatchGood DEF ml
<1>11. CASE OnSummaryCancelled(t)
  <2>1. PICK phow \in ApiHow :
          thr' = EndTurn([thr EXCEPT ![t].compacting = FALSE], t, TRUE, "nokey", phow)
    BY <1>11 DEF OnSummaryCancelled
  <2>2. PICK e \in Flag(thr, t) : e = [thr EXCEPT ![t].compacting = FALSE] BY DEF Flag
  <2>3. AtWork(e, ml, quit, t) /\ e[t].token = "none" /\ e[t].stop
    BY <1>2, <1>3, <1>11, <2>2, Flagged
  <2>4. Good(EndTurn(e, t, TRUE, "nokey", phow), ml, quit, {})
    BY <1>3, <1>4, <2>3, EndTurnGood
  <2> QED BY <1>3, <2>1, <2>2, <2>4 DEF ml
<1>12. CASE OnSummary(t)
  <2>1. PICK how \in {"completion", "nokey"}, phow \in ApiHow :
          thr' = Proceed([thr EXCEPT ![t].compacting = FALSE], t, how, phow)
    BY <1>12 DEF OnSummary
  <2>2. PICK e \in Flag(thr, t) : e = [thr EXCEPT ![t].compacting = FALSE] BY DEF Flag
  <2>3. AtWork(e, ml, quit, t) /\ e[t].token = "none" /\ ~e[t].claude /\ how \in ApiHow
    BY <1>3, <2>2, Flagged DEF ApiHow
  <2>4. Good(Proceed(e, t, how, phow), ml, quit, {}) BY <1>3, <2>3, ProceedGood
  <2> QED BY <1>3, <2>1, <2>2, <2>4 DEF ml
<1> QED BY <1>6, <1>7, <1>8, <1>9, <1>10, <1>11, <1>12

\* The tool worker's last callback.
LEMMA ToolsDoneGood ==
  ASSUME TypeOK, Good(thr, mail, quit, {}), NEW t \in Thread, OnToolsDone(t)
  PROVE  Good(thr', mail', quit', {})
<1>1. mail \in Seq(Call) /\ quit \in BOOLEAN /\ thr \in Threads BY DEF TypeOK, Threads
<1>2. /\ mail # <<>> /\ mail' = Tail(mail) /\ quit' = quit /\ Found(thr, Head(mail))
      /\ Head(mail).kind = "tools" /\ t = Head(mail).to
  BY DEF OnToolsDone, Handle, Take, TakeCall
<1>3. PICK how \in ApiHow, phow \in ApiHow :
        thr' = OnToolBatchDone([thr EXCEPT ![t].tools = ToolsOff], t, how, phow)
  BY DEF OnToolsDone
<1>4. PICK us : us = [thr EXCEPT ![t].tools = ToolsOff] OBVIOUS
<1>5. Current(thr[t], t, Head(mail)) /\ Tail(mail) \in Seq(Call)
  BY <1>1, <1>2, HeadCall DEF Found, Current
<1>6. AtWork(us, Tail(mail), quit, t) /\ us[t].token # "none"
  BY <1>1, <1>2, <1>4, <1>5, TakeTools
<1>7. Good(OnToolBatchDone(us, t, how, phow), Tail(mail), quit, {})
  BY <1>1, <1>5, <1>6, OnToolBatchDoneGood
<1> QED BY <1>2, <1>3, <1>4, <1>7

\* OnClaudeDone.
LEMMA ClaudeDoneGood ==
  ASSUME TypeOK, Good(thr, mail, quit, {}), NEW t \in Thread,
         OnClaudeCancelled(t) \/ OnClaudeGone(t) \/ OnClaudeReply(t) \/ OnClaudeFailed(t)
  PROVE  Good(thr', mail', quit', {})
<1> DEFINE ml == mail'
<1> HIDE DEF ml
<1>1. PICK out \in Outcome : /\ Handle("claude", out) /\ t = Head(mail).to
                             /\ OnClaudeCancelled(t) => out = "cancelled"
  BY DEF OnClaudeCancelled, OnClaudeGone, OnClaudeReply, OnClaudeFailed, Handle, Take, Outcome
<1>2. /\ ml \in Seq(Call) /\ quit \in BOOLEAN /\ quit' = quit
      /\ AtWork(thr, ml, quit, t) /\ thr[t].token = "none" /\ thr[t].claude /\ t \in Top
      /\ out = "cancelled" => thr[t].stop
  BY <1>1, Handled DEF ml
<1>3. CASE OnClaudeCancelled(t)
  <2>1. thr' = Finalized(thr, t) BY <1>3 DEF OnClaudeCancelled
  <2> QED BY <1>1, <1>2, <1>3, <2>1, EndedTop DEF ml
<1>4. CASE OnClaudeGone(t)
  <2>1. PICK e \in Flag(thr, t) : e = [thr EXCEPT ![t].fresh = TRUE] BY DEF Flag
  <2>2. thr' \in {SpawnClaude(e, t, FALSE), Finalized(Failed(e, t), t)}
    BY <1>4, <2>1 DEF OnClaudeGone
  <2>3. AtWork(e, ml, quit, t) /\ e[t].token = "none" /\ e[t].claude BY <1>2, <2>1, Flagged
  <2>4. Good(SpawnClaude(e, t, FALSE), ml, quit, {}) BY <1>2, <2>3, SpawnClaudeGood
  <2>5. Good(Finalized(Failed(e, t), t), ml, quit, {}) BY <1>2, <2>3, FailedEnds
  <2> QED BY <1>2, <2>2, <2>4, <2>5 DEF ml
<1>5. CASE OnClaudeReply(t)
  <2>1. PICK how \in ApiHow \cup ClaudeHow, phow \in ApiHow : thr' = EndTurn(thr, t, FALSE, how, phow)
    BY <1>5 DEF OnClaudeReply
  <2> QED BY <1>2, <2>1, EndTurnGood DEF ml
<1>6. CASE OnClaudeFailed(t)
  <2>1. thr' = Finalized(Failed(thr, t), t) BY <1>6 DEF OnClaudeFailed
  <2> QED BY <1>2, <2>1, FailedEnds DEF ml
<1> QED BY <1>3, <1>4, <1>5, <1>6

\* HandleClaudeEvent.
LEMMA ClaudeEventGood ==
  ASSUME TypeOK, Good(thr, mail, quit, {}), NEW t \in Thread,
         OnAgentStarted(t) \/ OnAgentEnded(t) \/ OnResult(t)
  PROVE  Good(thr', mail', quit', {})
<1>1. mail \in Seq(Call) /\ quit \in BOOLEAN /\ thr \in Threads BY DEF TypeOK, Threads
<1>2. /\ mail # <<>> /\ mail' = Tail(mail) /\ quit' = quit /\ Found(thr, Head(mail))
      /\ Head(mail).kind \in ClaudeLine /\ t = Head(mail).to
  BY DEF OnAgentStarted, OnAgentEnded, OnResult, ClaudeEvent, Take, TakeCall, ClaudeLine
<1>3. Current(thr[t], t, Head(mail)) /\ Tail(mail) \in Seq(Call)
  BY <1>1, <1>2, HeadCall DEF Found, Current
<1> DEFINE ml == Tail(mail)
<1>4. /\ Good(thr, ml, quit, {}) /\ thr[t].streaming /\ thr[t].claude /\ t \in Top
      /\ thr[t].token = "none" /\ thr[t].batch = NoBatch /\ ml \in Seq(Call)
  BY <1>1, <1>2, <1>3, TakeLine
<1>5. mail' = ml BY <1>2
<1> HIDE DEF ml
<1>6. CASE OnAgentStarted(t)
  <2>1. CASE thr' = thr BY <1>2, <1>4, <1>5, <2>1
  <2>2. CASE \E c \in Sub : ~thr[c].open /\ thr' = [thr EXCEPT ![c] = Child(t)]
    <3>1. PICK c \in Sub : ~thr[c].open /\ thr' = [thr EXCEPT ![c] = Child(t)] BY <2>2
    <3> QED BY <1>1, <1>2, <1>4, <1>5, <3>1, ChildGood
  <2> QED BY <1>6, <2>1, <2>2 DEF OnAgentStarted
<1>7. CASE OnAgentEnded(t)
  <2>1. CASE ~HasRunningChild(thr, t)
    <3>1. thr' = thr BY <1>7, <2>1 DEF OnAgentEnded
    <3> QED BY <1>2, <1>4, <1>5, <3>1
  <2>2. CASE HasRunningChild(thr, t)
    <3>1. PICK kind \in {"agentOk", "agentFailed"},
               c \in RunningChildren(thr, t), phow \in ApiHow :
            thr' = EndTurn(IF kind = "agentOk" THEN thr ELSE Failed(thr, c), c,
                           kind = "agentFailed", "nokey", phow)
      BY <1>7, <2>2 DEF OnAgentEnded
    <3>2. PICK e : e = IF kind = "agentOk" THEN thr ELSE Failed(thr, c) OBVIOUS
    <3>3. PICK failed \in BOOLEAN : failed = (kind = "agentFailed") OBVIOUS
    <3>4. c \in Thread /\ c # t
      BY <1>4, ThreadAssumption DEF RunningChildren, Children, Thread
    <3>5. Good(e, ml, quit, {}) /\ e[t] = thr[t] /\ c \in RunningChildren(e, t)
      <4>1. CASE e = thr BY <1>4, <4>1
      <4>2. CASE e = Failed(thr, c)
        <5>1. Good(e, ml, quit, {}) /\ SameTurn(thr[c], e[c]) /\ e[t] = thr[t]
          BY <1>4, <3>4, <4>2, FailedGood
        <5> QED BY <5>1 DEF RunningChildren, Children, SameTurn
      <4> QED BY <3>2, <4>1, <4>2
    <3>6. Good(EndTurn(e, c, failed, "nokey", phow), ml, quit, {})
      BY <1>1, <1>4, <3>5, AgentEndedGood
    <3> QED BY <1>2, <1>5, <3>1, <3>2, <3>3, <3>6
  <2> QED BY <2>1, <2>2
<1>8. CASE OnResult(t)
  <2>1. PICK v \in {"none", "ok", "error"} : thr' = [thr EXCEPT ![t].result = v]
    BY <1>8 DEF OnResult
  <2>2. thr[t] \in ThreadType BY <1>1, Get
  <2>3. PICK r \in ThreadType : /\ thr' = [thr EXCEPT ![t] = r]
                                /\ SameTurn(thr[t], r) /\ SameBatch(thr[t], r)
                                /\ SameWork(thr[t], r) /\ r.failure = thr[t].failure
    BY <2>1, <2>2, UnseenFields
  <2>4. Good([thr EXCEPT ![t] = r], ml, quit, {}) BY <1>4, <2>3, PutUnseen
  <2> QED BY <1>2, <1>5, <2>3, <2>4
<1> QED BY <1>6, <1>7, <1>8

-----------------------------------------------------------------------------
(* The specification.                                                      *)

Holds == Good(thr, mail, quit, {})

LEMMA InitGood == Init => Holds
<1> SUFFICES ASSUME Init PROVE Good(thr, mail, quit, {}) BY DEF Holds
<1>1. mail = <<>> /\ thr \in Threads BY InitType DEF Init, TypeOK, Threads
<1>2. Thread = Top \cup Sub /\ Top \cap Sub = {} BY ThreadAssumption DEF Thread
<1>3. ASSUME NEW t \in Thread
      PROVE  /\ thr[t].open <=> t \in Top
             /\ thr[t].parent = NoThread /\ ~thr[t].streaming /\ ~thr[t].claude
             /\ thr[t].queue = 0 /\ thr[t].token = "none" /\ thr[t].batch = NoBatch
             /\ thr[t].gen = 0 /\ thr[t].request.kind = "off" /\ thr[t].tools.state = "off"
             /\ ~thr[t].proc.on
  BY <1>3 DEF Init, Unused, RequestOff, ToolsOff, ProcOff
<1>4. \A t \in Thread : Alone(thr[t], mail, t)
  BY <1>1, <1>3 DEF Alone, Shape, Calls, Silent, Off
<1>5. ASSUME NEW c \in Sub PROVE SubShape(thr[c]) /\ Lives(thr, mail, c) /\ Open(thr, c, {})
  BY <1>2, <1>3 DEF SubShape, Lives, Open, NoBatch
<1>6. \A t \in Thread : Settled(thr, mail, quit, t) BY <1>3 DEF Settled
<1>7. \A p \in Top : thr[p].open /\ thr[p].parent = NoThread BY <1>2, <1>3
<1> QED BY <1>1, <1>4, <1>5, <1>6, <1>7 DEF Good

LEMMA NextGood ==
  ASSUME "play" \notin UserMay
  PROVE  TypeOK /\ Holds /\ [Next]_vars => Holds'
<1> SUFFICES ASSUME TypeOK, Good(thr, mail, quit, {}), [Next]_vars
             PROVE  Good(thr', mail', quit', {})
  BY DEF Holds
<1>1. mail \in Seq(Call) /\ quit \in BOOLEAN /\ thr \in Threads BY DEF TypeOK, Threads
<1>2. CASE UNCHANGED vars BY <1>2 DEF vars
<1>3. ASSUME NEW t \in Thread, User(t) PROVE Good(thr', mail', quit', {}) BY <1>3, UserGood
<1>4. ASSUME NEW t \in Thread, Worker(t) PROVE Good(thr', mail', quit', {}) BY <1>4, WorkerGood
<1>5. CASE CloseWindow
  <2>1. mail' = mail /\ Close(thr) BY <1>5 DEF CloseWindow
  <2> QED BY <2>1, CloseGood
<1>6. CASE DropStale
  <2>1. mail # <<>> /\ mail' = Tail(mail) /\ thr' = thr /\ quit' = quit /\ ~Found(thr, Head(mail))
    BY <1>6 DEF DropStale, TakeCall
  <2> QED BY <1>1, <2>1, DropGood
<1>7. CASE CloseAgain BY <1>7, CloseAgainGood
<1>8. ASSUME NEW t \in Thread, Callback(t) PROVE Good(thr', mail', quit', {})
  BY <1>8, ReplyGood, ToolsDoneGood, ClaudeDoneGood, ClaudeEventGood DEF Callback
<1> QED BY <1>2, <1>3, <1>4, <1>5, <1>6, <1>7, <1>8 DEF Next, GuiThread

LEMMA GoodCorrect ==
  ASSUME "play" \notin UserMay
  PROVE  Spec => [](TypeOK /\ Holds)
<1>1. Init => TypeOK /\ Holds BY InitType, InitGood
<1>2. TypeOK /\ Holds /\ [Next]_vars => (TypeOK /\ Holds)' BY NextType, NextGood
<1> QED BY <1>1, <1>2, PTL DEF Spec

\* A thread that is not silent will be woken by work of its own.
LEMMA Wakes ==
  ASSUME TypeOK, NEW t \in Thread, Alone(thr[t], mail, t), ~Silent(thr[t], mail, t)
  PROVE  Pending(t)
<1>1. mail \in Seq(Call) /\ thr[t] \in ThreadType BY DEF TypeOK
<1>2. thr[t].tools.state \in {"off", "running", "reported"} BY <1>1, Fields DEF ToolsType
<1>3. CASE thr[t].request.kind # "off"
  BY <1>3 DEF Alone, Shape, Pending, Requesting
<1>4. CASE thr[t].proc.on BY <1>4 DEF Alone, Shape, Pending, ClaudeRuns
<1>5. CASE thr[t].tools.state = "running" BY <1>5 DEF Alone, Shape, Pending, ToolsRun
<1>6. CASE thr[t].tools.state = "reported"
  BY <1>6 DEF Alone, Calls, Pending, Announced, Awaited, LastCall
<1>7. CASE \E i \in DOMAIN mail : mail[i].to = t /\ mail[i].gen = thr[t].gen
  <2>1. PICK i \in DOMAIN mail : mail[i].to = t /\ mail[i].gen = thr[t].gen BY <1>7
  <2>2. mail[i].kind \in LastCall \cup ClaudeLine BY <1>1, CallAt DEF Call
  <2>3. CASE mail[i].kind \in LastCall BY <2>1, <2>3 DEF Pending, Announced, Awaited
  <2>4. CASE mail[i].kind \in ClaudeLine
    <3>1. Followed(thr[t], mail, i, t) BY <2>1 DEF Alone, Calls
    <3>2. \/ thr[t].proc.on
          \/ \E j \in DOMAIN mail :
               mail[j].to = t /\ mail[j].gen = thr[t].gen /\ mail[j].kind \in LastCall
      BY <2>4, <3>1 DEF Followed, LastCall
    <3> QED BY <1>4, <3>2 DEF Pending, Announced, Awaited
  <2> QED BY <2>2, <2>3, <2>4
<1> QED BY <1>2, <1>3, <1>4, <1>5, <1>6, <1>7 DEF Silent, Off

LEMMA GoodNeverStuck == TypeOK /\ Holds => NeverStuck
<1> SUFFICES ASSUME TypeOK, Good(thr, mail, quit, {}), NEW t \in Thread, thr[t].streaming, ~quit
             PROVE  \/ Pending(t)
                    \/ \E c \in RunningChildren(thr, t) : thr[t].batch[c] = "empty" /\ Pending(c)
                    \/ t \in Sub /\ thr[thr[t].parent].claude /\ Pending(thr[t].parent)
  BY DEF Holds, NeverStuck
<1>1. \A u \in Thread : Alone(thr[u], mail, u) /\ Settled(thr, mail, quit, u) BY DEF Good
<1>2. Thread = Top \cup Sub /\ Top \cap Sub = {} BY ThreadAssumption DEF Thread
<1>3. CASE ~Silent(thr[t], mail, t) BY <1>1, <1>3, Wakes
<1>4. CASE thr[t].token # "none" /\ HasRunningChild(thr, t)
  <2>1. PICK c \in RunningChildren(thr, t) : TRUE BY <1>4 DEF HasRunningChild
  <2>2. c \in Sub /\ thr[c].parent = t /\ thr[c].streaming /\ c \in Thread
    BY <1>2 DEF RunningChildren, Children
  <2>3. ~thr[t].claude BY <1>1, <1>4 DEF Alone, Shape
  <2>4. thr[t].batch[c] = "empty" BY <2>2, <2>3 DEF Good, Lives
  <2>5. ~HasRunningChild(thr, c) BY <2>2, NoChildren DEF HasRunningChild
  <2>6. ~Silent(thr[c], mail, c) BY <1>1, <2>2, <2>3, <2>5 DEF Settled
  <2> QED BY <1>1, <2>2, <2>4, <2>6, Wakes
<1>5. CASE t \in Sub /\ thr[thr[t].parent].claude
  <2> DEFINE p == thr[t].parent
  <2>1. p \in Top /\ thr[p].streaming BY <1>1, <1>2, <1>5 DEF Alone, Shape, Good, SubShape, Lives
  <2>2. thr[p].token = "none" BY <1>1, <1>2, <1>5, <2>1 DEF Alone, Shape
  <2>3. ~Silent(thr[p], mail, p) BY <1>1, <1>2, <2>1, <2>2 DEF Settled
  <2> QED BY <1>1, <1>2, <1>5, <2>1, <2>3, Wakes
<1> QED BY <1>1, <1>3, <1>4, <1>5 DEF Settled

\* NeverStuck holds in every state of the program, for any number of threads,
\* rounds and messages: whatever the order of replies, cancels, tool results and
\* ends of subagents, a turn that runs has a callback coming that wakes it.
THEOREM NeverStuckCorrect ==
  ASSUME "play" \notin UserMay
  PROVE  Spec => []NeverStuck
BY GoodCorrect, GoodNeverStuck, PTL

\* Nested holds: a subagent never outlives the turn it was started in.
THEOREM NestedCorrect ==
  ASSUME "play" \notin UserMay
  PROVE  Spec => []Nested
<1>1. TypeOK /\ Holds => Nested BY DEF Holds, Good, Lives, Nested
<1> QED BY <1>1, GoodCorrect, PTL

\* CancelReachesSubagents holds: no cancel, of one thread or of all when the
\* window closes, misses a subagent of a batch.
THEOREM CancelReachesCorrect ==
  ASSUME "play" \notin UserMay
  PROVE  Spec => []CancelReachesSubagents
<1>1. TypeOK /\ Holds => CancelReachesSubagents
  BY DEF Holds, Good, Lives, CancelReachesSubagents, RunningChildren, Children
<1> QED BY <1>1, GoodCorrect, PTL

\* IdleQueue holds: no path that ends a turn forgets the messages behind it.
THEOREM IdleQueueCorrect ==
  ASSUME "play" \notin UserMay
  PROVE  Spec => []IdleQueue
<1>1. TypeOK /\ Holds => IdleQueue BY DEF Holds, Good, Settled, IdleQueue
<1> QED BY <1>1, GoodCorrect, PTL

-----------------------------------------------------------------------------
(* A batch is recorded once every subagent of it is done.                  *)

\* A batch entry is that of a subagent of the thread.
Kin(ts) ==
  \A t \in Thread, c \in Sub : ts[t].batch[c] = "empty" => ts[c].open /\ ts[c].parent = t

\* Handlers end subagents, and fill or drop the entries of those that have ended.
Goes(ts, us) ==
  /\ \A t \in Thread : us[t].parent = ts[t].parent
  /\ \A c \in Sub :
    /\ us[c].open = ts[c].open
    /\ us[c].streaming => ts[c].streaming
    /\ \A t \in Thread : /\ us[t].batch[c] = "empty" => ts[t].batch[c] = "empty"
                         /\ ts[t].batch[c] = "empty" /\ us[t].batch[c] # "empty" =>
                              ~us[c].streaming

LEMMA GoesTrans ==
  ASSUME NEW ts, NEW us, NEW vs, Goes(ts, us), Goes(us, vs)
  PROVE  Goes(ts, vs)
BY DEF Goes

LEMMA GoesKin ==
  ASSUME NEW ts, NEW us, Kin(ts), Goes(ts, us)
  PROVE  Kin(us)
BY DEF Kin, Goes, Thread

\* A change of one thread that leaves its batch alone.
LEMMA OneGoes ==
  ASSUME NEW ts, NEW t \in Thread, NEW us, \A u \in Thread : u # t => us[u] = ts[u],
         us[t].batch = ts[t].batch, us[t].parent = ts[t].parent,
         t \in Sub => us[t].open = ts[t].open /\ (us[t].streaming => ts[t].streaming)
  PROVE  Goes(ts, us)
BY DEF Goes, Thread

LEMMA SendRequestGoes ==
  ASSUME NEW ts \in Threads, NEW t \in Thread, NEW kind \in {"completion", "summary"}
  PROVE  Goes(ts, SendRequest(ts, t, kind))
<1>1. PICK us : us = SendRequest(ts, t, kind) OBVIOUS
<1>2. Requested(ts, SendRequest(ts, t, kind), t, kind) BY SendRequestIs
<1>3. Requested(ts, us, t, kind) BY <1>1, <1>2
<1>4. Goes(ts, us) BY <1>3, OneGoes DEF Requested, SameTurn, SameBatch
<1> QED BY <1>1, <1>4

LEMMA SpawnClaudeGoes ==
  ASSUME NEW ts \in Threads, NEW t \in Thread, NEW resumed \in BOOLEAN
  PROVE  Goes(ts, SpawnClaude(ts, t, resumed))
<1> DEFINE us == SpawnClaude(ts, t, resumed)
<1>1. /\ us \in Threads
      /\ \A u \in Thread : u # t => us[u] = ts[u]
      /\ SameTurn(ts[t], us[t]) /\ SameBatch(ts[t], us[t])
      /\ us[t].gen = ts[t].gen + 1
      /\ us[t].proc = [on |-> TRUE, gen |-> ts[t].gen + 1, cancelled |-> FALSE]
      /\ us[t].tools = ts[t].tools /\ us[t].request = ts[t].request
  <2> HIDE DEF us
  <2>1. us = SpawnClaude(ts, t, resumed) BY DEF us
  <2> QED BY <2>1, SpawnClaudeIs
<1> HIDE DEF us
<1>2. /\ us[t].batch = ts[t].batch /\ us[t].parent = ts[t].parent
      /\ us[t].open = ts[t].open /\ us[t].streaming = ts[t].streaming
  BY <1>1 DEF SameTurn, SameBatch
<1>3. Goes(ts, us) BY <1>1, <1>2, OneGoes
<1> QED BY <1>3 DEF us

LEMMA FinalizedGoes ==
  ASSUME NEW ts \in Threads, NEW t \in Thread
  PROVE  Goes(ts, Finalized(ts, t)) /\ (t \in Sub => ~Finalized(ts, t)[t].streaming)
<1>1. PICK us : us = Finalized(ts, t) OBVIOUS
<1>2. FinalizedTo(ts, Finalized(ts, t), t) BY FinalizedIs
<1>3. FinalizedTo(ts, us, t) BY <1>1, <1>2
<1>4. Goes(ts, us) BY <1>3 DEF FinalizedTo, Goes, SameBatch, Thread
<1>5. ~us[t].streaming BY <1>3 DEF FinalizedTo
<1> QED BY <1>1, <1>4, <1>5

\* Setting fields that no subagent's life depends on.
LEMMA FieldGoes ==
  ASSUME NEW ts \in Threads, NEW t \in Thread
  PROVE  /\ Goes(ts, Failed(ts, t))
         /\ Goes(ts, [ts EXCEPT ![t].compacting = TRUE])
         /\ Goes(ts, [ts EXCEPT ![t].compacting = FALSE])
         /\ Goes(ts, [ts EXCEPT ![t].fresh = TRUE])
         /\ Goes(ts, [ts EXCEPT ![t].fresh = FALSE])
         /\ Goes(ts, [ts EXCEPT ![t].forced = TRUE])
         /\ Goes(ts, [ts EXCEPT ![t].tools = ToolsOff])
         /\ Goes(ts, [ts EXCEPT ![t].round = ts[t].round + 1])
         /\ Goes(ts, [ts EXCEPT ![t].queue = ts[t].queue - 1])
<1>1. ASSUME NEW r, r.batch = ts[t].batch, r.open = ts[t].open, r.parent = ts[t].parent,
             r.streaming = ts[t].streaming
      PROVE  Goes(ts, [ts EXCEPT ![t] = r])
  <2>1. PICK us : us = [ts EXCEPT ![t] = r] OBVIOUS
  <2>2. us[t] = r /\ \A u \in Thread : u # t => us[u] = ts[u] BY <2>1 DEF Threads
  <2>3. Goes(ts, us) BY <1>1, <2>2, OneGoes
  <2> QED BY <2>1, <2>3
<1>2. ts[t] \in ThreadType BY Get
<1>3. Goes(ts, Failed(ts, t)) BY <1>1, <1>2 DEF Failed, ThreadType
<1>4. Goes(ts, [ts EXCEPT ![t].compacting = TRUE]) BY <1>1, <1>2 DEF ThreadType
<1>5. Goes(ts, [ts EXCEPT ![t].compacting = FALSE]) BY <1>1, <1>2 DEF ThreadType
<1>6. Goes(ts, [ts EXCEPT ![t].fresh = TRUE]) BY <1>1, <1>2 DEF ThreadType
<1>7. Goes(ts, [ts EXCEPT ![t].fresh = FALSE]) BY <1>1, <1>2 DEF ThreadType
<1>8. Goes(ts, [ts EXCEPT ![t].forced = TRUE]) BY <1>1, <1>2 DEF ThreadType
<1>9. Goes(ts, [ts EXCEPT ![t].tools = ToolsOff]) BY <1>1, <1>2 DEF ThreadType
<1>10. Goes(ts, [ts EXCEPT ![t].round = ts[t].round + 1]) BY <1>1, <1>2 DEF ThreadType
<1>11. Goes(ts, [ts EXCEPT ![t].queue = ts[t].queue - 1]) BY <1>1, <1>2 DEF ThreadType
<1> QED BY <1>3, <1>4, <1>5, <1>6, <1>7, <1>8, <1>9, <1>10, <1>11

LEMMA SendSummaryGoes ==
  ASSUME NEW ts \in Threads, NEW t \in Thread
  PROVE  Goes(ts, SendSummary(ts, t))
<1>1. PICK e : e = [ts EXCEPT ![t].compacting = TRUE] OBVIOUS
<1>2. e \in Threads /\ Goes(ts, e) BY <1>1, Get, Setters, Put, FieldGoes
<1>3. Goes(e, SendRequest(e, t, "summary")) BY <1>2, SendRequestGoes
<1>4. SendSummary(ts, t) = SendRequest(e, t, "summary") BY <1>1 DEF SendSummary
<1> QED BY <1>2, <1>3, <1>4, GoesTrans

LEMMA StartCompletionGoes ==
  ASSUME NEW ts \in Threads, NEW t \in Thread, NEW how \in ApiHow \cup ClaudeHow
  PROVE  /\ Goes(ts, StartCompletion(ts, t, how))
         /\ t \in Sub /\ how \in Refusal => ~StartCompletion(ts, t, how)[t].streaming
<1>1. CASE how = "completion" \/ (how = "summary" /\ ts[t].compacting)
  BY <1>1, SendRequestGoes DEF StartCompletion, Refusal
<1>2. CASE how = "summary" /\ ~ts[t].compacting
  BY <1>2, SendSummaryGoes DEF StartCompletion, Refusal
<1>3. CASE how \in {"resume", "fresh"}
  <2>1. PICK e : e = [ts EXCEPT ![t].fresh = FALSE] OBVIOUS
  <2>2. e \in Threads /\ Goes(ts, e) BY <2>1, Get, Setters, Put, FieldGoes
  <2>3. PICK resumed \in BOOLEAN : resumed = (how = "resume") OBVIOUS
  <2>4. Goes(e, SpawnClaude(e, t, resumed)) BY <2>2, SpawnClaudeGoes
  <2>5. StartCompletion(ts, t, how) = SpawnClaude(e, t, resumed)
    BY <1>3, <2>1, <2>3 DEF StartCompletion
  <2> QED BY <1>3, <2>2, <2>4, <2>5, GoesTrans DEF Refusal
<1>4. CASE how \in Refusal
  <2>1. PICK e : e = Failed(ts, t) OBVIOUS
  <2>2. e \in Threads /\ Goes(ts, e) BY <2>1, FailedType, FieldGoes
  <2>3. Goes(e, Finalized(e, t)) /\ (t \in Sub => ~Finalized(e, t)[t].streaming)
    BY <2>2, FinalizedGoes
  <2>4. StartCompletion(ts, t, how) = Finalized(e, t)
    BY <1>4, <2>1 DEF StartCompletion, Refusal
  <2> QED BY <2>2, <2>3, <2>4, GoesTrans
<1> QED BY <1>1, <1>2, <1>3, <1>4 DEF ApiHow, ClaudeHow, Refusal

\* StartTurn of a conversation.
LEMMA StartTurnGoes ==
  ASSUME NEW ts \in Threads, NEW t \in Top, NEW how \in ApiHow \cup ClaudeHow
  PROVE  Goes(ts, StartTurn(ts, t, how))
<1> DEFINE claude == how \in ClaudeHow
           r == [[[[[[ts[t] EXCEPT !.forced = FALSE] EXCEPT !.stop = FALSE] EXCEPT !.failure = FALSE]
                   EXCEPT !.claude = claude] EXCEPT !.streaming = TRUE] EXCEPT !.round = 0]
           e == [ts EXCEPT ![t] = r]
<1>1. t \in Thread /\ t \notin Sub BY ThreadAssumption DEF Thread
<1>2. ts[t] \in ThreadType BY <1>1, Get
<1>3. StartTurn(ts, t, how) = StartCompletion(e, t, how) BY <1>2 DEF StartTurn
<1>4. claude \in BOOLEAN OBVIOUS
<1> HIDE DEF claude
<1>5. r \in ThreadType /\ r.batch = ts[t].batch /\ r.parent = ts[t].parent
  BY <1>2, <1>4 DEF ThreadType
<1> HIDE DEF r
<1>6. e \in Threads /\ e[t] = r /\ \A u \in Thread : u # t => e[u] = ts[u]
  BY <1>1, <1>5, Put DEF Threads
<1> HIDE DEF e
<1>7. Goes(ts, e) BY <1>1, <1>5, <1>6, OneGoes
<1>8. Goes(e, StartCompletion(e, t, how)) BY <1>1, <1>6, StartCompletionGoes
<1> QED BY <1>3, <1>7, <1>8, GoesTrans

LEMMA DispatchGoes ==
  ASSUME NEW ts \in Threads, NEW t \in Top, NEW how \in ApiHow \cup ClaudeHow
  PROVE  Goes(ts, DispatchNextQueued(ts, t, how))
<1>1. t \in Thread BY DEF Thread
<1>2. CASE ts[t].queue = 0
  <2>1. Goes(ts, ts) BY DEF Goes
  <2> QED BY <1>2, <2>1 DEF DispatchNextQueued
<1>3. CASE ts[t].queue # 0
  <2>1. PICK e : e = [ts EXCEPT ![t].queue = ts[t].queue - 1] OBVIOUS
  <2>2. ts[t].queue - 1 \in 0..MaxQueue
    <3>1. ts[t].queue \in 0..MaxQueue BY <1>1, Get, Fields
    <3> QED BY <1>3, <3>1, ThreadAssumption
  <2>3. e \in Threads /\ Goes(ts, e) BY <1>1, <2>1, <2>2, Get, Setters, Put, FieldGoes
  <2>4. Goes(e, StartTurn(e, t, how)) BY <2>3, StartTurnGoes
  <2>5. DispatchNextQueued(ts, t, how) = StartTurn(e, t, how)
    BY <1>3, <2>1 DEF DispatchNextQueued
  <2> QED BY <2>3, <2>4, <2>5, GoesTrans
<1> QED BY <1>2, <1>3

LEMMA BatchRecordedGoes ==
  ASSUME NEW ts \in Threads, Kin(ts), NEW t \in Thread, RunningChildren(ts, t) = {}
  PROVE  Goes(ts, BatchRecorded(ts, t))
<1> DEFINE us == BatchRecorded(ts, t)
<1>1. us = BatchRecorded(ts, t) OBVIOUS
<1> HIDE DEF us
<1>2. /\ us \in Threads /\ \A u \in Thread : u # t => us[u] = ts[u]
      /\ SameTurn(ts[t], us[t]) /\ SameWork(ts[t], us[t])
      /\ us[t].token = "none" /\ us[t].batch = NoBatch
  BY <1>1, BatchRecordedIs
<1>3. \A c \in Sub : us[t].batch[c] # "empty" BY <1>2 DEF NoBatch
<1>4. \A u \in Thread : /\ us[u].open = ts[u].open /\ us[u].parent = ts[u].parent
                        /\ us[u].streaming = ts[u].streaming
  BY <1>2 DEF SameTurn
<1>5. \A c \in Sub : ts[t].batch[c] = "empty" => ~ts[c].streaming
  BY DEF Kin, RunningChildren, Children
<1>6. Goes(ts, us) BY <1>2, <1>3, <1>4, <1>5 DEF Goes, Thread
<1> QED BY <1>1, <1>6

LEMMA WakeParentGoes ==
  ASSUME NEW ts \in Threads, Kin(ts), NEW p \in Top, NEW how \in ApiHow
  PROVE  Goes(ts, WakeParent(ts, p, how))
<1>1. p \in Thread BY DEF Thread
<1>2. CASE ~BatchOver(ts, p)
  <2>1. Goes(ts, ts) BY DEF Goes
  <2> QED BY <1>2, <2>1 DEF WakeParent
<1>3. CASE BatchOver(ts, p)
  <2>1. PICK e : e = BatchRecorded(ts, p) OBVIOUS
  <2>2. e \in Threads /\ Goes(ts, e)
    BY <1>1, <1>3, <2>1, BatchRecordedType, BatchRecordedGoes DEF BatchOver, HasRunningChild
  <2>3. CASE ts[p].token = "cancelled"
    <3>1. Goes(e, Finalized(e, p)) BY <1>1, <2>2, FinalizedGoes
    <3>2. WakeParent(ts, p, how) = Finalized(e, p) BY <1>3, <2>1, <2>3 DEF WakeParent
    <3> QED BY <2>2, <3>1, <3>2, GoesTrans
  <2>4. CASE ts[p].token # "cancelled"
    <3>1. PICK f : f = [e EXCEPT ![p].round = e[p].round + 1] OBVIOUS
    <3>2. f \in Threads /\ Goes(e, f)
      <4>1. f = [BatchRecorded(ts, p) EXCEPT ![p].round = @ + 1] BY <2>1, <3>1
      <4>2. f \in Threads BY <1>1, <4>1, NextRoundType
      <4> QED BY <1>1, <2>2, <3>1, <4>2, FieldGoes
    <3>3. Goes(f, StartCompletion(f, p, how)) BY <1>1, <3>2, StartCompletionGoes
    <3>4. WakeParent(ts, p, how) = StartCompletion(f, p, how)
      BY <1>3, <2>1, <2>4, <3>1 DEF WakeParent, NextRound
    <3>5. Goes(ts, f) BY <2>2, <3>2, GoesTrans
    <3> QED BY <3>3, <3>4, <3>5, GoesTrans
  <2> QED BY <2>3, <2>4
<1> QED BY <1>2, <1>3

LEMMA ReportToParentGoes ==
  ASSUME NEW ts \in Threads, Kin(ts), NEW c \in Sub, ~ts[c].streaming,
         NEW failed \in BOOLEAN, NEW how \in ApiHow
  PROVE  Goes(ts, ReportToParent(ts, c, failed, how))
<1>1. PICK p : p = ts[c].parent OBVIOUS
<1>2. p \in Top \cup {NoThread} BY <1>1, Get, Fields DEF Thread
<1>3. CASE p = NoThread \/ ts[p].batch[c] = "absent"
  <2>1. Goes(ts, ts) BY DEF Goes
  <2> QED BY <1>1, <1>3, <2>1 DEF ReportToParent
<1>4. CASE ~(p = NoThread \/ ts[p].batch[c] = "absent")
  <2>1. PICK v : v = CASE ~failed -> "report"
                       [] failed /\ ts[c].failure -> "failed"
                       [] OTHER -> "cancelled"
    OBVIOUS
  <2>2. v \in {"report", "failed", "cancelled"} BY <2>1
  <2>3. p \in Top /\ p \in Thread /\ ts[p] \in ThreadType /\ c \in Thread /\ p # c
    BY <1>2, <1>4, Get, ThreadAssumption DEF Thread
  <2>4. ts[p].batch \in [Sub -> Entry] BY <2>3, Fields
  <2>5. PICK b : b = [ts[p].batch EXCEPT ![c] = v] OBVIOUS
  <2>6. b \in [Sub -> Entry] BY <2>2, <2>4, <2>5 DEF Entry
  <2>7. PICK r : r = [ts[p] EXCEPT !.batch = b] OBVIOUS
  <2>8. r \in ThreadType BY <2>3, <2>6, <2>7, Setters
  <2>9. r.batch = b /\ r.parent = ts[p].parent BY <2>3, <2>7 DEF ThreadType
  <2>10. PICK e : e = [ts EXCEPT ![p] = r] OBVIOUS
  <2>11. e \in Threads BY <2>3, <2>8, <2>10, Put
  <2>12. e[p] = r /\ \A u \in Thread : u # p => e[u] = ts[u] BY <2>3, <2>10 DEF Threads
  <2>13. \A d \in Sub : d # c => b[d] = ts[p].batch[d] BY <2>4, <2>5
  <2>14. b[c] # "empty" BY <2>2, <2>4, <2>5
  <2>15. \A d \in Sub : e[d] = ts[d] BY <2>3, <2>12, ThreadAssumption DEF Thread
  <2>16. Goes(ts, e) BY <2>9, <2>12, <2>13, <2>14, <2>15 DEF Goes
  <2>17. Goes(e, WakeParent(e, p, how)) BY <2>3, <2>11, <2>16, GoesKin, WakeParentGoes
  <2>18. e = [ts EXCEPT ![p].batch[c] = v] BY <2>3, <2>5, <2>7, <2>10
  <2>19. ReportToParent(ts, c, failed, how) = WakeParent(e, p, how)
    BY <1>1, <1>4, <2>1, <2>18 DEF ReportToParent
  <2> QED BY <2>16, <2>17, <2>19, GoesTrans
<1> QED BY <1>3, <1>4

LEMMA EndTurnGoes ==
  ASSUME NEW ts \in Threads, Kin(ts), NEW t \in Thread, NEW failed \in BOOLEAN,
         NEW how \in ApiHow \cup ClaudeHow, NEW phow \in ApiHow
  PROVE  Goes(ts, EndTurn(ts, t, failed, how, phow))
<1>1. PICK e : e = Finalized(ts, t) OBVIOUS
<1>2. e \in Threads /\ Goes(ts, e) /\ (t \in Sub => ~e[t].streaming)
  BY <1>1, FinalizedType, FinalizedGoes
<1>3. Kin(e) BY <1>2, GoesKin
<1>4. CASE t \in Sub
  <2>1. Goes(e, ReportToParent(e, t, failed, phow)) BY <1>2, <1>3, <1>4, ReportToParentGoes
  <2> QED BY <1>1, <1>2, <1>4, <2>1, GoesTrans DEF EndTurn
<1>5. CASE t \notin Sub /\ failed BY <1>1, <1>2, <1>5 DEF EndTurn
<1>6. CASE t \notin Sub /\ ~failed
  <2>1. t \in Top BY <1>6 DEF Thread
  <2>2. Goes(e, DispatchNextQueued(e, t, how)) BY <1>2, <2>1, DispatchGoes
  <2> QED BY <1>1, <1>2, <1>6, <2>2, GoesTrans DEF EndTurn
<1> QED BY <1>4, <1>5, <1>6

LEMMA ProceedGoes ==
  ASSUME NEW ts \in Threads, Kin(ts), NEW t \in Thread,
         t \in Top => ts[t].parent = NoThread,
         NEW how \in ApiHow \cup ClaudeHow, NEW phow \in ApiHow
  PROVE  Goes(ts, Proceed(ts, t, how, phow))
<1>1. PICK e : e = StartCompletion(ts, t, how) OBVIOUS
<1>2. e \in Threads /\ Goes(ts, e) /\ (t \in Sub /\ how \in Refusal => ~e[t].streaming)
  BY <1>1, StartCompletionType, StartCompletionGoes
<1>3. Kin(e) BY <1>2, GoesKin
<1>4. CASE how \notin Refusal BY <1>1, <1>2, <1>4 DEF Proceed
<1>5. CASE how \in Refusal /\ t \in Sub
  <2>1. PICK failed \in BOOLEAN : failed = TRUE OBVIOUS
  <2>2. Goes(e, ReportToParent(e, t, failed, phow)) BY <1>2, <1>3, <1>5, <2>1, ReportToParentGoes
  <2>3. Proceed(ts, t, how, phow) = ReportToParent(e, t, failed, phow)
    BY <1>1, <1>5, <2>1 DEF Proceed
  <2> QED BY <1>2, <2>2, <2>3, GoesTrans
<1>6. CASE how \in Refusal /\ t \notin Sub
  <2>1. e[t].parent = NoThread BY <1>2, <1>6 DEF Goes, Thread
  <2>2. Proceed(ts, t, how, phow) = e BY <1>1, <1>6, <2>1 DEF Proceed, ReportToParent
  <2> QED BY <1>2, <2>2
<1> QED BY <1>4, <1>5, <1>6

LEMMA OnToolBatchDoneGoes ==
  ASSUME NEW ts \in Threads, Kin(ts), NEW t \in Thread, t \in Top => ts[t].parent = NoThread,
         NEW how \in ApiHow, NEW phow \in ApiHow
  PROVE  Goes(ts, OnToolBatchDone(ts, t, how, phow))
<1>1. CASE ~BatchOver(ts, t)
  <2>1. Goes(ts, ts) BY DEF Goes
  <2> QED BY <1>1, <2>1 DEF OnToolBatchDone
<1>2. CASE BatchOver(ts, t)
  <2>1. PICK e : e = BatchRecorded(ts, t) OBVIOUS
  <2>2. e \in Threads /\ Goes(ts, e)
    BY <1>2, <2>1, BatchRecordedType, BatchRecordedGoes DEF BatchOver, HasRunningChild
  <2>3. Kin(e) BY <2>2, GoesKin
  <2>4. CASE ts[t].token = "cancelled"
    <3>1. PICK failed \in BOOLEAN : failed = TRUE OBVIOUS
    <3>2. Goes(e, EndTurn(e, t, failed, how, phow)) BY <2>2, <2>3, EndTurnGoes
    <3>3. OnToolBatchDone(ts, t, how, phow) = EndTurn(e, t, failed, how, phow)
      BY <1>2, <2>1, <2>4, <3>1 DEF OnToolBatchDone
    <3> QED BY <2>2, <3>2, <3>3, GoesTrans
  <2>5. CASE ts[t].token # "cancelled"
    <3>1. PICK f : f = [e EXCEPT ![t].round = e[t].round + 1] OBVIOUS
    <3>2. f \in Threads /\ Goes(e, f)
      <4>1. f = [BatchRecorded(ts, t) EXCEPT ![t].round = @ + 1] BY <2>1, <3>1
      <4>2. f \in Threads BY <4>1, NextRoundType
      <4> QED BY <2>2, <3>1, <4>2, FieldGoes
    <3>3. Goes(ts, f) /\ Kin(f) BY <2>2, <2>3, <3>2, GoesTrans, GoesKin
    <3>4. t \in Top => f[t].parent = NoThread BY <3>3 DEF Goes
    <3>5. Goes(f, Proceed(f, t, how, phow)) BY <3>2, <3>3, <3>4, ProceedGoes
    <3>6. OnToolBatchDone(ts, t, how, phow) = Proceed(f, t, how, phow)
      BY <1>2, <2>1, <2>5, <3>1 DEF OnToolBatchDone
    <3> QED BY <3>3, <3>5, <3>6, GoesTrans
  <2> QED BY <2>4, <2>5
<1> QED BY <1>1, <1>2

\* A step drops or fills an entry only when its subagent is done.
Complete(ts, us) ==
  \A t \in Thread, c \in Sub :
    ts[t].batch[c] = "empty" /\ us[t].batch[c] # "empty" => ~us[c].streaming

LEMMA GoesComplete ==
  ASSUME NEW ts, NEW us, Goes(ts, us)
  PROVE  Complete(ts, us)
BY DEF Goes, Complete

LEMMA SameComplete ==
  ASSUME NEW ts, NEW us, \A t \in Thread : us[t].batch = ts[t].batch
  PROVE  Complete(ts, us)
BY DEF Complete

\* Setting a field of one thread.
LEMMA FieldComplete ==
  ASSUME NEW ts \in Threads, NEW t \in Thread
  PROVE  /\ \A v : Complete(ts, [ts EXCEPT ![t].queue = v])
         /\ \A v : Complete(ts, [ts EXCEPT ![t].request = v])
         /\ \A v : Complete(ts, [ts EXCEPT ![t].proc = v])
         /\ \A v : Complete(ts, [ts EXCEPT ![t].result = v])
         /\ \A v : Complete(ts, [ts EXCEPT ![t].tools.state = v])
<1>1. ASSUME NEW r, r.batch = ts[t].batch PROVE Complete(ts, [ts EXCEPT ![t] = r])
  BY <1>1 DEF Complete, Threads
<1>2. ts[t] \in ThreadType BY Get
<1>3. \A v : Complete(ts, [ts EXCEPT ![t].queue = v]) BY <1>1, <1>2 DEF ThreadType
<1>4. \A v : Complete(ts, [ts EXCEPT ![t].request = v]) BY <1>1, <1>2 DEF ThreadType
<1>5. \A v : Complete(ts, [ts EXCEPT ![t].proc = v]) BY <1>1, <1>2 DEF ThreadType
<1>6. \A v : Complete(ts, [ts EXCEPT ![t].result = v]) BY <1>1, <1>2 DEF ThreadType
<1>7. \A v : Complete(ts, [ts EXCEPT ![t].tools.state = v])
  <2> SUFFICES ASSUME NEW v PROVE Complete(ts, [ts EXCEPT ![t].tools.state = v]) OBVIOUS
  <2>1. PICK w : w = [ts[t].tools EXCEPT !.state = v] OBVIOUS
  <2>2. [ts EXCEPT ![t].tools.state = v] = [ts EXCEPT ![t] = [ts[t] EXCEPT !.tools = w]] BY <2>1
  <2>3. [ts[t] EXCEPT !.tools = w].batch = ts[t].batch BY <1>2 DEF ThreadType
  <2> QED BY <1>1, <2>2, <2>3
<1> QED BY <1>3, <1>4, <1>5, <1>6, <1>7

\* Cancelling leaves every batch as it is.
LEMMA SignalBatch ==
  ASSUME NEW ts \in Threads, NEW S, NEW u \in Thread
  PROVE  Signal(ts, S)[u].batch = ts[u].batch
<1>1. ts[u] \in ThreadType BY Get
<1>2. Signalled(ts[u]).batch = ts[u].batch BY <1>1 DEF Signalled, ThreadType
<1> QED BY <1>2 DEF Signal

LEMMA CloseBatch ==
  ASSUME NEW ts \in Threads, Close(ts), NEW u \in Thread
  PROVE  thr'[u].batch = ts[u].batch
BY SignalBatch DEF Close, CancelAll

\* The user's moves.
LEMMA UserComplete ==
  ASSUME "play" \notin UserMay, TypeOK, Good(thr, mail, quit, {}), NEW t \in Thread, User(t)
  PROVE  Complete(thr, thr')
<1>1. thr \in Threads BY DEF Good
<1>2. Thread = Top \cup Sub /\ Top \cap Sub = {} BY ThreadAssumption DEF Thread
<1>3. CASE Send(t)
  <2>1. PICK how \in ApiHow \cup ClaudeHow : thr' = StartTurn(thr, t, how) /\ t \in Top
    BY <1>3 DEF Send
  <2> QED BY <1>1, <2>1, StartTurnGoes, GoesComplete
<1>4. CASE Enqueue(t)
  <2>1. thr' = [thr EXCEPT ![t].queue = thr[t].queue + 1] BY <1>4 DEF Enqueue
  <2> QED BY <1>1, <2>1, FieldComplete
<1>5. CASE Play(t)
  <2>1. t \in Top BY <1>2, <1>5 DEF Play
  <2>2. PICK how \in ApiHow \cup ClaudeHow, phow \in ApiHow :
          LET e == StartTurn(thr, t, how)
          IN  thr' = IF how \in Refusal THEN ReportToParent(e, t, TRUE, phow) ELSE e
    BY <1>5 DEF Play
  <2>3. PICK e : e = StartTurn(thr, t, how) OBVIOUS
  <2>4. Goes(thr, e) BY <1>1, <2>1, <2>3, StartTurnGoes
  <2>5. e[t].parent = NoThread BY <2>1, <2>4 DEF Goes, Good
  <2>6. thr' = e BY <2>2, <2>3, <2>5 DEF ReportToParent
  <2> QED BY <2>4, <2>6, GoesComplete
<1>6. CASE ContinueQueue(t)
  <2>1. PICK how \in ApiHow \cup ClaudeHow : thr' = DispatchNextQueued(thr, t, how)
    BY <1>6 DEF ContinueQueue
  <2>2. t \in Top
    <3>1. thr[t].queue # 0 BY <1>1, <1>6, TurnFields, Get DEF ContinueQueue
    <3> QED BY <1>2, <3>1 DEF Good, SubShape
  <2> QED BY <1>1, <2>1, <2>2, DispatchGoes, GoesComplete
<1>7. CASE ClearQueue(t)
  <2>1. thr' = [thr EXCEPT ![t].queue = 0] BY <1>7 DEF ClearQueue
  <2> QED BY <1>1, <2>1, FieldComplete
<1>8. CASE RemoveChip(t)
  <2>1. thr' = [thr EXCEPT ![t].queue = thr[t].queue - 1] BY <1>8 DEF RemoveChip
  <2> QED BY <1>1, <2>1, FieldComplete
<1>9. CASE Cancel(t)
  <2>1. thr' = Signal(thr, Reached(thr, t)) BY <1>9 DEF Cancel, RequestCancel
  <2> QED BY <1>1, <2>1, SignalBatch, SameComplete
<1> QED BY <1>3, <1>4, <1>5, <1>6, <1>7, <1>8, <1>9 DEF User

\* The workers, the lines of Claude's output that change no batch, and closing.
LEMMA QuietComplete ==
  ASSUME Good(thr, mail, quit, {}),
         \/ \E t \in Thread : Worker(t) \/ OnResult(t)
         \/ CloseWindow \/ DropStale \/ (CloseAgain /\ TypeOK)
  PROVE  Complete(thr, thr')
<1>1. thr \in Threads BY DEF Good
<1>2. ASSUME NEW t \in Thread, Worker(t) \/ OnResult(t) PROVE Complete(thr, thr')
  <2>1. CASE RequestEnds(t)
    <3>1. thr' = [thr EXCEPT ![t].request = RequestOff] BY <2>1 DEF RequestEnds
    <3> QED BY <1>1, <3>1, FieldComplete
  <2>2. CASE ToolsEnd(t)
    <3>1. thr' = [thr EXCEPT ![t].tools.state = "reported"] BY <2>2 DEF ToolsEnd
    <3> QED BY <1>1, <3>1, FieldComplete
  <2>3. CASE ClaudeSays(t)
    <3>1. thr' = thr BY <2>3 DEF ClaudeSays
    <3> QED BY <3>1, SameComplete
  <2>4. CASE ClaudeEnds(t)
    <3>1. thr' = [thr EXCEPT ![t].proc = ProcOff] BY <2>4 DEF ClaudeEnds
    <3> QED BY <1>1, <3>1, FieldComplete
  <2>5. CASE OnResult(t)
    <3>1. PICK v : thr' = [thr EXCEPT ![t].result = v] BY <2>5 DEF OnResult
    <3> QED BY <1>1, <3>1, FieldComplete
  <2> QED BY <1>2, <2>1, <2>2, <2>3, <2>4, <2>5 DEF Worker
<1>3. CASE CloseWindow
  <2>1. Close(thr) BY <1>3 DEF CloseWindow
  <2> QED BY <1>1, <2>1, CloseBatch, SameComplete
<1>4. CASE DropStale
  <2>1. thr' = thr BY <1>4 DEF DropStale
  <2> QED BY <2>1, SameComplete
<1>5. CASE CloseAgain /\ TypeOK
  <2>1. CASE Close(thr) BY <1>1, <2>1, CloseBatch, SameComplete
  <2>2. CASE mail # <<>> /\ Close([thr EXCEPT ![Head(mail).to].tools = ToolsOff])
    <3>1. PICK u : u = Head(mail).to OBVIOUS
    <3>2. u \in Thread BY <1>5, <2>2, <3>1, HeadCall DEF TypeOK
    <3>3. PICK r : r = [thr[u] EXCEPT !.tools = ToolsOff] OBVIOUS
    <3>4. thr[u] \in ThreadType BY <1>1, <3>2, Get
    <3>5. r \in ThreadType BY <3>3, <3>4, Setters, OffTypes
    <3>6. r.batch = thr[u].batch BY <3>3, <3>4 DEF ThreadType
    <3>7. PICK e : e = [thr EXCEPT ![u] = r] OBVIOUS
    <3>8. e \in Threads BY <1>1, <3>2, <3>5, <3>7, Put
    <3>9. \A x \in Thread : e[x].batch = thr[x].batch BY <1>1, <3>2, <3>6, <3>7 DEF Threads
    <3>10. Close(e) BY <2>2, <3>1, <3>3, <3>7
    <3>11. \A x \in Thread : thr'[x].batch = e[x].batch BY <3>8, <3>10, CloseBatch
    <3> QED BY <3>9, <3>11, SameComplete
  <2> QED BY <1>5, <2>1, <2>2 DEF CloseAgain, Take, TakeCall
<1> QED BY <1>2, <1>3, <1>4, <1>5

\* Between handlers every entry without a result is that of a running subagent.
LEMMA GoodKin ==
  ASSUME NEW ts, NEW ml, NEW q, Good(ts, ml, q, {})
  PROVE  Kin(ts) /\ \A t \in Top : ts[t].parent = NoThread
<1> SUFFICES ASSUME NEW t \in Thread, NEW c \in Sub, ts[t].batch[c] = "empty"
             PROVE  ts[c].open /\ ts[c].parent = t
  BY DEF Kin, Good
<1>1. t \in Top
  <2>1. CASE t \in Sub BY <2>1 DEF Good, SubShape, NoBatch
  <2> QED BY <2>1 DEF Thread
<1>2. ts[c].parent = t /\ ts[c].streaming BY <1>1 DEF Good, Open
<1>3. ts[c].streaming => ts[c].open BY DEF Good, Alone, Shape, Thread
<1> QED BY <1>2, <1>3

\* Replies: the ends of requests, of the tools and of Claude Code.
LEMMA ReplyComplete ==
  ASSUME Good(thr, mail, quit, {}), NEW t \in Thread,
         \/ OnCompletionCancelled(t) \/ OnCompletionFailed(t) \/ OnOverflow(t)
         \/ OnReply(t) \/ OnSummaryCancelled(t) \/ OnSummary(t)
         \/ OnToolsDone(t)
         \/ OnClaudeCancelled(t) \/ OnClaudeGone(t) \/ OnClaudeReply(t) \/ OnClaudeFailed(t)
  PROVE  Complete(thr, thr')
<1>1. thr \in Threads BY DEF Good
<1>2. Kin(thr) /\ \A u \in Top : thr[u].parent = NoThread BY GoodKin
<1>3. Goes(thr, thr) BY DEF Goes
<1>4. "nokey" \in ApiHow /\ ApiHow \subseteq ApiHow \cup ClaudeHow BY DEF ApiHow
<1>5. ASSUME NEW e \in Threads, Goes(thr, e)
      PROVE  Kin(e) /\ (t \in Top => e[t].parent = NoThread)
  BY <1>2, <1>5, GoesKin DEF Goes
<1>6. CASE OnCompletionCancelled(t)
  <2>1. PICK phow \in ApiHow :
          thr' = IF thr[t].streaming THEN EndTurn(thr, t, TRUE, "nokey", phow) ELSE thr
    BY <1>6 DEF OnCompletionCancelled
  <2>2. PICK failed \in BOOLEAN : failed = TRUE OBVIOUS
  <2>3. Goes(thr, EndTurn(thr, t, failed, "nokey", phow)) BY <1>1, <1>2, <1>4, EndTurnGoes
  <2> QED BY <1>3, <2>1, <2>2, <2>3, GoesComplete
<1>7. CASE OnCompletionFailed(t)
  <2>1. PICK phow \in ApiHow : thr' = EndTurn(Failed(thr, t), t, TRUE, "nokey", phow)
    BY <1>7 DEF OnCompletionFailed
  <2>2. PICK failed \in BOOLEAN : failed = TRUE OBVIOUS
  <2>e. PICK e : e = Failed(thr, t) OBVIOUS
  <2>3. e \in Threads /\ Goes(thr, e) BY <1>1, <2>e, FailedType, FieldGoes
  <2>4. Kin(e) BY <1>5, <2>3
  <2>5. Goes(e, EndTurn(e, t, failed, "nokey", phow)) BY <1>4, <2>3, <2>4, EndTurnGoes
  <2>6. Goes(thr, EndTurn(e, t, failed, "nokey", phow)) BY <2>3, <2>5, GoesTrans
  <2> QED BY <2>e, <2>1, <2>2, <2>6, GoesComplete
<1>8. CASE OnOverflow(t)
  <2>1. PICK phow \in ApiHow :
          LET e == [thr EXCEPT ![t].forced = TRUE]
          IN  thr' \in {SendSummary(e, t), Proceed(e, t, "nokey", phow)}
    BY <1>8 DEF OnOverflow
  <2>2. PICK e : e = [thr EXCEPT ![t].forced = TRUE] OBVIOUS
  <2>3. e \in Threads /\ Goes(thr, e) BY <1>1, <2>2, Get, Setters, Put, FieldGoes
  <2>4. Kin(e) /\ (t \in Top => e[t].parent = NoThread) BY <1>5, <2>3
  <2>5. Goes(e, SendSummary(e, t)) BY <2>3, SendSummaryGoes
  <2>6. Goes(e, Proceed(e, t, "nokey", phow)) BY <1>4, <2>3, <2>4, ProceedGoes
  <2>7. Goes(thr, SendSummary(e, t)) /\ Goes(thr, Proceed(e, t, "nokey", phow))
    BY <2>3, <2>5, <2>6, GoesTrans
  <2>8. thr' = SendSummary(e, t) \/ thr' = Proceed(e, t, "nokey", phow) BY <2>1, <2>2
  <2> QED BY <2>7, <2>8, GoesComplete
<1>9. CASE OnReply(t) \/ OnClaudeReply(t)
  <2>1. PICK how \in ApiHow \cup ClaudeHow, phow \in ApiHow :
          thr' = EndTurn(thr, t, FALSE, how, phow)
    BY <1>9 DEF OnReply, OnClaudeReply
  <2>2. PICK failed \in BOOLEAN : failed = FALSE OBVIOUS
  <2>3. Goes(thr, EndTurn(thr, t, failed, how, phow)) BY <1>1, <1>2, EndTurnGoes
  <2> QED BY <2>1, <2>2, <2>3, GoesComplete
<1>10. CASE OnSummaryCancelled(t)
  <2>1. PICK phow \in ApiHow :
          thr' = EndTurn([thr EXCEPT ![t].compacting = FALSE], t, TRUE, "nokey", phow)
    BY <1>10 DEF OnSummaryCancelled
  <2>2. PICK failed \in BOOLEAN : failed = TRUE OBVIOUS
  <2>e. PICK e : e = [thr EXCEPT ![t].compacting = FALSE] OBVIOUS
  <2>3. e \in Threads /\ Goes(thr, e) BY <1>1, <2>e, Get, Setters, Put, FieldGoes
  <2>4. Kin(e) BY <1>5, <2>3
  <2>5. Goes(e, EndTurn(e, t, failed, "nokey", phow)) BY <1>4, <2>3, <2>4, EndTurnGoes
  <2>6. Goes(thr, EndTurn(e, t, failed, "nokey", phow)) BY <2>3, <2>5, GoesTrans
  <2> QED BY <2>e, <2>1, <2>2, <2>6, GoesComplete
<1>11. CASE OnSummary(t)
  <2>1. PICK how \in {"completion", "nokey"}, phow \in ApiHow :
          thr' = Proceed([thr EXCEPT ![t].compacting = FALSE], t, how, phow)
    BY <1>11 DEF OnSummary
  <2>2. PICK e : e = [thr EXCEPT ![t].compacting = FALSE] OBVIOUS
  <2>3. e \in Threads /\ Goes(thr, e) BY <1>1, <2>2, Get, Setters, Put, FieldGoes
  <2>4. Kin(e) /\ (t \in Top => e[t].parent = NoThread) BY <1>5, <2>3
  <2>5. how \in ApiHow \cup ClaudeHow BY DEF ApiHow
  <2>6. Goes(e, Proceed(e, t, how, phow)) BY <2>3, <2>4, <2>5, ProceedGoes
  <2> QED BY <2>1, <2>2, <2>3, <2>6, GoesTrans, GoesComplete
<1>12. CASE OnToolsDone(t)
  <2>1. PICK how, phow \in ApiHow :
          thr' = OnToolBatchDone([thr EXCEPT ![t].tools = ToolsOff], t, how, phow)
    BY <1>12 DEF OnToolsDone
  <2>2. PICK e : e = [thr EXCEPT ![t].tools = ToolsOff] OBVIOUS
  <2>3. e \in Threads /\ Goes(thr, e) BY <1>1, <2>2, Get, Setters, OffTypes, Put, FieldGoes
  <2>4. Kin(e) /\ (t \in Top => e[t].parent = NoThread) BY <1>5, <2>3
  <2>5. Goes(e, OnToolBatchDone(e, t, how, phow)) BY <2>3, <2>4, OnToolBatchDoneGoes
  <2> QED BY <2>1, <2>2, <2>3, <2>5, GoesTrans, GoesComplete
<1>13. CASE OnClaudeCancelled(t)
  <2>1. thr' = Finalized(thr, t) BY <1>13 DEF OnClaudeCancelled
  <2> QED BY <1>1, <2>1, FinalizedGoes, GoesComplete
<1>14. ASSUME NEW e \in Threads, Goes(thr, e), thr' = Finalized(Failed(e, t), t)
       PROVE  Complete(thr, thr')
  <2>1. PICK f : f = Failed(e, t) OBVIOUS
  <2>2. f \in Threads /\ Goes(e, f) BY <2>1, FailedType, FieldGoes
  <2>3. Goes(f, Finalized(f, t)) BY <2>2, FinalizedGoes
  <2>4. Goes(thr, f) BY <1>14, <2>2, GoesTrans
  <2>5. Goes(thr, Finalized(f, t)) BY <2>3, <2>4, GoesTrans
  <2> QED BY <1>14, <2>1, <2>5, GoesComplete
<1>15. CASE OnClaudeFailed(t)
  <2>1. thr' = Finalized(Failed(thr, t), t) BY <1>15 DEF OnClaudeFailed
  <2> QED BY <1>1, <1>3, <1>14, <2>1
<1>16. CASE OnClaudeGone(t)
  <2>1. PICK e : e = [thr EXCEPT ![t].fresh = TRUE] OBVIOUS
  <2>2. e \in Threads /\ Goes(thr, e) BY <1>1, <2>1, Get, Setters, Put, FieldGoes
  <2>3. thr' = SpawnClaude(e, t, FALSE) \/ thr' = Finalized(Failed(e, t), t)
    BY <1>16, <2>1 DEF OnClaudeGone
  <2>4. CASE thr' = SpawnClaude(e, t, FALSE)
    <3>1. PICK resumed \in BOOLEAN : resumed = FALSE OBVIOUS
    <3>2. Goes(e, SpawnClaude(e, t, resumed)) BY <2>2, SpawnClaudeGoes
    <3>3. Goes(thr, SpawnClaude(e, t, resumed)) BY <2>2, <3>2, GoesTrans
    <3> QED BY <2>4, <3>1, <3>3, GoesComplete
  <2> QED BY <1>14, <2>2, <2>3, <2>4
<1> QED BY <1>6, <1>7, <1>8, <1>9, <1>10, <1>11, <1>12, <1>13, <1>15, <1>16

\* A subagent that opens has no batch.
LEMMA OpenComplete ==
  ASSUME TypeOK, Good(thr, mail, quit, {}), NEW t \in Thread,
         OnToolCalls(t) \/ OnAgentStarted(t) \/ OnAgentEnded(t)
  PROVE  Complete(thr, thr')
<1>1. thr \in Threads BY DEF Good
<1>2. Thread = Top \cup Sub /\ Top \cap Sub = {} BY ThreadAssumption DEF Thread
<1>3. \A c, d \in Sub : thr[c].batch[d] # "empty" BY DEF Good, SubShape, NoBatch
<1>4. CASE OnToolCalls(t)
  <2>1. PICK kids \in SUBSET {c \in Sub : ~thr[c].open}, how \in {"completion", "nokey"} :
          /\ t \in Sub => kids = {}
          /\ thr' = StartToolBatch(thr, t, kids, how)
    BY <1>4 DEF OnToolCalls
  <2>2. PICK us : us = StartToolBatch(thr, t, kids, how) OBVIOUS
  <2>3. t \notin kids /\ kids \in SUBSET Sub BY <1>2, <2>1
  <2>4. BatchStarted(thr, StartToolBatch(thr, t, kids, how), t, kids, how)
    BY <1>1, <2>1, <2>3, StartToolBatchIs
  <2>5. BatchStarted(thr, us, t, kids, how) BY <2>2, <2>4
  <2>6. \A c \in Sub : thr[t].batch[c] # "empty"
    <3>1. Found(thr, Head(mail)) /\ Head(mail).kind = "completion" /\ t = Head(mail).to /\ mail # <<>>
      BY <1>4 DEF OnToolCalls, Handle, Take, TakeCall
    <3>2. mail \in Seq(Call) BY DEF TypeOK
    <3>3. 1 \in DOMAIN mail /\ mail[1] = Head(mail) BY <3>1, <3>2
    <3>4. thr[t].token = "none"
      BY <3>1, <3>3 DEF Good, Alone, Calls, Heard, Found
    <3> QED BY <3>4 DEF Good, Alone, Shape, NoBatch
  <2>7. Complete(thr, us) BY <1>3, <2>3, <2>5, <2>6 DEF BatchStarted, Complete
  <2> QED BY <2>1, <2>2, <2>7
<1>5. CASE OnAgentStarted(t)
  <2>1. CASE thr' = thr BY <2>1, SameComplete
  <2>2. CASE \E c \in Sub : ~thr[c].open /\ thr' = [thr EXCEPT ![c] = Child(t)]
    <3>1. PICK c \in Sub : thr' = [thr EXCEPT ![c] = Child(t)] BY <2>2
    <3>2. \A u \in Thread : u # c => thr'[u] = thr[u] BY <1>1, <1>2, <3>1 DEF Threads
    <3> QED BY <1>3, <3>2 DEF Complete
  <2> QED BY <1>5, <2>1, <2>2 DEF OnAgentStarted
<1>6. CASE OnAgentEnded(t)
  <2>1. CASE thr' = thr BY <2>1, SameComplete
  <2>2. CASE \E kind \in {"agentOk", "agentFailed"},
                c \in RunningChildren(thr, t), phow \in ApiHow :
               thr' = EndTurn(IF kind = "agentOk" THEN thr ELSE Failed(thr, c), c,
                              kind = "agentFailed", "nokey", phow)
    <3>1. PICK kind \in {"agentOk", "agentFailed"},
               c \in RunningChildren(thr, t), phow \in ApiHow :
            thr' = EndTurn(IF kind = "agentOk" THEN thr ELSE Failed(thr, c), c,
                           kind = "agentFailed", "nokey", phow)
      BY <2>2
    <3>2. PICK e : e = IF kind = "agentOk" THEN thr ELSE Failed(thr, c) OBVIOUS
    <3>3. PICK failed \in BOOLEAN : failed = (kind = "agentFailed") OBVIOUS
    <3>4. c \in Thread BY <1>2 DEF RunningChildren, Children
    <3>5. Goes(thr, thr) BY DEF Goes
    <3>6. e \in Threads /\ Goes(thr, e) BY <1>1, <3>2, <3>4, <3>5, FailedType, FieldGoes
    <3>7. Kin(e) BY <3>6, GoodKin, GoesKin
    <3>8. "nokey" \in ApiHow \cup ClaudeHow BY DEF ApiHow
    <3>9. Goes(e, EndTurn(e, c, failed, "nokey", phow)) BY <3>4, <3>6, <3>7, <3>8, EndTurnGoes
    <3> QED BY <3>1, <3>2, <3>3, <3>6, <3>9, GoesTrans, GoesComplete
  <2> QED BY <1>6, <2>1, <2>2 DEF OnAgentEnded
<1> QED BY <1>4, <1>5, <1>6

\* BatchComplete holds: no step records or drops a batch while a subagent of it
\* without a result still runs.
THEOREM BatchCompleteCorrect ==
  ASSUME "play" \notin UserMay
  PROVE  Spec => BatchComplete
<1>1. ASSUME TypeOK, Good(thr, mail, quit, {}), [Next]_vars PROVE Complete(thr, thr')
  <2>1. CASE UNCHANGED vars
    <3>1. thr' = thr BY <2>1 DEF vars
    <3> QED BY <3>1, SameComplete
  <2>2. ASSUME NEW t \in Thread, User(t) PROVE Complete(thr, thr') BY <1>1, <2>2, UserComplete
  <2>3. ASSUME NEW t \in Thread, Worker(t) PROVE Complete(thr, thr') BY <1>1, <2>3, QuietComplete
  <2>4. CASE CloseWindow \/ DropStale \/ CloseAgain BY <1>1, <2>4, QuietComplete
  <2>5. ASSUME NEW t \in Thread, Callback(t) PROVE Complete(thr, thr')
    BY <1>1, <2>5, ReplyComplete, OpenComplete, QuietComplete DEF Callback
  <2> QED BY <1>1, <2>1, <2>2, <2>3, <2>4, <2>5 DEF Next, GuiThread
<1>2. ASSUME TypeOK, Good(thr, mail, quit, {}), TypeOK', Complete(thr, thr'),
             NEW t \in Thread, thr'[t].batch = NoBatch, NEW c \in Sub, thr[t].batch[c] = "empty"
      PROVE  thr'[c].streaming = FALSE /\ thr[c].streaming
  <2>1. ~thr'[c].streaming BY <1>2 DEF Complete, NoBatch
  <2>2. thr'[c].streaming \in BOOLEAN BY <1>2, Fields DEF TypeOK, Thread
  <2>3. t \in Top
    <3>1. CASE t \in Sub BY <1>2, <3>1 DEF Good, SubShape, NoBatch
    <3> QED BY <3>1 DEF Thread
  <2>4. thr[c].streaming BY <1>2, <2>3 DEF Good, Open
  <2> QED BY <2>1, <2>2, <2>4
<1>3. ASSUME TypeOK, Holds, [Next]_vars, TypeOK'
      PROVE  \A t \in Thread : thr[t].batch # NoBatch /\ thr'[t].batch = NoBatch =>
               \A c \in Sub : thr[t].batch[c] = "empty" =>
                 thr'[c].streaming = FALSE /\ thr[c].streaming
  BY <1>1, <1>2, <1>3 DEF Holds
<1>4. TypeOK /\ Holds /\ [Next]_vars /\ TypeOK' =>
        [\A t \in Thread : thr[t].batch # NoBatch /\ thr'[t].batch = NoBatch =>
           \A c \in Sub : thr[t].batch[c] = "empty" =>
             thr'[c].streaming = FALSE /\ thr[c].streaming]_vars
  BY <1>3
<1> QED BY <1>4, GoodCorrect, PTL DEF Spec, BatchComplete
=============================================================================
