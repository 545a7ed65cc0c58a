-------------------------------- MODULE Bash --------------------------------
(***************************************************************************)
(* One shell command of a tool worker: ToolBash (tools.cpp, POSIX), and    *)
(* ToolBashDirect, the variant of the Play button.  bash leads a process   *)
(* group; it may start a process in its group and one in a session of its  *)
(* own.  All of them may hold the output pipe, and those of the group may  *)
(* ignore SIGTERM.  Escape comes from the GUI thread at any time.          *)
(*                                                                         *)
(* Output is counted in chunks of one read.  Time is counted in turns of   *)
(* the worker's loop, of which it takes one or more.                       *)
(***************************************************************************)
EXTENDS Naturals, Sequences

CONSTANTS Timeout,   \* timeout_seconds
          Grace,     \* 500 ms from SIGTERM to SIGKILL
          PipeSize,  \* chunks the pipe holds
          MaxWrites  \* bound: chunks bash writes (the others write on and on)

ASSUME BashAssumption ==
  /\ Timeout \in Nat \ {0} /\ Grace \in Nat \ {0}
  /\ PipeSize \in Nat \ {0} /\ MaxWrites \in Nat

Group == {"bash", "kid"}
Procs == Group \cup {"daemon"}

VARIABLES
  at,         \* where the worker is
  proc,       \* the processes
  pipe,       \* who wrote the chunks in the pipe
  wrote,      \* chunks bash wrote
  got,        \* those of them that were read
  flags,      \* timedOut, sentTerm, sentKill, pipeEof; direct: which of the two tools it is
  elapsed,    \* time since the command started
  since,      \* time since SIGTERM
  cancelled,  \* ToolCancelToken::cancelled
  pgid,       \* ToolCancelToken::activePgid is set
  gui         \* RequestCancel: what it has loaded of activePgid

vars == <<at, proc, pipe, wrote, got, flags, elapsed, since, cancelled, pgid, gui>>

Off == [state |-> "none", holds |-> FALSE, deaf |-> FALSE]

Runs(p) == proc[p].state = "runs"
Writers == {p \in Procs : Runs(p) /\ proc[p].holds}

\* ToolBashDirect: no timeout, and no last SIGKILL.
Direct == flags.direct

Init ==
  /\ at = "start" /\ proc = [p \in Procs |-> Off] /\ pipe = <<>> /\ wrote = 0 /\ got = 0
  /\ flags \in [timedOut : {FALSE}, sentTerm : {FALSE}, sentKill : {FALSE}, pipeEof : {FALSE},
                direct : BOOLEAN]
  /\ elapsed = 0 /\ since = 0
  /\ cancelled = FALSE /\ pgid = FALSE /\ gui = "no"

-----------------------------------------------------------------------------
(* The processes.                                                          *)

Write(p) ==
  /\ at \notin {"close", "done"}
  /\ p \in Writers /\ Len(pipe) < PipeSize
  /\ pipe' = Append(pipe, p)
  /\ IF p = "bash" THEN wrote < MaxWrites /\ wrote' = wrote + 1 ELSE UNCHANGED wrote
  /\ UNCHANGED <<at, proc, got, flags, elapsed, since, cancelled, pgid, gui>>

\* `foo &`, `nohup foo >/dev/null &`, `setsid foo &`.
Fork(p) ==
  /\ p # "bash" /\ Runs("bash") /\ proc[p] = Off
  /\ \E holds, deaf \in BOOLEAN :
       proc' = [proc EXCEPT ![p] = [Off EXCEPT !.state = "runs", !.holds = holds, !.deaf = deaf]]
  /\ UNCHANGED <<at, pipe, wrote, got, flags, elapsed, since, cancelled, pgid, gui>>

Exits(p) ==
  /\ Runs(p) /\ proc' = [proc EXCEPT ![p].state = "ended"]
  /\ UNCHANGED <<at, pipe, wrote, got, flags, elapsed, since, cancelled, pgid, gui>>

\* kill(-pid, ...): SIGTERM ends those of the group that do not ignore it.
Terminated(ps) == [p \in Procs |->
  IF p \in Group /\ ps[p].state = "runs" /\ ~ps[p].deaf THEN [ps[p] EXCEPT !.state = "ended"] ELSE ps[p]]
Killed(ps) == [p \in Procs |->
  IF p \in Group /\ ps[p].state = "runs" THEN [ps[p] EXCEPT !.state = "ended"] ELSE ps[p]]

-----------------------------------------------------------------------------
(* The worker.                                                             *)

Spawn ==
  /\ at = "start" /\ UNCHANGED <<pipe, wrote, got, flags, elapsed, since, cancelled, pgid, gui>>
  /\ IF cancelled THEN at' = "done" /\ UNCHANGED proc
     ELSE /\ at' = "publish"
          /\ \E deaf \in BOOLEAN :
               proc' = [proc EXCEPT !["bash"] =
                          [Off EXCEPT !.state = "runs", !.holds = TRUE, !.deaf = deaf]]

Publish ==
  /\ at = "publish" /\ at' = "top" /\ pgid' = TRUE
  /\ UNCHANGED <<proc, pipe, wrote, got, flags, elapsed, since, cancelled, gui>>

Later(t, limit) == {n \in 0..limit : n > t \/ n = limit}

\* The head of the loop: timeout, Escape, and the escalation of either.
Top ==
  /\ at = "top" /\ at' = "poll"
  /\ \E e \in Later(elapsed, Timeout), s \in Later(since, Grace) :
       LET late == ~Direct /\ e >= Timeout
           term == ~flags.sentTerm /\ (late \/ cancelled)
           kill == flags.sentTerm /\ ~flags.sentKill /\ s >= Grace
       IN  /\ elapsed' = e
           /\ since' = IF flags.sentTerm THEN s ELSE 0
           /\ flags' = [flags EXCEPT !.timedOut = @ \/ (late /\ ~flags.sentTerm),
                                     !.sentTerm = @ \/ term, !.sentKill = @ \/ kill]
           /\ proc' = IF term THEN Terminated(proc) ELSE IF kill THEN Killed(proc) ELSE proc
  /\ UNCHANGED <<pipe, wrote, got, cancelled, pgid, gui>>

Taken == IF pipe # <<>> /\ Head(pipe) = "bash" THEN got + 1 ELSE got

\* poll() and one read(); EOF once every writer is gone.
Poll ==
  /\ at = "poll" /\ at' = "reap"
  /\ IF flags.pipeEof \/ pipe = <<>> THEN UNCHANGED <<pipe, got>>
     ELSE pipe' = Tail(pipe) /\ got' = Taken
  /\ flags' = [flags EXCEPT !.pipeEof = @ \/ (pipe = <<>> /\ Writers = {})]
  /\ UNCHANGED <<proc, wrote, elapsed, since, cancelled, pgid, gui>>

\* Slip: the loop waits for the end of the pipe as well as for bash.
ReapAtEof ==
  /\ at = "reap"
  /\ at' = IF Runs("bash") \/ ~flags.pipeEof THEN "top" ELSE "close"
  /\ UNCHANGED <<proc, pipe, wrote, got, flags, elapsed, since, cancelled, pgid, gui>>

\* Slip: what is still in the pipe is left there.
ReapAndClose ==
  /\ at = "reap"
  /\ at' = IF Runs("bash") THEN "top" ELSE "close"
  /\ UNCHANGED <<proc, pipe, wrote, got, flags, elapsed, since, cancelled, pgid, gui>>

\* waitpid(WNOHANG).
Reap ==
  /\ at = "reap"
  /\ at' = IF Runs("bash") THEN "top" ELSE IF flags.pipeEof THEN "close" ELSE "drain"
  /\ UNCHANGED <<proc, pipe, wrote, got, flags, elapsed, since, cancelled, pgid, gui>>

\* The last reads, until one finds nothing.
Drain ==
  /\ at = "drain"
  /\ IF pipe = <<>> THEN at' = "close" /\ UNCHANGED <<pipe, got>>
     ELSE pipe' = Tail(pipe) /\ got' = Taken /\ UNCHANGED at
  /\ UNCHANGED <<proc, wrote, flags, elapsed, since, cancelled, pgid, gui>>

\* Slip: the group is killed whatever ended the command.
CloseKilling ==
  /\ at = "close" /\ at' = "done" /\ pgid' = FALSE /\ pipe' = <<>>
  /\ proc' = Killed(proc)
  /\ UNCHANGED <<wrote, got, flags, elapsed, since, cancelled, gui>>

\* Slip: bash is gone, so its group is taken to be gone.
CloseTrusting ==
  /\ at = "close" /\ at' = "done" /\ pgid' = FALSE /\ pipe' = <<>>
  /\ UNCHANGED <<proc, wrote, got, flags, elapsed, since, cancelled, gui>>

Close ==
  /\ at = "close" /\ at' = "done" /\ pgid' = FALSE /\ pipe' = <<>>
  /\ proc' = IF flags.sentTerm /\ ~Direct THEN Killed(proc) ELSE proc
  /\ UNCHANGED <<wrote, got, flags, elapsed, since, cancelled, gui>>

Worker == Spawn \/ Publish \/ Top \/ Poll \/ Reap \/ Drain \/ Close

-----------------------------------------------------------------------------
(* Escape: RequestCancel, StopPlay.                                        *)

Cancel ==
  /\ ~cancelled /\ cancelled' = TRUE
  /\ gui' = IF pgid THEN "signal" ELSE "sent"
  /\ UNCHANGED <<at, proc, pipe, wrote, got, flags, elapsed, since, pgid>>

Signal ==
  /\ gui = "signal" /\ gui' = "sent" /\ proc' = Terminated(proc)
  /\ UNCHANGED <<at, pipe, wrote, got, flags, elapsed, since, cancelled, pgid>>

Next ==
  \/ Worker \/ Cancel \/ Signal
  \/ \E p \in Procs : Write(p) \/ Fork(p) \/ Exits(p)

Spec == Init /\ [][Next]_vars

\* The worker thread runs.  Nothing is assumed of the processes.
FairSpec == Spec /\ WF_vars(Worker)

-----------------------------------------------------------------------------
\* The worker, the processes and the token have the shape the code gives them.
TypeOK ==
  /\ at \in {"start", "publish", "top", "poll", "reap", "drain", "close", "done"}
  /\ proc \in [Procs -> [state : {"none", "runs", "ended"}, holds : BOOLEAN, deaf : BOOLEAN]]
  /\ pipe \in Seq(Procs) /\ Len(pipe) <= PipeSize
  /\ wrote \in 0..MaxWrites /\ got \in 0..MaxWrites
  /\ flags \in [timedOut : BOOLEAN, sentTerm : BOOLEAN, sentKill : BOOLEAN, pipeEof : BOOLEAN,
                direct : BOOLEAN]
  /\ elapsed \in 0..Timeout /\ since \in 0..Grace
  /\ cancelled \in BOOLEAN /\ pgid \in BOOLEAN /\ gui \in {"no", "signal", "sent"}

\* A command that ToolBash's loop itself stopped, for its time or for an Escape
\* that it saw while bash lived, leaves nothing of its group behind, not even a
\* process that ignores SIGTERM and outlives bash.
GroupGone == at = "done" /\ flags.sentTerm /\ ~Direct => \A p \in Group : ~Runs(p)

\* The comment at tools.cpp:306 says so of every Escape.  Not so when the
\* SIGTERM of RequestCancel ends bash before the loop sees the Escape: the loop
\* has sent nothing, and sends no SIGKILL either.
EscapeLeavesNothing ==
  [](cancelled /\ Runs("bash") /\ ~Direct => [](at = "done" => \A p \in Group : ~Runs(p)))

\* Everything bash wrote has been read when the tool returns, whoever else
\* holds the pipe.
OutputRead == at = "done" => got = wrote

\* The worker ends a process only after a timeout or Escape, and one that
\* ignores SIGTERM only after the grace or when bash is gone: what a command
\* leaves in the background on purpose survives it.
Signals ==
  [][\A p \in Procs : Worker /\ Runs(p) /\ proc'[p].state = "ended" =>
       /\ flags'.timedOut \/ cancelled
       /\ proc[p].deaf => since' >= Grace \/ ~Runs("bash")]_vars

\* The loop ends whatever the processes do: ignore signals, keep the pipe,
\* write on and on, or never end; ToolBashDirect's once it is stopped.  The
\* tool returns as well if those bash left behind do not write for ever.
Returns ==
  /\ ~Direct \/ cancelled ~> at \in {"drain", "close", "done"}
  /\ <>[][\A p \in Procs \ {"bash"} : ~Write(p)]_vars => (~Direct \/ cancelled ~> at = "done")

\* The comment at tools.cpp:358: "Once the direct child exits we drain whatever's
\* still queued and stop."  The last reads look at neither the time nor the
\* token, and one that writes as fast as they read keeps them going.
DrainStops == at = "drain" ~> at = "done"
=============================================================================
