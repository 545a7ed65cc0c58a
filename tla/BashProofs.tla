----------------------------- MODULE BashProofs -----------------------------
(***************************************************************************)
(* What the bash tool promises, proved for every timeout, grace, size of   *)
(* the pipe and amount of output: all that bash wrote is read, nothing of  *)
(* the group outlives a command that the loop has stopped, and the worker  *)
(* ends no process without a timeout or an Escape.                         *)
(*                                                                         *)
(* `Sound` is the inductive invariant.  Its core is a balance: what bash   *)
(* wrote has been read or is still in the pipe, and the pipe is empty when *)
(* the worker closes it.  That needs bash to hold the pipe as long as it   *)
(* runs, so that an end of file means that bash, and so every process that *)
(* could start another writer, is gone.                                    *)
(***************************************************************************)
EXTENDS Bash, FiniteSets, FunctionTheorems, FiniteSetTheorems, TLAPS

ProcType == [state : {"none", "runs", "ended"}, holds : BOOLEAN, deaf : BOOLEAN]
FlagType == [timedOut : BOOLEAN, sentTerm : BOOLEAN, sentKill : BOOLEAN, pipeEof : BOOLEAN,
             direct : BOOLEAN]

\* The places of bash's chunks in the pipe.
Own(s) == {i \in DOMAIN s : s[i] = "bash"}

\* TypeOK, but for the bound of `got`, which is a consequence of the balance.
Shaped ==
  /\ at \in {"start", "publish", "top", "poll", "reap", "drain", "close", "done"}
  /\ proc \in [Procs -> ProcType]
  /\ pipe \in Seq(Procs) /\ Len(pipe) <= PipeSize /\ wrote \in 0..MaxWrites /\ got \in Nat
  /\ flags \in FlagType
  /\ elapsed \in 0..Timeout /\ since \in 0..Grace
  /\ cancelled \in BOOLEAN /\ pgid \in BOOLEAN /\ gui \in {"no", "signal", "sent"}

\* Every chunk of bash was read or is in the pipe.
Balanced == got + Cardinality(Own(pipe)) = wrote

\* Before bash has started.
Fresh == at = "start" =>
  /\ pipe = <<>> /\ wrote = 0 /\ got = 0 /\ ~flags.pipeEof
  /\ \A p \in Procs : proc[p].state = "none"

\* bash holds the pipe, and the end of file is the end of all who do.
Ended ==
  /\ Runs("bash") => proc["bash"].holds
  /\ flags.pipeEof => pipe = <<>> /\ Writers = {}

\* The worker stops reading only after bash, and closes an empty pipe.
Closing ==
  /\ at \in {"drain", "close"} => ~Runs("bash")
  /\ at \in {"close", "done"} => pipe = <<>>

\* SIGTERM has its reason.
Reasoned ==
  /\ flags.sentTerm => flags.timedOut \/ cancelled
  /\ at \in {"start", "publish"} => ~flags.sentTerm

Gone == at = "done" /\ flags.sentTerm /\ ~Direct => \A p \in Group : ~Runs(p)

Sound == Shaped /\ Balanced /\ Fresh /\ Ended /\ Closing /\ Reasoned /\ Gone

-----------------------------------------------------------------------------
(* Counting bash's chunks.                                                 *)

LEMMA OwnFinite ==
  ASSUME NEW s \in Seq(Procs)
  PROVE  IsFiniteSet(Own(s)) /\ Cardinality(Own(s)) \in Nat
<1>1. IsFiniteSet(1..Len(s)) BY FS_Interval
<1>2. Own(s) \in SUBSET (1..Len(s)) BY DEF Own
<1> QED BY <1>1, <1>2, FS_Subset, FS_CardinalityType

LEMMA OwnEmpty == Cardinality(Own(<<>>)) = 0
<1>1. Own(<<>>) = {} BY DEF Own
<1> QED BY <1>1, FS_EmptySet

\* A chunk at the end counts if it is bash's.
LEMMA OwnAppend ==
  ASSUME NEW s \in Seq(Procs), NEW p \in Procs
  PROVE  Cardinality(Own(Append(s, p))) = Cardinality(Own(s)) + (IF p = "bash" THEN 1 ELSE 0)
<1>1. IsFiniteSet(Own(s)) /\ Cardinality(Own(s)) \in Nat BY OwnFinite
<1>2. DOMAIN Append(s, p) = (DOMAIN s) \cup {Len(s) + 1} /\ Len(s) + 1 \notin DOMAIN s OBVIOUS
<1>3. Append(s, p)[Len(s) + 1] = p /\ \A i \in DOMAIN s : Append(s, p)[i] = s[i] OBVIOUS
<1>4. CASE p = "bash"
  <2>1. Own(Append(s, p)) = Own(s) \cup {Len(s) + 1} BY <1>2, <1>3, <1>4 DEF Own
  <2>2. Len(s) + 1 \notin Own(s) BY <1>2 DEF Own
  <2> QED BY <1>1, <1>4, <2>1, <2>2, FS_AddElement
<1>5. CASE p # "bash"
  <2>1. Own(Append(s, p)) = Own(s) BY <1>2, <1>3, <1>5 DEF Own
  <2> QED BY <1>1, <1>5, <2>1
<1> QED BY <1>4, <1>5

\* Taking the first chunk moves the others up by one.
LEMMA OwnTail ==
  ASSUME NEW s \in Seq(Procs), s # <<>>
  PROVE  Cardinality(Own(Tail(s))) = Cardinality(Own(s)) - (IF Head(s) = "bash" THEN 1 ELSE 0)
<1> DEFINE Rest == Own(s) \ {1}
           Down == [i \in Rest |-> i - 1]
<1>1. IsFiniteSet(Own(s)) /\ Cardinality(Own(s)) \in Nat BY OwnFinite
<1>2. IsFiniteSet(Rest)
      /\ Cardinality(Rest) = IF 1 \in Own(s) THEN Cardinality(Own(s)) - 1 ELSE Cardinality(Own(s))
  BY <1>1, FS_RemoveElement
<1>3. 1 \in Own(s) <=> Head(s) = "bash" BY DEF Own
<1>4. Rest \subseteq 2..Len(s) BY DEF Own
<1>5. DOMAIN Tail(s) = 1..(Len(s) - 1) /\ \A i \in 1..(Len(s) - 1) : Tail(s)[i] = s[i + 1]
  OBVIOUS
<1>6. Down \in Bijection(Rest, Own(Tail(s)))
  <2>1. \A i \in Rest : Down[i] \in Own(Tail(s)) BY <1>4, <1>5 DEF Own
  <2>2. \A i, j \in Rest : Down[i] = Down[j] => i = j BY <1>4
  <2>3. \A k \in Own(Tail(s)) : \E i \in Rest : Down[i] = k
    <3> SUFFICES ASSUME NEW k \in Own(Tail(s)) PROVE \E i \in Rest : Down[i] = k OBVIOUS
    <3>1. k \in 1..(Len(s) - 1) /\ s[k + 1] = "bash" BY <1>5 DEF Own
    <3>2. k + 1 \in Rest BY <3>1 DEF Own
    <3>3. Down[k + 1] = k BY <3>1, <3>2
    <3> QED BY <3>2, <3>3
  <2>4. Down \in [Rest -> Own(Tail(s))] BY <2>1
  <2>5. Down \in Injection(Rest, Own(Tail(s))) BY <2>2, <2>4, Fun_IsInj
  <2>6. Down \in Surjection(Rest, Own(Tail(s))) BY <2>3, <2>4, Fun_IsSurj
  <2> QED BY <2>5, <2>6 DEF Bijection
<1>7. Cardinality(Own(Tail(s))) = Cardinality(Rest)
  <2>1. ExistsBijection(Rest, Own(Tail(s))) BY <1>6 DEF ExistsBijection
  <2> HIDE DEF Rest
  <2> QED BY <1>2, <2>1, FS_Bijection
<1> QED BY <1>1, <1>2, <1>3, <1>7

-----------------------------------------------------------------------------
(* Ending processes.                                                       *)

\* Some processes have ended, and nothing else changed about them.
Fewer(ps, qs) ==
  /\ qs \in [Procs -> ProcType]
  /\ \A p \in Procs :
       /\ qs[p].holds = ps[p].holds /\ qs[p].deaf = ps[p].deaf
       /\ qs[p].state = ps[p].state \/ (ps[p].state = "runs" /\ qs[p].state = "ended")

LEMMA EndOne ==
  ASSUME NEW r \in ProcType
  PROVE  LET s == [r EXCEPT !.state = "ended"]
         IN  /\ s \in ProcType /\ s.state = "ended"
             /\ s.holds = r.holds /\ s.deaf = r.deaf
BY DEF ProcType

\* SIGTERM spares who ignores it; SIGKILL leaves nobody of the group.
LEMMA Strikes ==
  ASSUME NEW ps \in [Procs -> ProcType]
  PROVE  /\ Fewer(ps, Terminated(ps))
         /\ \A p \in Procs : Terminated(ps)[p].state # ps[p].state => p \in Group /\ ~ps[p].deaf
         /\ Fewer(ps, Killed(ps))
         /\ \A p \in Procs : Killed(ps)[p].state # ps[p].state => p \in Group
         /\ \A p \in Group : Killed(ps)[p].state # "runs"
<1> DEFINE done(p) == [ps[p] EXCEPT !.state = "ended"]
<1>1. ASSUME NEW p \in Procs
      PROVE  Terminated(ps)[p] = IF p \in Group /\ ps[p].state = "runs" /\ ~ps[p].deaf
                                 THEN done(p) ELSE ps[p]
  BY DEF Terminated
<1>2. ASSUME NEW p \in Procs
      PROVE  Killed(ps)[p] = IF p \in Group /\ ps[p].state = "runs" THEN done(p) ELSE ps[p]
  BY DEF Killed
<1>3. ASSUME NEW p \in Procs
      PROVE  /\ ps[p] \in ProcType /\ done(p) \in ProcType /\ done(p).state = "ended"
             /\ done(p).holds = ps[p].holds /\ done(p).deaf = ps[p].deaf
  BY EndOne
<1> HIDE DEF done
<1>4. Fewer(ps, Terminated(ps))
  <2>1. Terminated(ps) \in [Procs -> ProcType]
    <3>1. \A p \in Procs : Terminated(ps)[p] \in ProcType BY <1>1, <1>3
    <3> QED BY <3>1 DEF Terminated
  <2> QED BY <1>1, <1>3, <2>1 DEF Fewer
<1>5. Fewer(ps, Killed(ps))
  <2>1. Killed(ps) \in [Procs -> ProcType]
    <3>1. \A p \in Procs : Killed(ps)[p] \in ProcType BY <1>2, <1>3
    <3> QED BY <3>1 DEF Killed
  <2> QED BY <1>2, <1>3, <2>1 DEF Fewer
<1>6. \A p \in Group : Killed(ps)[p].state # "runs"
  <2> SUFFICES ASSUME NEW p \in Group PROVE Killed(ps)[p].state # "runs" OBVIOUS
  <2>1. p \in Procs BY DEF Procs
  <2> QED BY <1>2, <1>3, <2>1
<1> QED BY <1>1, <1>2, <1>4, <1>5, <1>6

\* The parts of the invariant that ending processes keeps.
LEMMA FewerSound ==
  ASSUME Sound, Fewer(proc, proc'), pipe' = pipe, wrote' = wrote, got' = got
  PROVE  /\ Balanced'
         /\ flags'.pipeEof = flags.pipeEof => Ended'
         /\ \A p \in Procs : Runs(p)' => Runs(p)
         /\ \A p \in Procs : proc[p].state = "none" => proc'[p].state = "none"
<1>1. "bash" \in Procs BY DEF Procs, Group
<1>2. Balanced' BY DEF Sound, Balanced
<1>3. \A p \in Procs : Runs(p)' => Runs(p) BY DEF Fewer, Runs
<1>4. Writers' \subseteq Writers BY <1>3 DEF Writers, Fewer
<1>5. Runs("bash")' => proc'["bash"].holds BY <1>1, <1>3 DEF Sound, Ended, Fewer
<1>6. ASSUME flags'.pipeEof = flags.pipeEof, flags'.pipeEof PROVE pipe' = <<>> /\ Writers' = {}
  BY <1>4, <1>6 DEF Sound, Ended
<1>7. \A p \in Procs : proc[p].state = "none" => proc'[p].state = "none" BY DEF Fewer
<1> QED BY <1>2, <1>3, <1>5, <1>6, <1>7 DEF Ended

-----------------------------------------------------------------------------
(* The processes' own steps, and Escape.                                   *)

LEMMA InitSound == Init => Sound
<1> SUFFICES ASSUME Init PROVE Sound OBVIOUS
<1>1. Off \in ProcType /\ Off.state = "none" BY DEF Off, ProcType
<1>2. "bash" \in Procs BY DEF Procs, Group
<1>3. \A p \in Procs : proc[p] = Off BY DEF Init
<1>4. Shaped
  <2>1. proc \in [Procs -> ProcType] BY <1>1 DEF Init
  <2>2. flags \in FlagType BY DEF Init, FlagType
  <2>3. 0 \in 0..Timeout /\ 0 \in 0..Grace /\ 0 <= PipeSize /\ 0 \in 0..MaxWrites BY BashAssumption
  <2>4. pipe \in Seq(Procs) /\ Len(pipe) = 0 BY DEF Init
  <2> QED BY <2>1, <2>2, <2>3, <2>4 DEF Init, Shaped
<1>5. Balanced BY OwnEmpty DEF Init, Balanced
<1>6. Fresh /\ Ended /\ Closing /\ Reasoned /\ Gone
  BY <1>1, <1>2, <1>3 DEF Init, Fresh, Ended, Closing, Reasoned, Gone, Runs
<1> QED BY <1>4, <1>5, <1>6 DEF Sound

LEMMA WriteSound ==
  ASSUME Sound, NEW p \in Procs, Write(p)
  PROVE  Sound'
<1>1. /\ at' = at /\ proc' = proc /\ got' = got /\ flags' = flags /\ pipe' = Append(pipe, p)
      /\ at \notin {"close", "done"} /\ p \in Writers /\ Len(pipe) < PipeSize
      /\ cancelled' = cancelled
  BY DEF Write
<1>2. /\ proc \in [Procs -> ProcType] /\ pipe \in Seq(Procs) /\ got \in Nat
      /\ wrote \in 0..MaxWrites
  BY DEF Sound, Shaped
<1>3. wrote' = wrote + (IF p = "bash" THEN 1 ELSE 0) /\ wrote' \in 0..MaxWrites
  BY <1>2, BashAssumption DEF Write
<1>4. Writers' = Writers /\ (Runs("bash")' <=> Runs("bash")) BY <1>1 DEF Writers, Runs
<1>5. Shaped'
  <2>1. Append(pipe, p) \in Seq(Procs) /\ Len(Append(pipe, p)) = Len(pipe) + 1 BY <1>2
  <2>2. Len(Append(pipe, p)) <= PipeSize
    <3>1. Len(pipe) \in Nat BY <1>2
    <3> QED BY <1>1, <2>1, <3>1, BashAssumption
  <2> QED BY <1>1, <1>3, <2>1, <2>2 DEF Sound, Shaped, Write
<1>6. Balanced'
  <2>1. Cardinality(Own(pipe)) \in Nat BY <1>2, OwnFinite
  <2>2. got + Cardinality(Own(pipe)) = wrote BY DEF Sound, Balanced
  <2>3. Cardinality(Own(pipe')) = Cardinality(Own(pipe)) + (IF p = "bash" THEN 1 ELSE 0)
    BY <1>1, <1>2, OwnAppend
  <2> QED BY <1>1, <1>2, <1>3, <2>1, <2>2, <2>3 DEF Balanced
<1>7. Fresh'
  <2>1. at # "start" BY <1>1 DEF Sound, Fresh, Writers, Runs
  <2> QED BY <1>1, <2>1 DEF Fresh
<1>8. Ended'
  <2>1. ~flags.pipeEof BY <1>1 DEF Sound, Ended
  <2> QED BY <1>1, <1>4, <2>1 DEF Sound, Ended
<1>9. Closing' BY <1>1, <1>4 DEF Sound, Closing
<1>10. Reasoned' /\ Gone' BY <1>1 DEF Sound, Reasoned, Gone
<1> QED BY <1>5, <1>6, <1>7, <1>8, <1>9, <1>10 DEF Sound

\* A process that starts.
LEMMA Started ==
  ASSUME NEW holds \in BOOLEAN, NEW deaf \in BOOLEAN,
         NEW r, r = [[[Off EXCEPT !.state = "runs"] EXCEPT !.holds = holds] EXCEPT !.deaf = deaf]
  PROVE  r \in ProcType /\ r.holds = holds
<1>1. PICK a : a = [Off EXCEPT !.state = "runs"] OBVIOUS
<1>2. PICK b : b = [a EXCEPT !.holds = holds] OBVIOUS
<1>3. r = [b EXCEPT !.deaf = deaf] BY <1>1, <1>2
<1>4. Off \in ProcType BY DEF Off, ProcType
<1>5. a \in ProcType BY <1>1, <1>4 DEF ProcType
<1>6. b \in ProcType /\ b.holds = holds BY <1>2, <1>5 DEF ProcType
<1> QED BY <1>3, <1>6 DEF ProcType

LEMMA ForkSound ==
  ASSUME Sound, NEW p \in Procs, Fork(p)
  PROVE  Sound'
<1>1. /\ at' = at /\ wrote' = wrote /\ got' = got /\ flags' = flags /\ pipe' = pipe /\ p # "bash"
      /\ Runs("bash") /\ proc[p] = Off /\ cancelled' = cancelled
      /\ elapsed' = elapsed /\ since' = since /\ pgid' = pgid /\ gui' = gui
  BY DEF Fork
<1>2. "bash" \in Procs BY DEF Procs, Group
<1>3. proc \in [Procs -> ProcType] BY DEF Sound, Shaped
<1>4. PICK holds \in BOOLEAN, deaf \in BOOLEAN :
        proc' = [proc EXCEPT ![p] = [[[Off EXCEPT !.state = "runs"] EXCEPT !.holds = holds]
                                         EXCEPT !.deaf = deaf]]
  BY DEF Fork
<1>5. PICK r : r = [[[Off EXCEPT !.state = "runs"] EXCEPT !.holds = holds] EXCEPT !.deaf = deaf]
  OBVIOUS
<1>6. r \in ProcType BY <1>5, Started
<1>7. proc' \in [Procs -> ProcType] /\ \A q \in Procs : q # p => proc'[q] = proc[q]
  BY <1>3, <1>4, <1>5, <1>6
<1>8. proc'["bash"] = proc["bash"] BY <1>1, <1>2, <1>7
<1>9. Runs("bash")' <=> Runs("bash") BY <1>8 DEF Runs
<1>10. at # "start" BY <1>1, <1>2 DEF Sound, Fresh, Runs
<1>11. ~flags.pipeEof BY <1>1, <1>2 DEF Sound, Ended, Writers, Runs
<1>12. ~(at = "done" /\ flags.sentTerm /\ ~Direct) BY <1>1 DEF Sound, Gone, Group
<1>13. Shaped' BY <1>1, <1>7 DEF Sound, Shaped
<1>14. Balanced' BY <1>1, <1>8 DEF Sound, Balanced
<1>15. Fresh' /\ Gone' BY <1>1, <1>10, <1>12 DEF Fresh, Gone, Direct
<1>16. Ended' BY <1>1, <1>8, <1>9, <1>11 DEF Sound, Ended
<1>17. Closing' /\ Reasoned' BY <1>1, <1>9 DEF Sound, Closing, Reasoned
<1> QED BY <1>13, <1>14, <1>15, <1>16, <1>17 DEF Sound

\* A process that ends, by itself or by RequestCancel's signal.
LEMMA EndSound ==
  ASSUME Sound, Fewer(proc, proc'), gui' \in {"no", "signal", "sent"},
         UNCHANGED <<at, pipe, wrote, got, flags, elapsed, since, cancelled, pgid>>
  PROVE  Sound'
<1>1. Balanced' /\ Ended' BY FewerSound
<1>2. /\ \A p \in Procs : Runs(p)' => Runs(p)
      /\ \A p \in Procs : proc[p].state = "none" => proc'[p].state = "none"
  BY FewerSound
<1>3. Group \subseteq Procs /\ "bash" \in Procs BY DEF Procs, Group
<1>4. Shaped' BY DEF Sound, Shaped, Fewer
<1>5. Fresh' BY <1>2 DEF Sound, Fresh
<1>6. Closing' BY <1>2, <1>3 DEF Sound, Closing
<1>7. Reasoned' BY DEF Sound, Reasoned
<1>8. Gone' BY <1>2, <1>3 DEF Sound, Gone, Direct
<1> QED BY <1>1, <1>4, <1>5, <1>6, <1>7, <1>8 DEF Sound

LEMMA ExitsSound ==
  ASSUME Sound, NEW p \in Procs, Exits(p)
  PROVE  Sound'
<1>1. proc \in [Procs -> ProcType] /\ gui \in {"no", "signal", "sent"} BY DEF Sound, Shaped
<1>2. PICK r : r = [proc[p] EXCEPT !.state = "ended"] OBVIOUS
<1>3. r \in ProcType /\ r.state = "ended" /\ r.holds = proc[p].holds
      /\ r.deaf = proc[p].deaf
  BY <1>1, <1>2, EndOne
<1>4. proc' = [proc EXCEPT ![p] = r] /\ proc[p].state = "runs" BY <1>2 DEF Exits, Runs
<1>5. Fewer(proc, proc') BY <1>1, <1>3, <1>4 DEF Fewer
<1> QED BY <1>1, <1>5, EndSound DEF Exits

LEMMA SignalSound ==
  ASSUME Sound, Signal
  PROVE  Sound'
<1>1. proc \in [Procs -> ProcType] BY DEF Sound, Shaped
<1>2. Fewer(proc, proc') BY <1>1, Strikes DEF Signal
<1> QED BY <1>2, EndSound DEF Signal

LEMMA CancelSound ==
  ASSUME Sound, Cancel
  PROVE  Sound'
<1>1. UNCHANGED <<at, proc, pipe, wrote, got, flags, elapsed, since, pgid>> /\ cancelled' = TRUE
      /\ gui' \in {"no", "signal", "sent"}
  BY DEF Cancel
<1>2. Shaped' BY <1>1 DEF Sound, Shaped
<1>3. Runs("bash")' = Runs("bash") BY <1>1 DEF Runs
<1>4. \A p \in Group : Runs(p)' = Runs(p) BY <1>1 DEF Runs
<1>5. Writers' = Writers BY <1>1 DEF Writers, Runs
<1> QED BY <1>1, <1>2, <1>3, <1>4, <1>5
        DEF Sound, Balanced, Fresh, Ended, Closing, Reasoned, Gone, Direct

-----------------------------------------------------------------------------
(* The worker's steps.                                                     *)

LEMMA SpawnSound ==
  ASSUME Sound, Spawn
  PROVE  Sound'
<1>1. /\ at = "start"
      /\ UNCHANGED <<pipe, wrote, got, flags, elapsed, since, cancelled, pgid, gui>>
  BY DEF Spawn
<1>2. "bash" \in Procs /\ Group \subseteq Procs BY DEF Procs, Group
<1>3. proc \in [Procs -> ProcType] BY DEF Sound, Shaped
<1>4. /\ pipe = <<>> /\ wrote = 0 /\ got = 0 /\ ~flags.pipeEof /\ ~flags.sentTerm
      /\ \A p \in Procs : proc[p].state = "none"
  BY <1>1 DEF Sound, Fresh, Reasoned
<1>5. CASE at' = "done" /\ proc' = proc
  <2>1. Shaped' BY <1>1, <1>5 DEF Sound, Shaped
  <2>2. Balanced' BY <1>1, <1>5 DEF Sound, Balanced
  <2>3. Fresh' /\ Closing' /\ Reasoned' /\ Gone'
    BY <1>1, <1>4, <1>5 DEF Sound, Fresh, Closing, Reasoned, Gone
  <2>4. Ended'
    <3>1. ~Runs("bash")' BY <1>2, <1>4, <1>5 DEF Runs
    <3> QED BY <1>1, <1>4, <3>1 DEF Ended
  <2> QED BY <2>1, <2>2, <2>3, <2>4 DEF Sound
<1>6. CASE at' = "publish" /\ \E deaf \in BOOLEAN :
               proc' = [proc EXCEPT !["bash"] =
                          [Off EXCEPT !.state = "runs", !.holds = TRUE, !.deaf = deaf]]
  <2>1. PICK deaf \in BOOLEAN :
               proc' = [proc EXCEPT !["bash"] =
                          [Off EXCEPT !.state = "runs", !.holds = TRUE, !.deaf = deaf]]
    BY <1>6
  <2>2. PICK r : r = [[[Off EXCEPT !.state = "runs"] EXCEPT !.holds = TRUE] EXCEPT !.deaf = deaf]
    OBVIOUS
  <2>3. r \in ProcType /\ r.holds
    <3>1. PICK holds \in BOOLEAN : holds = TRUE OBVIOUS
    <3> QED BY <2>2, <3>1, Started
  <2>4. proc' = [proc EXCEPT !["bash"] = r] BY <2>1, <2>2
  <2>5. proc' \in [Procs -> ProcType] /\ proc'["bash"] = r BY <1>2, <1>3, <2>3, <2>4
  <2>6. Shaped' BY <1>1, <1>6, <2>5 DEF Sound, Shaped
  <2>7. Balanced' BY <1>1, <1>4, OwnEmpty DEF Balanced
  <2>8. Fresh' /\ Closing' /\ Reasoned' /\ Gone'
    BY <1>1, <1>4, <1>6 DEF Fresh, Closing, Reasoned, Gone
  <2>9. Ended' BY <1>1, <1>4, <2>3, <2>5 DEF Ended
  <2> QED BY <2>6, <2>7, <2>8, <2>9 DEF Sound
<1> QED BY <1>5, <1>6 DEF Spawn

\* A step that changes neither the processes nor the pipe.
LEMMA QuietSound ==
  ASSUME Sound, Publish \/ Reap
  PROVE  Sound'
<1>1. /\ UNCHANGED <<proc, pipe, wrote, got, flags, elapsed, since, cancelled, gui>>
      /\ at \notin {"start", "done"} /\ at' \notin {"start", "publish", "done"}
      /\ at' \in {"top", "close", "drain"} /\ pgid' \in BOOLEAN
  BY DEF Publish, Reap, Sound, Shaped
<1>2. Shaped' BY <1>1 DEF Sound, Shaped
<1>3. Balanced' BY <1>1 DEF Sound, Balanced
<1>4. Fresh' /\ Gone' BY <1>1 DEF Fresh, Gone
<1>5. Ended'
  <2>1. Writers' = Writers BY <1>1 DEF Writers, Runs
  <2>2. Runs("bash")' = Runs("bash") BY <1>1 DEF Runs
  <2> QED BY <1>1, <2>1, <2>2 DEF Sound, Ended
<1>6. Closing'
  <2>1. Runs("bash")' = Runs("bash") BY <1>1 DEF Runs
  <2>2. at' = "close" => flags.pipeEof BY DEF Publish, Reap
  <2>3. at' \in {"drain", "close"} => ~Runs("bash") BY DEF Publish, Reap
  <2> QED BY <1>1, <2>1, <2>2, <2>3 DEF Sound, Ended, Closing
<1>7. Reasoned' BY <1>1 DEF Sound, Reasoned
<1> QED BY <1>2, <1>3, <1>4, <1>5, <1>6, <1>7 DEF Sound

\* The head of the loop, which sends the signals.
LEMMA TopSound ==
  ASSUME Sound, Top
  PROVE  Sound'
<1>1. /\ at = "top" /\ at' = "poll"
      /\ UNCHANGED <<pipe, wrote, got, cancelled, pgid, gui>>
  BY DEF Top
<1>2. PICK e, s, late, term, kill :
        /\ e \in Later(elapsed, Timeout) /\ s \in Later(since, Grace)
        /\ term => late \/ cancelled
        /\ elapsed' = e /\ since' = IF flags.sentTerm THEN s ELSE 0
        /\ flags' = [flags EXCEPT !.timedOut = flags.timedOut \/ (late /\ ~flags.sentTerm),
                                  !.sentTerm = flags.sentTerm \/ term,
                                  !.sentKill = flags.sentKill \/ kill]
        /\ proc' = IF term THEN Terminated(proc) ELSE IF kill THEN Killed(proc) ELSE proc
        /\ term => ~flags.sentTerm
  BY DEF Top
<1>3. proc \in [Procs -> ProcType] /\ flags \in FlagType BY DEF Sound, Shaped
<1>4. Fewer(proc, proc')
  <2>1. Fewer(proc, proc) BY <1>3 DEF Fewer
  <2> QED BY <1>2, <1>3, <2>1, Strikes
<1>5. /\ flags' \in FlagType /\ flags'.pipeEof = flags.pipeEof
      /\ flags'.sentTerm => flags'.timedOut \/ cancelled
  <2>1. flags.sentTerm => flags.timedOut \/ cancelled BY DEF Sound, Reasoned
  <2>2. PICK a \in BOOLEAN, b \in BOOLEAN, c \in BOOLEAN :
          /\ a <=> flags.timedOut \/ (late /\ ~flags.sentTerm)
          /\ b <=> flags.sentTerm \/ term
          /\ flags' = [[[flags EXCEPT !.timedOut = a] EXCEPT !.sentTerm = b] EXCEPT !.sentKill = c]
    BY <1>2
  <2>3. flags' \in FlagType /\ flags'.pipeEof = flags.pipeEof
        /\ flags'.timedOut = a /\ flags'.sentTerm = b
    BY <1>3, <2>2 DEF FlagType
  <2> QED BY <1>2, <2>1, <2>2, <2>3
<1>6. Shaped'
  <2>1. elapsed' \in 0..Timeout BY <1>2 DEF Later
  <2>2. since' \in 0..Grace BY <1>2, BashAssumption DEF Later
  <2> QED BY <1>1, <1>4, <1>5, <2>1, <2>2 DEF Sound, Shaped, Fewer
<1>7. Balanced' /\ Ended' BY <1>1, <1>4, <1>5, FewerSound
<1>8. Fresh' /\ Closing' /\ Gone' BY <1>1 DEF Fresh, Closing, Gone
<1>9. Reasoned' BY <1>1, <1>5 DEF Reasoned
<1> QED BY <1>6, <1>7, <1>8, <1>9 DEF Sound

\* One chunk is read, and counted if it is bash's.
LEMMA ReadBalanced ==
  ASSUME Sound, pipe # <<>>, pipe' = Tail(pipe), got' = Taken, wrote' = wrote
  PROVE  Balanced' /\ got' \in Nat /\ pipe' \in Seq(Procs) /\ Len(pipe') <= PipeSize
<1>1. pipe \in Seq(Procs) /\ got \in Nat /\ Len(pipe) <= PipeSize BY DEF Sound, Shaped
<1>2. Cardinality(Own(pipe)) \in Nat BY <1>1, OwnFinite
<1>3. Cardinality(Own(pipe')) = Cardinality(Own(pipe)) - (IF Head(pipe) = "bash" THEN 1 ELSE 0)
  BY <1>1, OwnTail
<1>4. got' = got + (IF Head(pipe) = "bash" THEN 1 ELSE 0) BY <1>1 DEF Taken
<1>5. got + Cardinality(Own(pipe)) = wrote BY DEF Sound, Balanced
<1>6. Balanced' BY <1>1, <1>2, <1>3, <1>4, <1>5 DEF Balanced
<1>7. pipe' \in Seq(Procs) /\ Len(pipe') <= PipeSize
  <2>1. Len(pipe) \in Nat /\ Tail(pipe) \in Seq(Procs) /\ Len(Tail(pipe)) = Len(pipe) - 1 BY <1>1
  <2> QED BY <1>1, <2>1, BashAssumption
<1> QED BY <1>1, <1>4, <1>6, <1>7

LEMMA PollSound ==
  ASSUME Sound, Poll
  PROVE  Sound'
<1>1. /\ at = "poll" /\ at' = "reap"
      /\ UNCHANGED <<proc, wrote, elapsed, since, cancelled, pgid, gui>>
  BY DEF Poll
<1>2. flags \in FlagType /\ got \in Nat /\ pipe \in Seq(Procs) /\ Len(pipe) <= PipeSize
  BY DEF Sound, Shaped
<1>3. PICK b \in BOOLEAN : /\ b <=> flags.pipeEof \/ (pipe = <<>> /\ Writers = {})
                           /\ flags' = [flags EXCEPT !.pipeEof = b]
  BY DEF Poll
<1>4. /\ flags' \in FlagType /\ flags'.pipeEof = b
      /\ flags'.sentTerm = flags.sentTerm /\ flags'.timedOut = flags.timedOut
  BY <1>2, <1>3 DEF FlagType
<1>5. Balanced' /\ got' \in Nat /\ pipe' \in Seq(Procs) /\ Len(pipe') <= PipeSize
      /\ (pipe = <<>> => pipe' = <<>>)
  <2>1. CASE flags.pipeEof \/ pipe = <<>>
    BY <1>1, <1>2, <2>1 DEF Poll, Sound, Balanced
  <2>2. CASE ~(flags.pipeEof \/ pipe = <<>>)
    BY <1>1, <2>2, ReadBalanced DEF Poll
  <2> QED BY <2>1, <2>2
<1>6. Shaped' BY <1>1, <1>4, <1>5 DEF Sound, Shaped
<1>7. Fresh' /\ Closing' /\ Gone' BY <1>1 DEF Fresh, Closing, Gone
<1>8. Ended'
  <2>1. Writers' = Writers BY <1>1 DEF Writers, Runs
  <2>2. Runs("bash")' = Runs("bash") BY <1>1 DEF Runs
  <2> QED BY <1>1, <1>3, <1>4, <1>5, <2>1, <2>2 DEF Sound, Ended
<1>9. Reasoned' BY <1>1, <1>4 DEF Sound, Reasoned
<1> QED BY <1>5, <1>6, <1>7, <1>8, <1>9 DEF Sound

LEMMA DrainSound ==
  ASSUME Sound, Drain
  PROVE  Sound'
<1>1. /\ at = "drain" /\ at' \in {"drain", "close"}
      /\ UNCHANGED <<proc, wrote, flags, elapsed, since, cancelled, pgid, gui>>
      /\ at' = "close" => pipe' = <<>>
  BY DEF Drain
<1>2. Balanced' /\ got' \in Nat /\ pipe' \in Seq(Procs) /\ Len(pipe') <= PipeSize
      /\ (pipe = <<>> => pipe' = <<>>)
  <2>1. CASE pipe = <<>>
    <3>1. pipe' = pipe /\ got' = got BY <2>1 DEF Drain
    <3> QED BY <1>1, <2>1, <3>1 DEF Sound, Balanced, Shaped
  <2>2. CASE pipe # <<>> BY <1>1, <2>2, ReadBalanced DEF Drain
  <2> QED BY <2>1, <2>2
<1>3. Shaped' BY <1>1, <1>2 DEF Sound, Shaped
<1>4. Runs("bash")' = Runs("bash") /\ Writers' = Writers BY <1>1 DEF Writers, Runs
<1>5. Fresh' /\ Gone' /\ Reasoned' BY <1>1 DEF Fresh, Gone, Sound, Reasoned
<1>6. Ended' BY <1>1, <1>2, <1>4 DEF Sound, Ended
<1>7. Closing' BY <1>1, <1>4 DEF Sound, Closing
<1> QED BY <1>2, <1>3, <1>5, <1>6, <1>7 DEF Sound

LEMMA CloseSound ==
  ASSUME Sound, Close
  PROVE  Sound'
<1>1. /\ at = "close" /\ at' = "done" /\ pgid' = FALSE /\ pipe' = <<>>
      /\ UNCHANGED <<wrote, got, flags, elapsed, since, cancelled, gui>>
      /\ proc' = IF flags.sentTerm /\ ~Direct THEN Killed(proc) ELSE proc
  BY DEF Close
<1>2. proc \in [Procs -> ProcType] BY DEF Sound, Shaped
<1>3. pipe = <<>> BY <1>1 DEF Sound, Closing
<1>4. Fewer(proc, proc')
  <2>1. Fewer(proc, proc) BY <1>2 DEF Fewer
  <2> QED BY <1>1, <1>2, <2>1, Strikes
<1>5. Balanced' /\ Ended' BY <1>1, <1>3, <1>4, FewerSound
<1>6. Shaped' BY <1>1, <1>3, <1>4 DEF Sound, Shaped, Fewer
<1>7. Fresh' /\ Closing' BY <1>1 DEF Fresh, Closing
<1>8. Reasoned' BY <1>1 DEF Sound, Reasoned
<1>9. Gone' BY <1>1, <1>2, Strikes DEF Gone, Runs, Direct
<1> QED BY <1>5, <1>6, <1>7, <1>8, <1>9 DEF Sound

-----------------------------------------------------------------------------
(* The specification.                                                      *)

LEMMA NextSound == Sound /\ [Next]_vars => Sound'
<1> SUFFICES ASSUME Sound, [Next]_vars PROVE Sound' OBVIOUS
<1>1. CASE Worker
  BY <1>1, SpawnSound, QuietSound, TopSound, PollSound, DrainSound, CloseSound DEF Worker
<1>2. CASE Cancel \/ Signal BY <1>2, CancelSound, SignalSound
<1>3. ASSUME NEW p \in Procs, Write(p) \/ Fork(p) \/ Exits(p) PROVE Sound'
  BY <1>3, WriteSound, ForkSound, ExitsSound
<1>4. CASE UNCHANGED vars
  BY <1>4 DEF vars, Sound, Shaped, Balanced, Fresh, Ended, Closing, Reasoned, Gone, Writers, Runs,
             Direct
<1> QED BY <1>1, <1>2, <1>3, <1>4 DEF Next

\* The inductive invariant holds in every state: a command of the bash tool can
\* be in no other.
THEOREM SoundCorrect == Spec => []Sound
BY InitSound, NextSound, PTL DEF Spec

\* TypeOK holds: no more is read than was written.
THEOREM TypeCorrect == Spec => []TypeOK
<1>1. Sound => TypeOK
  <2> SUFFICES ASSUME Sound PROVE TypeOK OBVIOUS
  <2>1. Cardinality(Own(pipe)) \in Nat BY OwnFinite DEF Sound, Shaped
  <2>2. got \in 0..MaxWrites BY <2>1, BashAssumption DEF Sound, Shaped, Balanced
  <2> QED BY <2>2 DEF Sound, Shaped, TypeOK, ProcType, FlagType
<1> QED BY <1>1, SoundCorrect, PTL

\* OutputRead holds: when the tool returns it has read every chunk bash wrote,
\* however small the pipe and whoever else holds it.
THEOREM OutputReadCorrect == Spec => []OutputRead
<1>1. Sound => OutputRead
  <2> SUFFICES ASSUME Sound, at = "done" PROVE got = wrote BY DEF OutputRead
  <2>1. pipe = <<>> BY DEF Sound, Closing
  <2>2. got + 0 = wrote BY <2>1, OwnEmpty DEF Sound, Balanced
  <2> QED BY <2>2 DEF Sound, Shaped
<1> QED BY <1>1, SoundCorrect, PTL

\* GroupGone holds: once ToolBash's loop has sent SIGTERM, for a timeout or for an
\* Escape it saw while bash lived, nothing of the group runs when the tool
\* returns, and nothing of it can start again.  (An Escape whose own signal ends
\* bash first is not among these, and ToolBashDirect sends no last SIGKILL: both
\* promise less.)
THEOREM GroupGoneCorrect == Spec => []GroupGone
<1>1. Sound => GroupGone BY DEF Sound, Gone, GroupGone
<1> QED BY <1>1, SoundCorrect, PTL

\* Signals holds: the worker ends a process only after a timeout or Escape, and
\* one that ignores SIGTERM only after the grace or when bash is gone.
THEOREM SignalsCorrect == Spec => Signals
<1>1. ASSUME Sound, Sound', [Next]_vars, Worker, NEW p \in Procs, Runs(p), proc'[p].state = "ended"
      PROVE  /\ flags'.timedOut \/ cancelled
             /\ proc[p].deaf => since' >= Grace \/ ~Runs("bash")
  <2>1. proc \in [Procs -> ProcType] /\ flags \in FlagType /\ proc[p].state = "runs"
    BY <1>1 DEF Sound, Shaped, Runs
  <2>2. proc'[p] # proc[p] BY <1>1, <2>1
  <2>3. CASE Spawn
    <3>1. \A q \in Procs : proc[q].state = "none" BY <2>3 , <1>1 DEF Sound, Fresh, Spawn
    <3> QED BY <2>1, <3>1
  <2>4. CASE Top
    <3>1. PICK s, term, kill :
            /\ kill => flags.sentTerm /\ s >= Grace
            /\ since' = IF flags.sentTerm THEN s ELSE 0
            /\ proc' = IF term THEN Terminated(proc) ELSE IF kill THEN Killed(proc) ELSE proc
            /\ term \/ kill => flags'.sentTerm
      <4>1. flags' = [flags EXCEPT !.timedOut = flags'.timedOut, !.sentTerm = flags'.sentTerm,
                                   !.sentKill = flags'.sentKill]
        BY <2>1, <2>4 DEF Top, FlagType
      <4> QED BY <2>1, <2>4, <4>1 DEF Top, FlagType
    <3>2. flags'.sentTerm BY <2>2, <3>1
    <3>3. flags'.timedOut \/ cancelled
      <4>1. cancelled' = cancelled BY <2>4 DEF Top
      <4> QED BY <1>1, <3>2, <4>1 DEF Sound, Reasoned
    <3>4. ASSUME proc[p].deaf PROVE since' >= Grace
      <4>1. ~term
        <5> SUFFICES ASSUME term PROVE FALSE OBVIOUS
        <5>1. proc'[p] = Terminated(proc)[p] BY <3>1
        <5> QED BY <1>1, <2>1, <3>4, <5>1, Strikes
      <4>2. kill BY <2>2, <3>1, <4>1
      <4> QED BY <3>1, <4>2
    <3> QED BY <3>3, <3>4
  <2>5. CASE Close
    <3>1. flags.sentTerm /\ flags' = flags BY <2>2, <2>5 DEF Close
    <3>2. ~Runs("bash") BY <1>1, <2>5 DEF Close, Sound, Closing
    <3> QED BY <1>1, <3>1, <3>2 DEF Sound, Reasoned
  <2>6. CASE Publish \/ Poll \/ Reap \/ Drain
    BY <2>2, <2>6 DEF Publish, Poll, Reap, Drain
  <2> QED BY <1>1, <2>3, <2>4, <2>5, <2>6 DEF Worker
<1>2. Sound /\ Sound' /\ [Next]_vars =>
        [\A p \in Procs : Worker /\ Runs(p) /\ proc'[p].state = "ended" =>
           /\ flags'.timedOut \/ cancelled
           /\ proc[p].deaf => since' >= Grace \/ ~Runs("bash")]_vars
  BY <1>1
<1> QED BY <1>2, SoundCorrect, PTL DEF Spec, Signals
=============================================================================
