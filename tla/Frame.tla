------------------------------- MODULE Frame -------------------------------
(***************************************************************************)
(* The main window around its threads: which one is shown, what its input  *)
(* and the canvas hold, and what the user is told of the others.          *)
(*                                                                         *)
(* Everything here happens on the GUI thread, one handler at a time. What  *)
(* makes it hard is who calls: the user, the MCP server, and the workers   *)
(* of turns and of project briefs, whose handlers also run inside the      *)
(* "save the file?" dialog that showing a thread of another folder opens.  *)
(*                                                                         *)
(* A text or image is known by the thread it was put in for, by the user   *)
(* or an MCP client. Turns are ThreadRuntime's, here they begin and end.   *)
(***************************************************************************)
EXTENDS Integers, Sequences, FiniteSets

CONSTANTS
    Folders,       \* working folders
    Home,          \* the folder of the thread the program starts with
    Away,          \* the folder of the saved thread that is not open yet
    Large,         \* threads whose history is drawn after a first paint
    Briefed,       \* folders that have a saved brief at the start
    Writes,        \* bound: threads the user writes, drops images and edits files in
    MaxThreads,    \* bound: threads, the saved one included
    MaxSends,      \* bound: messages sent to begin a turn (MaxQueue more to wait)
    MaxQueue,      \* kMaxQueue_
    MaxDialogs,    \* bound: save dialogs open one inside the other
    OpensInDialog  \* may a thread be opened while a save dialog is up?

ASSUME FrameAssumption ==
    /\ {Home, Away} \cup Briefed \subseteq Folders
    /\ MaxThreads \in Nat \ {0, 1}
    /\ Large \cup Writes \subseteq 1 .. MaxThreads
    /\ {MaxSends, MaxQueue, MaxDialogs} \subseteq Nat
    /\ OpensInDialog \in BOOLEAN

Ids  == 1 .. MaxThreads
Old  == 2                      \* the saved thread
None == 0
Texts == Ids \cup {None}

VARIABLES
    threads,   \* threads_, in the order they were opened
    active,    \* active_, an index into threads
    used,      \* ids handed out
    th,        \* what each thread holds
    input,     \* the text in the input
    images,    \* pendingImages_: none, or those the user put there
    sent,      \* messages sent, for the bound
    posted,    \* an OnSend that an MCP sendMessage has posted
    loading,   \* the canvas shows the placeholder of a large session
    dirty,     \* the editor holds unsaved text
    dialogs,   \* save dialogs, the innermost last, and what each holds up
    job,       \* BriefJob::running of each folder
    brief,     \* the folder has a saved brief
    display,   \* the thread list and the marks of the folders, as drawn
    owed       \* history: what the user has not been shown of each thread

vars == << threads, active, used, th, input, images, posted, sent, loading, dirty, dialogs,
           job, brief, display, owed >>

Thread == [cwd : Folders, parent : Texts, streaming : BOOLEAN, stop : BOOLEAN,
           begun : BOOLEAN, turns : Nat, unseen : BOOLEAN, notice : BOOLEAN,
           failed : Texts, prompt : Texts, draft : Texts, pics : Texts,
           queue : Seq(Texts), brief : BOOLEAN]

Open      == {threads[i] : i \in DOMAIN threads}
Exists    == active \in DOMAIN threads       \* Active() is defined
Active    == threads[active]
Started(t) == th[t].streaming \/ th[t].turns > 0
InDialog  == dialogs # <<>>

TypeOK ==
    /\ threads \in Seq(Ids) /\ active \in Ids /\ used \in Ids
    /\ th \in [Ids -> Thread]
    /\ input \in Texts /\ images \in Texts /\ posted \in BOOLEAN
    /\ loading \in BOOLEAN
    /\ dirty \in BOOLEAN
    /\ dialogs \in Seq([new : BOOLEAN, index : Ids])
    /\ job \in [Folders -> BOOLEAN] /\ brief \in [Folders -> BOOLEAN]
    /\ owed \in [Ids -> {"nothing", "end", "failure"}]
----------------------------------------------------------------------------
(* What the thread list and the folder dropdown say of thread t, given the *)
(* threads T, the shown one a and their data R.                            *)
RowState(R, a, t) ==
    IF R[t].streaming THEN "running"
    ELSE IF R[t].notice /\ t # a THEN "failed"
    ELSE IF R[t].unseen THEN "unseen" ELSE "done"

FolderRows(T, a, R) ==
    {[id |-> T[i], state |-> RowState(R, a, T[i])] : i \in {j \in DOMAIN T : R[T[j]].cwd = R[a].cwd}}

\* Slip: the mark of a folder tells running threads, not those that ended.
MarkRunning(T, a, R, f) ==
    LET others == {t \in {T[i] : i \in DOMAIN T} :
                     t # a /\ R[t].parent = None /\ R[t].cwd = f}
    IN  IF \E t \in others : R[t].notice THEN "failed"
        ELSE IF \E t \in others : R[t].streaming THEN "busy" ELSE "none"

Mark(T, a, R, f) ==
    LET others == {t \in {T[i] : i \in DOMAIN T} :
                     t # a /\ R[t].parent = None /\ R[t].cwd = f}
    IN  IF \E t \in others : R[t].notice THEN "failed"
        ELSE IF \E t \in others : R[t].streaming \/ R[t].unseen THEN "busy" ELSE "none"

RefreshSessionChoice(T, a, R) ==
    [rows |-> FolderRows(T, a, R), marks |-> [f \in Folders |-> Mark(T, a, R, f)]]

Unopened == [cwd |-> Home, parent |-> None, streaming |-> FALSE, stop |-> FALSE,
             begun |-> FALSE, turns |-> 0, unseen |-> FALSE, notice |-> FALSE,
             failed |-> None, prompt |-> None, draft |-> None, pics |-> None,
             queue |-> <<>>, brief |-> FALSE]

\* A thread as OpenThread leaves it: a saved one has its history, and the
\* system prompt of any has the folder's brief as it is now.
OpenThread(id, f, p) ==
    [Unopened EXCEPT !.cwd = f, !.parent = p, !.brief = brief[f],
                     !.turns = IF id = Old THEN 1 ELSE 0, !.begun = (id = Old)]

Init ==
    /\ threads = <<1>> /\ active = 1 /\ used = Old
    /\ brief = [f \in Folders |-> f \in Briefed] /\ job = [f \in Folders |-> FALSE]
    /\ th = [[t \in Ids |-> Unopened] EXCEPT ![1].brief = (Home \in Briefed)]
    /\ input = None /\ images = None /\ posted = FALSE /\ sent = 0
    /\ loading = (1 \in Large)
    /\ dirty = FALSE /\ dialogs = <<>>
    /\ display = RefreshSessionChoice(<<1>>, 1, th)
    /\ owed = [t \in Ids |-> "nothing"]
----------------------------------------------------------------------------
(* Showing a thread                                                        *)

\* Slip: only the images of the thread that is left stay with it.
LeavePics(R) == [R EXCEPT ![Active].pics = images]

\* ShowThread: the thread that is left keeps its draft.
Leave(R) == [R EXCEPT ![Active].draft = input, ![Active].pics = images]

\* ShowThread past its dialog, for the i-th of the threads T with data R. A
\* prompt that was rolled back in the background goes into an empty input. A
\* small history is drawn at once, with a failure notice that waits; of a
\* large one the placeholder is drawn.
Shows(T, R, i) ==
    LET t == T[i]
        Left == Leave(R)
        Seen == [Left EXCEPT ![t].draft = None, ![t].pics = None, ![t].failed = None,
                             ![t].unseen = FALSE, ![t].notice = @ /\ t \in Large]
    IN  /\ threads' = T /\ active' = i /\ th' = Seen
        /\ input' = IF Left[t].draft = None THEN Left[t].failed ELSE Left[t].draft
        /\ images' = Left[t].pics
        /\ loading' = (loading \/ t \in Large)
        /\ display' = RefreshSessionChoice(T, t, Seen)
        /\ owed' = [owed EXCEPT ![Active] = "nothing",
                                ![t] = IF @ = "failure" THEN @ ELSE "nothing"]

\* NewThread after its thread is shown: a folder without a brief gets one written.
WriteProjectBrief(f, new) ==
    job' = IF new /\ ~brief[f] THEN [job EXCEPT ![f] = TRUE] ELSE job

\* ShowThread for the i-th of T: another folder's thread first asks for the
\* editor's unsaved text. new: for NewThread.
ShowThread(T, R, i, new) ==
    LET other == R[T[i]].cwd # R[Active].cwd
    IN  \/ /\ i = active
           /\ threads' = T /\ th' = R
           /\ UNCHANGED << active, input, images, loading, dirty, dialogs, job, display, owed >>
        \/ /\ i # active /\ other /\ dirty
           /\ Len(dialogs) < MaxDialogs
           /\ threads' = T /\ th' = R
           /\ dialogs' = Append(dialogs, [new |-> new, index |-> i])
           /\ UNCHANGED << active, input, images, loading, dirty, job, display, owed >>
        \/ /\ i # active /\ ~(other /\ dirty)
           /\ Shows(T, R, i)
           /\ WriteProjectBrief(R[T[i]].cwd, new)
           /\ UNCHANGED << dirty, dialogs >>

MayOpen == used < MaxThreads /\ (OpensInDialog \/ ~InDialog)

NewThread(f) ==
    /\ MayOpen
    /\ used' = used + 1
    /\ ShowThread(Append(threads, used'), [th EXCEPT ![used'] = OpenThread(used', f, None)],
                  Len(threads) + 1, TRUE)
    /\ UNCHANGED << posted, sent, brief >>

\* SelectThread of an open thread, or of the saved one.
SelectThread(id) ==
    /\ \/ \E i \in DOMAIN threads : threads[i] = id /\ ShowThread(threads, th, i, FALSE)
       \/ /\ id = Old /\ id \notin Open
          /\ OpensInDialog \/ ~InDialog
          /\ ShowThread(Append(threads, id), [th EXCEPT ![id] = OpenThread(id, Away, None)],
                        Len(threads) + 1, FALSE)
    /\ UNCHANGED << used, posted, sent, brief >>

\* SwitchToCwd: the folder's most recently used thread. Times are to the
\* second and not modelled: any of them. A folder without one gets its first.
SwitchToCwd(f) ==
    LET mine == {t \in Open \cup {Old} :
                   (IF t \in Open THEN th[t].cwd = f ELSE f = Away) /\ th[t].parent = None}
    IN  IF mine # {} THEN \E t \in mine : SelectThread(t)
        ELSE /\ MayOpen
             /\ used' = used + 1
             /\ ShowThread(Append(threads, used'),
                           [th EXCEPT ![used'] = OpenThread(used', f, None)],
                           Len(threads) + 1, FALSE)
             /\ UNCHANGED << posted, sent, brief >>

\* The innermost dialog is answered. Saved or discarded: the thread is shown,
\* whatever is shown by now. Cancelled: a new thread is taken off the list,
\* which is the last one.
Answer(go) ==
    /\ InDialog
    /\ LET d == dialogs[Len(dialogs)]
       IN  /\ dialogs' = SubSeq(dialogs, 1, Len(dialogs) - 1)
           /\ \/ /\ go
                 /\ d.index \in DOMAIN threads
                 /\ dirty' = FALSE
                 /\ Shows(threads, th, d.index)
                 /\ WriteProjectBrief(th[threads[d.index]].cwd, d.new)
              \/ /\ ~go
                 /\ threads' = IF d.new THEN SubSeq(threads, 1, Len(threads) - 1) ELSE threads
                 /\ UNCHANGED << active, th, input, images, loading, dirty, job, display, owed >>
    /\ UNCHANGED << used, posted, sent, brief >>
----------------------------------------------------------------------------
(* Turns. A shown thread's failure goes on the loading, another's waits.    *)

\* Thread t with a turn for `text`.
StartTurn(R, t, text) ==
    [R EXCEPT ![t].streaming = TRUE, ![t].stop = FALSE, ![t].begun = TRUE,
              ![t].turns = @ + 1, ![t].prompt = text]

MayBegin == sent < MaxSends /\ sent' = sent + 1

\* EnqueueMessage: the images attached so far go with the message.
EnqueueMessage(text) ==
    /\ th[Active].streaming
    /\ sent < MaxSends + MaxQueue /\ sent' = sent + 1
    /\ Len(th[Active].queue) < MaxQueue
    /\ th' = [th EXCEPT ![Active].queue = Append(@, text)]
    /\ images' = None
    /\ UNCHANGED << display, owed >>

\* OnSend: the text goes into the queue of a busy thread, or into a turn.
OnSend ==
    /\ th[Active].parent = None
    /\ input # None \/ images # None
    /\ \/ EnqueueMessage(input)
       \/ /\ ~th[Active].streaming /\ MayBegin
          /\ th' = StartTurn(th, Active, input)
          /\ images' = None
          /\ display' = RefreshSessionChoice(threads, Active, th')
          /\ owed' = [owed EXCEPT ![Active] = "nothing"]
    /\ input' = None
    /\ UNCHANGED << threads, active, used, loading, dirty, dialogs, job, brief >>

\* FinalizeTurn before its subagents. A subagent that was cancelled in the
\* background says so until it is viewed.
Finalized(R, t, bad) ==
    [R EXCEPT ![t].streaming = FALSE, ![t].stop = FALSE, ![t].prompt = None,
              ![t].unseen = @ \/ (t # Active /\ R[t].parent = None /\ ~R[t].stop),
              ![t].notice = @ \/ (bad /\ t # Active /\ R[t].parent # None)]

\* ShowTurnFailure, with the roll-back of the turn that failed.
Failed(R, t, rollBack) ==
    [R EXCEPT ![t].turns = IF rollBack THEN @ - 1 ELSE @,
              ![t].notice = @ \/ t # Active,
              ![t].failed = IF t = Active THEN @ ELSE IF rollBack THEN R[t].prompt ELSE None]

\* FinishClaudeSubagent for each subagent of t that still runs.
Children(R, t) == {c \in Open : R[c].parent = t /\ R[c].streaming}
ChildrenEnd(R, t) ==
    [c \in Ids |-> IF c \in Children(R, t)
                   THEN Finalized(Failed(R, c, FALSE), c, TRUE)[c] ELSE R[c]]

\* The turn of t ends: "done", "stopped" (cancelled), "failed" or "error"
\* (failed, with and without a roll-back). Only "done" goes on with the queue.
TurnEnds(t, how) ==
    LET bad   == how # "done"
        fails == how \in {"failed", "error"}
        Shown == IF fails THEN Failed(th, t, how = "failed") ELSE th
        Ended == ChildrenEnd(Finalized(Shown, t, bad), t)
        next  == Ended[t].queue # <<>> /\ ~bad
        After == IF ~next THEN Ended
                 ELSE [StartTurn(Ended, t, Head(Ended[t].queue)) EXCEPT ![t].queue = Tail(@)]
    IN  /\ t \in Open /\ th[t].streaming
        /\ how = "stopped" => th[t].stop
        /\ how = "failed" => th[t].parent = None
        /\ th' = After
        /\ display' = RefreshSessionChoice(threads, Active, After)
        /\ owed' = [c \in Ids |->
                      IF \/ c \in Children(th, t) \/ (c = t /\ fails)
                         \/ c = t /\ bad /\ th[t].parent # None /\ t # Active THEN "failure"
                      ELSE IF /\ c = t /\ t # Active /\ th[t].parent = None /\ ~th[t].stop
                              /\ owed[c] = "nothing" THEN "end"
                      ELSE owed[c]]
        /\ UNCHANGED << threads, active, used, input, images, posted, sent, loading, dirty, dialogs,
                        job, brief >>

\* A turn of t opens a subagent.
OpenChild(t) ==
    /\ t \in Open /\ th[t].streaming /\ th[t].parent = None
    /\ MayOpen
    /\ used' = used + 1
    /\ threads' = Append(threads, used')
    /\ th' = StartTurn([th EXCEPT ![used'] = OpenThread(used', th[t].cwd, t)], used', used')
    /\ display' = RefreshSessionChoice(threads', Active, th')
    /\ UNCHANGED << active, input, images, posted, sent, loading, dirty, dialogs, job, brief, owed >>
----------------------------------------------------------------------------
(* The user at the window: not while a dialog is up.                       *)

Hidden == ~th[Active].streaming /\ th[Active].queue # <<>>   \* the input is swapped out
MayType == ~InDialog /\ ~Hidden /\ th[Active].parent = None

Type ==
    /\ MayType /\ Active \in Writes /\ input' = Active
    /\ UNCHANGED << threads, active, used, th, images, posted, sent, loading, dirty, dialogs, job,
                    brief, display, owed >>

\* AddDroppedFiles, TryPasteImage, and the cross on a thumbnail.
Attach ==
    /\ ~InDialog /\ Active \in Writes
    /\ images' = IF images = None THEN Active ELSE None
    /\ UNCHANGED << threads, active, used, th, input, posted, sent, loading, dirty, dialogs, job,
                    brief, display, owed >>

Send == MayType /\ OnSend /\ UNCHANGED posted

OnContinueQueue ==
    /\ ~InDialog /\ Hidden
    /\ th' = [StartTurn(th, Active, Head(th[Active].queue)) EXCEPT ![Active].queue = Tail(@)]
    /\ display' = RefreshSessionChoice(threads, Active, th')
    /\ owed' = [owed EXCEPT ![Active] = "nothing"]
    /\ UNCHANGED << threads, active, used, input, images, posted, sent, loading, dirty, dialogs,
                    job, brief >>

OnClearQueue ==
    /\ ~InDialog /\ Hidden
    /\ th' = [th EXCEPT ![Active].queue = <<>>]
    /\ UNCHANGED << threads, active, used, input, images, posted, sent, loading, dirty, dialogs,
                    job, brief, display, owed >>

\* Escape, MCP's cancelRequest, and Stop in the menu of the thread list:
\* RequestCancel of a thread. It reaches its subagents; of a subagent inside
\* its parent's Claude Code run, the parent.
RequestCancel(t) ==
    /\ t \in Open /\ th[t].streaming /\ ~th[t].stop
    /\ t = Active \/ (~InDialog /\ th[t].cwd = th[Active].cwd)
    /\ \E top \in {t, th[t].parent} \ {None} :
         th' = [c \in Ids |-> IF c = top \/ (c \in Open /\ th[c].parent = top)
                              THEN [th[c] EXCEPT !.stop = @ \/ th[c].streaming] ELSE th[c]]
    /\ UNCHANGED << threads, active, used, input, images, posted, sent, loading, dirty, dialogs,
                    job, brief, display, owed >>

EditFile ==
    /\ ~InDialog /\ Active \in Writes /\ dirty' = TRUE
    /\ UNCHANGED << threads, active, used, th, input, images, posted, sent, loading, dialogs, job,
                    brief, display, owed >>

\* The placeholder has been painted: RestoreSession draws the history, and
\* what the canvas held before is gone.
RestoreSession ==
    /\ loading /\ loading' = FALSE
    /\ th' = [th EXCEPT ![Active].notice = FALSE]
    /\ UNCHANGED << threads, active, used, input, images, posted, sent, dirty, dialogs, job,
                    brief, display, owed >>

\* threadPaneTimer_ redraws the list while one of its threads runs.
PaneTick ==
    /\ \E r \in display.rows : r.state = "running"
    /\ display' = [display EXCEPT !.rows = FolderRows(threads, Active, th)]
    /\ UNCHANGED << threads, active, used, th, input, images, posted, sent, loading, dirty, dialogs,
                    job, brief, owed >>
\* OnPlay in a folder without a run command: a turn that is to find one.
OnPlay ==
    /\ Len(dialogs) < 2 /\ Active \in Writes /\ ~th[Active].streaming /\ MayBegin
    /\ th' = StartTurn(th, Active, Active)
    /\ display' = RefreshSessionChoice(threads, Active, th')
    /\ owed' = [owed EXCEPT ![Active] = "nothing"]
    /\ UNCHANGED << threads, active, used, input, images, posted, loading, dirty, dialogs, job, brief >>

----------------------------------------------------------------------------
(* MCP. Its newThread, selectThread, switchSession, newSession and play    *)
(* are the user's, also inside a dialog; as calls come one at a time, none *)
(* while one of them waits in a second dialog.                             *)

SetInput ==
    /\ Len(dialogs) < 2 /\ Active \in Writes /\ input' = Active
    /\ UNCHANGED << threads, active, used, th, images, posted, sent, loading, dirty, dialogs, job,
                    brief, display, owed >>

McpSend ==
    /\ Len(dialogs) < 2 /\ ~posted /\ th[Active].parent = None
    /\ \/ EnqueueMessage(Active) /\ UNCHANGED << input, posted >>
       \/ /\ ~th[Active].streaming
          /\ input' = Active /\ posted' = TRUE
          /\ sent < MaxSends
          /\ UNCHANGED << th, images, sent, display, owed >>
    /\ UNCHANGED << threads, active, used, loading, dirty, dialogs, job, brief >>

\* The OnSend that sendMessage posted.
PostedSend ==
    /\ posted /\ posted' = FALSE
    /\ \/ OnSend
       \/ /\ \/ th[Active].parent # None
             \/ input = None /\ images = None
             \/ th[Active].streaming /\ Len(th[Active].queue) >= MaxQueue
          /\ UNCHANGED << threads, active, used, th, input, images, sent, loading, dirty,
                          dialogs, job, brief, display, owed >>
----------------------------------------------------------------------------
(* The project brief of a folder                                           *)

\* Slip: the brief is given to the shown thread only.
GivenToShown(f) ==
    [t \in Ids |-> IF t = Active /\ th[t].cwd = f /\ ~Started(t)
                   THEN [th[t] EXCEPT !.brief = TRUE] ELSE th[t]]

\* OnBriefWritten: the threads of the folder that have no turn yet get it.
Given(f) ==
    [t \in Ids |-> IF t \in Open /\ th[t].cwd = f /\ ~Started(t)
                   THEN [th[t] EXCEPT !.brief = TRUE] ELSE th[t]]

OnBriefWritten(f, ok) ==
    LET With   == IF ok THEN Given(f) ELSE th
        redraw == th[Active].cwd = f /\ ~Started(Active)
    IN  /\ job[f] /\ job' = [job EXCEPT ![f] = FALSE]
        /\ brief' = [brief EXCEPT ![f] = @ \/ ok]
        /\ th' = IF redraw THEN [With EXCEPT ![Active].notice = FALSE] ELSE With
        /\ UNCHANGED << threads, active, used, input, images, posted, sent, loading, dirty, dialogs,
                        display, owed >>
----------------------------------------------------------------------------
Show ==
    /\ Len(dialogs) < 2
    /\ \/ \E f \in Folders : NewThread(f) \/ SwitchToCwd(f)
       \/ \E t \in Ids : SelectThread(t)

UserNext ==
    \/ Type \/ Attach \/ Send \/ OnContinueQueue \/ OnClearQueue \/ EditFile
    \/ \E go \in BOOLEAN : Answer(go)

EventNext ==
    \/ PostedSend \/ RestoreSession \/ PaneTick
    \/ \E t \in Ids :
         \/ RequestCancel(t) \/ OpenChild(t)
         \/ \E how \in {"done", "stopped", "failed", "error"} : TurnEnds(t, how)
    \/ \E f \in Folders, ok \in BOOLEAN : OnBriefWritten(f, ok)

\* Once the list has lost the shown thread, nothing is defined any more.
Next == Exists /\ (UserNext \/ Show \/ OnPlay \/ SetInput \/ McpSend \/ EventNext)

Spec == Init /\ [][Next]_vars

----------------------------------------------------------------------------
Own(t) == {None, t}
Has(t) == th[t].draft = t \/ (Exists /\ t = Active /\ input = t)
HasPic(t) == th[t].pics = t \/ (Exists /\ t = Active /\ images = t)
Sent(t) == th[t]'.turns > th[t].turns \/ Len(th[t]'.queue) > Len(th[t].queue)

\* What the user put into the input of a thread is only ever sent or restored
\* there, and it leaves the input and the draft only by being sent (an MCP
\* client may put another text in its place, the user remove an image). A prompt
\* that was rolled back in the background is given up only for a text that is
\* already in the input. (OnSend, ShowThread, EnqueueMessage, FinalizeTurn,
\* through any interleaving with MCP calls and dialogs.)
TextsKept ==
    [][/\ \A t \in Ids :
            /\ th[t]' # th[t] =>
                 /\ {th[t]'.draft, th[t]'.failed, th[t]'.prompt, th[t]'.pics} \subseteq Own(t)
                 /\ \A i \in DOMAIN th[t]'.queue : th[t]'.queue[i] \in Own(t)
            /\ Has(t) => Has(t)' \/ Sent(t)
            /\ HasPic(t) => HasPic(t)' \/ Sent(t) \/ (UNCHANGED <<threads, active, th>>)
            /\ th[t].failed # None /\ th[t]'.failed = None => t = Active' /\ input' # None
       /\ input' \in Own(Active') /\ images' \in {None, Active'}]_<<threads, active, th, input, images>>

\* What ended or failed behind the user's back is marked in what is drawn,
\* until its thread is shown: in the list of the folder that is open, and in the
\* folder's mark; a failure as one. The shown thread is never marked.
\* (FinalizeTurn, ShowTurnFailure, FolderRows, RefreshSessionChoice.)
Attention ==
    Exists =>
    /\ \A t \in Open \ {Active} : owed[t] # "nothing" /\ ~th[t].streaming =>
         /\ th[t].cwd = th[Active].cwd =>
              \E r \in display.rows : /\ r.id = t
                                      /\ r.state \in {"failed"} \cup
                                           (IF owed[t] = "end" THEN {"unseen"} ELSE {})
         /\ th[t].parent = None => display.marks[th[t].cwd] # "none"
         /\ th[t].parent = None /\ owed[t] = "failure" => display.marks[th[t].cwd] = "failed"
    /\ \A r \in display.rows : r.id = Active => r.state \in {"running", "done"}

\* A thread whose first turn has not begun starts with its folder's brief,
\* whenever the brief was written. (OnBriefWritten, SeedSystemPrompt.)
BriefReachesNew ==
    \A t \in Open : brief[th[t].cwd] /\ ~th[t].begun => th[t].brief

\* NewThread's comment: "cancelled; nothing refers to it yet" of the thread it
\* takes off the list: it is not shown and has no turn. Not so when another was
\* opened while its dialog was up: that one is the last.
NothingRefersToIt ==
    [][Len(threads') < Len(threads) =>
         /\ active' # Len(threads)
         /\ ~th[threads[Len(threads)]].begun]_vars
=============================================================================
