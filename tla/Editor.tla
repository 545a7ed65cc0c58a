------------------------------- MODULE Editor -------------------------------
(***************************************************************************)
(* The editor pane (chat_frame.cpp): one open file, its unsaved edits, the *)
(* stamp by which it notices that an agent changed the file, the dialogs   *)
(* it asks with, and the file tree's part in them.  Tool workers write     *)
(* files meanwhile (tools.cpp), in two steps: truncate, write.             *)
(*                                                                         *)
(* A modal dialog runs a nested event loop: timers fire in it, and MCP can *)
(* switch the folder or toggle the pane, which may open a further dialog.  *)
(* `stack` holds what the GUI thread is in the middle of, innermost first. *)
(*                                                                         *)
(* What a file says is one of a few bodies.  A stamp (time and size) is    *)
(* known by whether it is still the one of the file on disk.               *)
(***************************************************************************)
EXTENDS Naturals, Sequences, FiniteSets

CONSTANTS Root,       \* files of the folder itself, always watched
          Deep,       \* files of a directory in it, watched while that is expanded
          None,       \* no file
          MaxDialogs  \* bound: dialogs open on top of one another

ASSUME EditorAssumption ==
  Root \cap Deep = {} /\ None \notin Root \cup Deep /\ MaxDialogs \in Nat

Files == Root \cup Deep

\* "stub" is the text shown instead of a binary or very large file ("bin").
Body == {"gone", "old", "agent", "bin", "empty", "mine", "stub"}

Dialogs == {"ask", "changed", "as"}
Continuations == {"none", "select", "reload", "close", "folder", "quit"}

VARIABLES
  disk,      \* what each file holds
  ed,        \* the editor: its file, text and flags
  stack,     \* dialogs and file accesses the GUI thread is in
  here,      \* activeCwd_ is the folder of Files
  expanded,  \* the directory of Deep is expanded in the tree
  due,       \* treeRefreshTimer_
  writing,   \* the file a tool has truncated and not written yet
  closed     \* the frame is gone

vars == <<disk, ed, stack, here, expanded, due, writing, closed>>

Cleared == [path |-> None, text |-> "empty", dirty |-> FALSE, editable |-> TRUE,
            suppress |-> FALSE, asked |-> FALSE, stale |-> "none"]

Init ==
  /\ disk \in [Files -> {"old", "bin"}]
  /\ ed = Cleared /\ stack = <<>> /\ here = TRUE /\ expanded = FALSE
  /\ due = "no" /\ writing = None /\ closed = FALSE

-----------------------------------------------------------------------------
(* What the GUI thread is in: a dialog, or a file access in two steps.     *)

\* op: what; k and f: what follows it; to: the file a save writes.
Frame(op, k, f, to) == [op |-> op, k |-> k, f |-> f, to |-> to]
InDialog == stack # <<>> /\ Head(stack).op \in Dialogs

\* Where the user acts, and where MCP's calls and timers are handled.
Idle == ~closed /\ stack = <<>>
Loop == ~closed /\ (InDialog => Len(stack) < MaxDialogs) /\ (stack # <<>> => InDialog)

-----------------------------------------------------------------------------
(* Files and the stamp.                                                    *)

\* The watcher's event: OnFsWatcherEvent starts the timer.
Noted(f) == IF here /\ (f \in Root \/ expanded) THEN "soon" ELSE due

\* A write to the open file outdates its stamp.
Touched(e, f) == IF e.path = f /\ e.stale = "same" THEN [e EXCEPT !.stale = "differs"] ELSE e

Stamped(e) == [e EXCEPT !.stale = IF e.path = None \/ disk[e.path] = "gone" THEN "none" ELSE "same"]

\* LoadFileIntoEditor, up to the stamp it takes of a text file.
Opens(f) == f # None /\ disk[f] \notin {"gone", "bin"}

LoadedInto(e, f, body) ==
  LET armed == [e EXCEPT !.editable = TRUE, !.suppress = FALSE]
      shown == [armed EXCEPT !.path = f, !.dirty = FALSE, !.asked = FALSE]
  IN  IF f = None \/ body = "gone" THEN armed
      ELSE IF body = "bin"
           THEN [shown EXCEPT !.text = "stub", !.editable = FALSE,
                              !.stale = IF @ = "none" THEN "none" ELSE "differs"]
           ELSE [shown EXCEPT !.text = body]

Load(e, f, rest) ==
  /\ ed' = LoadedInto(e, f, IF f = None THEN "gone" ELSE disk[f])
  /\ stack' = IF Opens(f) THEN <<Frame("read", "none", None, f)>> \o rest ELSE rest

\* What a handler does once MaybeSaveEditor has returned true.
Resume(k, f, e, rest) ==
  /\ CASE k = "select" -> Load(e, f, rest)
       [] k = "reload" -> Load(e, e.path, rest)
       [] k \in {"close", "folder"} -> ed' = Cleared /\ stack' = rest
       [] OTHER -> ed' = e /\ stack' = rest
  /\ here' = IF k = "folder" THEN ~here ELSE here
  /\ expanded' = IF k = "folder" THEN FALSE ELSE expanded
  /\ closed' = (k = "quit")

Return(e, rest) == Resume("none", None, e, rest)

\* Slip: the caller goes on without asking.
MaybeSaveUnasked(k, f) == Resume(k, f, ed, stack)

MaybeSave(k, f) ==
  IF ed.dirty THEN Return(ed, <<Frame("ask", k, f, None)>> \o stack)
  ELSE Resume(k, f, ed, stack)

\* Slip: the question is marked as asked only once it has been answered.
CheckMarkedLate ==
  LET changed == /\ ed.path # None /\ ed.editable
                 /\ disk[ed.path] # "gone" /\ ed.stale = "differs"
  IN  IF ~changed \/ (ed.dirty /\ ed.suppress) THEN Return(ed, stack)
      ELSE IF ed.dirty
           THEN Return([ed EXCEPT !.asked = TRUE], <<Frame("changed", "none", None, None)>> \o stack)
           ELSE Resume("reload", None, ed, stack)

\* CheckEditorFileChangedOnDisk.
Check ==
  LET changed == /\ ed.path # None /\ ed.editable
                 /\ disk[ed.path] # "gone" /\ ed.stale = "differs"
  IN  IF ~changed \/ (ed.dirty /\ ed.suppress) THEN Return(ed, stack)
      ELSE IF ed.dirty
           THEN Return([ed EXCEPT !.suppress = TRUE, !.asked = TRUE],
                       <<Frame("changed", "none", None, None)>> \o stack)
           ELSE Resume("reload", None, ed, stack)

\* WriteEditorFile, first half: opening the file empties it, or fails.
BeginWrite(k, f, to, rest) ==
  \/ Return(ed, rest) /\ UNCHANGED <<disk, due>>
  \/ /\ disk' = [disk EXCEPT ![to] = "empty"]
     /\ due' = Noted(to)
     /\ Return(Touched(ed, to), <<Frame("cut", k, f, to)>> \o rest)

\* SaveEditorFile; with no file yet it is SaveEditorFileAs.
Save(k, f, rest) ==
  IF ~ed.editable THEN Return(ed, rest) /\ UNCHANGED <<disk, due>>
  ELSE IF ed.path = None
       THEN Return(ed, <<Frame("as", k, f, None)>> \o rest) /\ UNCHANGED <<disk, due>>
       ELSE BeginWrite(k, f, ed.path, rest)

-----------------------------------------------------------------------------
(* The user, while no dialog is open.                                      *)

\* OnEditorTextChanged.
Type ==
  /\ Idle /\ ed.editable
  /\ ed' = [ed EXCEPT !.dirty = TRUE, !.text = IF @ = "stub" THEN "stub" ELSE "mine"]
  /\ UNCHANGED <<disk, stack, here, expanded, due, writing, closed>>

OnEditorTreeSelect(f) ==
  /\ Idle /\ here /\ f # ed.path /\ (f \in Deep => expanded)
  /\ MaybeSave("select", f)
  /\ UNCHANGED <<disk, due, writing>>

OnEditorSave == Idle /\ ed.path # None /\ Save("none", None, stack) /\ UNCHANGED writing

OnEditorSaveAs ==
  /\ Idle /\ ed.editable
  /\ stack' = <<Frame("as", "none", None, None)>>
  /\ UNCHANGED <<disk, ed, here, expanded, due, writing, closed>>

ReloadEditorFile == Idle /\ ed.path # None /\ MaybeSave("reload", None) /\ UNCHANGED <<disk, due, writing>>

CloseEditorFile == Idle /\ ed.path # None /\ MaybeSave("close", None) /\ UNCHANGED <<disk, due, writing>>

OnClose == Idle /\ MaybeSave("quit", None) /\ UNCHANGED <<disk, due, writing>>

\* OnEditorTreeExpanding and OnEditorTreeCollapsed, with RescanFsWatcher.
Expand ==
  /\ Idle /\ here /\ expanded' = ~expanded
  /\ UNCHANGED <<disk, ed, stack, here, due, writing, closed>>

\* OnTreeNewFile; in a directory of the tree the new file is selected, which
\* opens it.
OnTreeNewFile(f) ==
  /\ Idle /\ here /\ disk[f] = "gone"
  /\ disk' = [disk EXCEPT ![f] = "empty"] /\ due' = Noted(f)
  /\ \/ f \in Root /\ UNCHANGED <<ed, stack>>
     \/ ed.path = f /\ UNCHANGED <<ed, stack>>
     \/ ed.path # f /\ ed.dirty /\ ed' = ed /\ stack' = <<Frame("ask", "select", f, None)>>
     \/ /\ ed.path # f /\ ~ed.dirty
        /\ ed' = LoadedInto(ed, f, "empty") /\ stack' = <<Frame("read", "none", None, f)>>
  /\ UNCHANGED <<here, expanded, writing, closed>>

\* OnTreeRename of a file: an open one keeps its text, edits and stamp.
OnTreeRename(f, g) ==
  /\ Idle /\ here /\ disk[f] # "gone" /\ disk[g] = "gone"
  /\ disk' = [disk EXCEPT ![f] = "gone", ![g] = disk[f]]
  /\ ed' = [ed EXCEPT !.path = IF @ = f THEN g ELSE @]
  /\ writing' = IF writing = f THEN g ELSE writing
  /\ due' = "soon"
  /\ UNCHANGED <<stack, here, expanded, closed>>

\* OnTreeRename of the directory: the path of an open file is left as it was.
OnTreeRenameDir ==
  /\ Idle /\ here /\ \E f \in Deep : disk[f] # "gone"
  /\ disk' = [f \in Files |-> IF f \in Deep THEN "gone" ELSE disk[f]]
  /\ writing' = IF writing \in Deep THEN None ELSE writing
  /\ expanded' = FALSE /\ due' = "soon"
  /\ UNCHANGED <<ed, stack, here, closed>>

-----------------------------------------------------------------------------
(* Answers to the innermost dialog.                                        *)

Asked(op) == ~closed /\ stack # <<>> /\ Head(stack).op = op

AnswerSave ==
  /\ Asked("ask") /\ Save(Head(stack).k, Head(stack).f, Tail(stack))
  /\ UNCHANGED writing

AnswerDontSave ==
  /\ Asked("ask") /\ Resume(Head(stack).k, Head(stack).f, ed, Tail(stack))
  /\ UNCHANGED <<disk, due, writing>>

AnswerCancel ==
  /\ \/ Asked("ask")
     \/ Asked("as")
  /\ Return(ed, Tail(stack)) /\ UNCHANGED <<disk, due, writing>>

AnswerReload ==
  /\ Asked("changed") /\ Resume("reload", None, ed, Tail(stack))
  /\ UNCHANGED <<disk, due, writing>>

AnswerKeep ==
  /\ Asked("changed") /\ Return(Stamped(ed), Tail(stack))
  /\ UNCHANGED <<disk, due, writing>>

AnswerSaveAs(to) ==
  /\ Asked("as") /\ BeginWrite(Head(stack).k, Head(stack).f, to, Tail(stack))
  /\ UNCHANGED writing

-----------------------------------------------------------------------------
(* The second half of a file access.                                       *)

\* RecordEditorFileStamp, after LoadFileIntoEditor has read the text.
StampLoaded ==
  /\ Asked("read") /\ Return(Stamped(ed), Tail(stack))
  /\ UNCHANGED <<disk, due, writing>>

\* WriteEditorFile, second half.  What a failed write leaves in the stream's
\* buffer is written by its destructor, whose failure goes unnoticed.
FinishWrite ==
  LET w == Head(stack)
      written == <<[w EXCEPT !.op = "stamp"]>> \o Tail(stack)
  IN  /\ Asked("cut")
      /\ \/ /\ disk' = [disk EXCEPT ![w.to] = ed.text] /\ due' = Noted(w.to)
            /\ Return(Touched(ed, w.to), written)
         \/ Return(ed, written) /\ UNCHANGED <<disk, due>>
         \/ Return(ed, Tail(stack)) /\ UNCHANGED <<disk, due>>
      /\ UNCHANGED writing

\* The end of SaveEditorFile and SaveEditorFileAs.
StampSaved ==
  LET w == Head(stack)
  IN  /\ Asked("stamp")
      /\ Resume(w.k, w.f,
                Stamped([ed EXCEPT !.path = w.to, !.dirty = FALSE, !.suppress = FALSE, !.asked = FALSE]),
                Tail(stack))
      /\ UNCHANGED <<disk, due, writing>>

-----------------------------------------------------------------------------
(* Timers and MCP, which a dialog does not hold up.                        *)

\* Slip: a timer that finds a dialog open is not started again.
OnTreeRefreshTimerOnce ==
  /\ due # "no" /\ Loop
  /\ due' = "no"
  /\ IF stack = <<>> THEN Check ELSE Return(ed, stack)
  /\ UNCHANGED <<disk, writing>>

OnTreeRefreshTimer ==
  /\ due # "no" /\ Loop
  /\ IF stack = <<>> THEN due' = "no" /\ Check ELSE due' = "later" /\ Return(ed, stack)
  /\ UNCHANGED <<disk, writing>>

\* ShowThread of a thread of another folder, by the user or over MCP.
ShowThread == Loop /\ MaybeSave("folder", None) /\ UNCHANGED <<disk, due, writing>>

\* OnEditorToggle, showing the pane.
OnEditorToggle == Loop /\ Check /\ UNCHANGED <<disk, due, writing>>

-----------------------------------------------------------------------------
(* Tools: write_file and edit_file truncate a file and write it; a command *)
(* may delete one.                                                         *)

ToolOpens(f) ==
  /\ ~closed /\ writing = None
  /\ disk' = [disk EXCEPT ![f] = "empty"] /\ writing' = f
  /\ ed' = Touched(ed, f) /\ due' = Noted(f)
  /\ UNCHANGED <<stack, here, expanded, closed>>

ToolWrites ==
  /\ ~closed /\ writing # None /\ writing' = None
  /\ \E b \in {"agent", "bin"} : disk' = [disk EXCEPT ![writing] = b]
  /\ ed' = Touched(ed, writing) /\ due' = Noted(writing)
  /\ UNCHANGED <<stack, here, expanded, closed>>

ToolDeletes(f) ==
  /\ ~closed /\ disk[f] # "gone"
  /\ disk' = [disk EXCEPT ![f] = "gone"] /\ due' = Noted(f)
  /\ writing' = IF writing = f THEN None ELSE writing
  /\ UNCHANGED <<ed, stack, here, expanded, closed>>

-----------------------------------------------------------------------------
User ==
  \/ Type \/ OnEditorSave \/ OnEditorSaveAs \/ ReloadEditorFile \/ CloseEditorFile
  \/ OnClose \/ Expand \/ OnTreeRenameDir
  \/ \E f \in Files : OnEditorTreeSelect(f) \/ OnTreeNewFile(f)
  \/ \E f, g \in Files : OnTreeRename(f, g)

Answer ==
  \/ AnswerSave \/ AnswerDontSave \/ AnswerCancel \/ AnswerReload \/ AnswerKeep
  \/ \E f \in Files : AnswerSaveAs(f)

Access == StampLoaded \/ FinishWrite \/ StampSaved

EventLoop == OnTreeRefreshTimer \/ ShowThread \/ OnEditorToggle

Tools == ToolWrites \/ \E f \in Files : ToolOpens(f) \/ ToolDeletes(f)

Next == User \/ Answer \/ Access \/ EventLoop \/ Tools

Spec == Init /\ [][Next]_vars

-----------------------------------------------------------------------------
\* The editor's flags, the dialogs and the files have the shape the code gives
\* them; no more dialogs than the bound.
TypeOK ==
  /\ disk \in [Files -> Body]
  /\ ed \in [path : Files \cup {None}, text : Body \ {"gone", "bin"}, dirty : BOOLEAN,
             editable : BOOLEAN, suppress : BOOLEAN, asked : BOOLEAN,
             stale : {"none", "same", "differs"}]
  /\ stack \in Seq([op : Dialogs \cup {"read", "cut", "stamp"}, k : Continuations,
                    f : Files \cup {None}, to : Files \cup {None}])
  /\ here \in BOOLEAN /\ expanded \in BOOLEAN /\ due \in {"no", "soon", "later"}
  /\ writing \in Files \cup {None} /\ closed \in BOOLEAN

\* Unsaved text leaves the editor, by another file, a reload, another folder or
\* the end of the frame, only once the user answered Don't Save or Reload, or a
\* save has written it, whatever MCP and agents do while a dialog is open.
EditsKept ==
  [][ed.dirty /\ ed.text = "mine" /\ (ed'.text # "mine" \/ closed') =>
       AnswerDontSave \/ AnswerReload \/ StampSaved]_vars

\* When nothing is going on and no refresh is due, an open file of a watched
\* directory that has changed on disk since its stamp was taken is still shown
\* in its old form only because the user has unsaved edits and was asked.
Noticed ==
  /\ here /\ stack = <<>> /\ due = "no" /\ ~closed
  /\ ed.path \in Root /\ ed.editable /\ ed.text # "stub"
  /\ disk[ed.path] # "gone" /\ ed.stale = "differs"
  => ed.dirty /\ ed.asked

\* The user is never asked about one change in two dialogs on top of each other.
OnePrompt == Cardinality({i \in DOMAIN stack : stack[i].op = "changed"}) <= 1

\* While the text shown in place of a binary file is in the editor, it cannot
\* be edited and saved over that file.
\* Does not hold: see "What does not hold" in the README.
PlaceholderSafe ==
  \A f \in Files : ed.path = f /\ ed.text = "stub" /\ disk[f] = "bin" => ~ed.editable
=============================================================================
