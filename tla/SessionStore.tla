----------------------------- MODULE SessionStore -----------------------------
(***************************************************************************)
(* The files gritcode keeps of its conversations: one session file per     *)
(* thread, the index sessions.json that lists the threads, and the search  *)
(* index memory.db, which is derived from the session files.  A window     *)
(* writes the index on its GUI thread and hands the two heavy parts to the *)
(* persist worker; several windows (processes) share the index and the     *)
(* database, each with threads of its own; gritcode --reindex rebuilds the *)
(* database from the files at any time; a 0.5.x window rewrites the index  *)
(* without the threads it does not know; any process may die at any step.  *)
(*                                                                         *)
(* A history is known by its length, a save by its number: `saves` has the *)
(* histories handed to Persist.  What a running turn adds is in memory     *)
(* only until Persist; a turn that fails is rolled back.                   *)
(***************************************************************************)
EXTENDS Integers, Sequences, FiniteSets

CONSTANTS Procs,       \* gritcode windows
          Threads,     \* conversation threads
          Owner,       \* the window a thread is used in (one thread in two windows is not modelled)
          FirstOfDir,  \* threads with the id of their folder: all that 0.5.x knows
          None,        \* no process holds the lock / no thread
          MaxLen,      \* bound: length of each thread's history
          MaxSaves,    \* bound: saves of each thread
          MaxFailures, \* bound: writes that fail
          MaxCrashes,  \* bound: processes that die
          MaxStarts,   \* bound: windows opened, in all
          MaxReindex   \* bound: session files that gritcode --reindex reads

ASSUME OwnerAssumption == /\ Owner \in [Threads -> Procs]
                          /\ FirstOfDir \subseteq Threads
                          /\ None \notin Procs \cup Threads
                          /\ MaxLen \in [Threads -> Nat]
                          /\ MaxSaves \in [Threads -> Nat]

VARIABLES
  gui,      \* where the window's GUI thread is
  saving,   \* the thread it persists; None when it only records the shown thread
  entries,  \* SessionStore::entries_: the threads the window lists
  leaving,  \* the thread a closing window shows: its destructor follows the last Persist
  hist,     \* length of the thread's history in memory
  turn,     \* what it was when the running turn began; Idle: none runs
  saves,    \* the histories handed to Persist
  workers,  \* running persist workers
  index,    \* sessions.json
  tmp,      \* sessions.json.tmp
  handle,   \* the file a window's open stream writes to
  file,     \* the save that the session file holds; Missing: there is none
  unwritten, \* saves whose file could not be written
  db,       \* the saves whose rows memory.db holds for a thread
  lock,     \* who holds the database's write lock
  rx,       \* the --reindex process
  crashes, runs, starts, failures   \* counters for the bounds

gvars == <<gui, saving, entries, leaving>>
mvars == <<hist, turn, saves>>
ivars == <<index, tmp, handle>>
fvars == <<file, unwritten>>
dvars == <<db, lock>>
bvars == <<crashes, runs, starts, failures>>
vars == <<gvars, mvars, workers, ivars, fvars, dvars, rx, bvars>>

Idle == -1
Missing == 0
NoFile == [exists |-> FALSE, whole |-> FALSE, mixed |-> FALSE, rows |-> {}]
NoReindex == [t |-> None, v |-> 0, at |-> "read", cleared |-> FALSE]

Idx == [exists : BOOLEAN, whole : BOOLEAN, mixed : BOOLEAN,
        rows : SUBSET Threads]
Stage == {"file", "delete", "insert"}

TypeOK ==
  /\ gui \in [Procs -> {"down", "idle", "write", "rename", "join", "exit"}]
  /\ saving \in [Procs -> Threads \cup {None}]
  /\ entries \in [Procs -> SUBSET Threads]
  /\ leaving \in [Procs -> Threads \cup {None}]
  /\ \A t \in Threads : /\ hist[t] \in 0..MaxLen[t] /\ turn[t] \in Idle..MaxLen[t]
                        /\ saves[t] \in Seq(0..MaxLen[t]) /\ Len(saves[t]) <= MaxSaves[t]
                        /\ file[t] \in Missing..Len(saves[t])
                        /\ unwritten[t] \subseteq DOMAIN saves[t]
                        /\ db[t] \subseteq DOMAIN saves[t]
  /\ \A w \in workers : /\ w.proc \in Procs /\ w.t \in Threads /\ w.v \in DOMAIN saves[w.t]
                        /\ w.at \in Stage /\ w.cleared \in BOOLEAN
  /\ index \in Idx /\ tmp \in Idx
  /\ handle \in [Procs -> {"no", "tmp", "path", "gone"}]
  /\ lock \in Procs \cup {None, "reindex"}
  /\ rx.t \in Threads \cup {None} /\ rx.at \in Stage \cup {"read"} /\ rx.cleared \in BOOLEAN
  /\ crashes \in 0..MaxCrashes /\ runs \in 0..MaxReindex /\ starts \in 0..MaxStarts
  /\ failures \in 0..MaxFailures

Init ==
  /\ gui = [p \in Procs |-> "down"] /\ saving = [p \in Procs |-> None]
  /\ entries = [p \in Procs |-> {}] /\ leaving = [p \in Procs |-> None]
  /\ hist = [t \in Threads |-> 0] /\ turn = [t \in Threads |-> Idle]
  /\ saves = [t \in Threads |-> <<>>] /\ workers = {}
  /\ index = NoFile /\ tmp = NoFile /\ handle = [p \in Procs |-> "no"]
  /\ file = [t \in Threads |-> Missing] /\ unwritten = [t \in Threads |-> {}]
  /\ db = [t \in Threads |-> {}] /\ lock = None
  /\ rx = NoReindex /\ crashes = 0 /\ runs = 0 /\ starts = 0 /\ failures = 0

-----------------------------------------------------------------------------
(* Starting: ReadIndex; a thread is opened from its file.                  *)

Mine(p) == {t \in Threads : Owner[t] = p}
Saved == {t \in Threads : file[t] # Missing}

\* ReadIndex: the rows of the index, if it parses, and every session file it does not list.
Readable == IF index.exists /\ index.whole THEN index.rows ELSE {}
\* Slip: only the index is read.
ReadIndexAlone == Readable
ReadIndex == Readable \cup Saved

\* OpenThread: a thread whose file is missing starts anew.
Loaded(t) == IF file[t] = Missing THEN 0 ELSE saves[t][file[t]]

\* What memory held is gone; a window that opens has what the files hold.
Reloads(p) ==
  /\ hist' = [t \in Threads |-> IF Owner[t] = p THEN Loaded(t) ELSE hist[t]]
  /\ turn' = [t \in Threads |-> IF Owner[t] = p THEN Idle ELSE turn[t]]
  /\ UNCHANGED saves

Start(p) ==
  /\ gui[p] = "down" /\ starts < MaxStarts
  /\ starts' = starts + 1
  /\ gui' = [gui EXCEPT ![p] = "idle"]
  /\ entries' = [entries EXCEPT ![p] = ReadIndex]
  /\ Reloads(p)
  /\ UNCHANGED <<saving, leaving, workers, ivars, fvars, dvars, rx, crashes, runs, failures>>

-----------------------------------------------------------------------------
(* The GUI thread: Persist, up to the worker it starts.                    *)

Elsewhere(p, place) == \E q \in Procs \ {p} : handle[q] = place

\* WriteIndex: AtomicWrite's stream truncates the .tmp file, which another window may have open too.
WriteIndex(p) ==
  /\ tmp' = [NoFile EXCEPT !.exists = TRUE, !.mixed = Elsewhere(p, "tmp")]
  /\ handle' = [handle EXCEPT ![p] = "tmp"]
  /\ gui' = [gui EXCEPT ![p] = "write"]

\* Persist takes a copy of the history; UpdateIndex puts the thread into the list.
Persist(p, t) ==
  /\ Len(saves[t]) < MaxSaves[t]
  /\ saves' = [saves EXCEPT ![t] = Append(@, hist'[t])]
  /\ entries' = [entries EXCEPT ![p] = @ \cup {t}]
  /\ saving' = [saving EXCEPT ![p] = t]
  /\ WriteIndex(p)

\* The GUI thread of p is free to handle an event of t.
Handles(p, t) == gui[p] = "idle" /\ Owner[t] = p

\* StartTurn records the prompt, in memory.
TurnBegins(p, t) ==
  /\ Handles(p, t) /\ turn[t] = Idle /\ hist[t] < MaxLen[t]
  /\ turn' = [turn EXCEPT ![t] = hist[t]]
  /\ hist' = [hist EXCEPT ![t] = @ + 1]
  /\ UNCHANGED <<gvars, saves, workers, ivars, fvars, dvars, rx, bvars>>

\* A reply or a result, in memory.
TurnRecords(p, t) ==
  /\ Handles(p, t) /\ turn[t] # Idle /\ hist[t] < MaxLen[t]
  /\ hist' = [hist EXCEPT ![t] = @ + 1]
  /\ UNCHANGED <<gvars, turn, saves, workers, ivars, fvars, dvars, rx, bvars>>

\* ApplyCompaction appends the summary, and saves in the middle of the turn.
Compacts(p, t) ==
  /\ Handles(p, t) /\ turn[t] # Idle /\ hist[t] < MaxLen[t]
  /\ hist' = [hist EXCEPT ![t] = @ + 1]
  /\ Persist(p, t)
  /\ UNCHANGED <<leaving, turn, workers, index, fvars, dvars, rx, bvars>>

\* FinalizeTurn, behind HandleCompletion's roll-back if the turn has failed.
TurnEnds(p, t) ==
  /\ Handles(p, t) /\ turn[t] # Idle
  /\ \/ UNCHANGED hist
     \/ hist' = [hist EXCEPT ![t] = turn[t]]
  /\ turn' = [turn EXCEPT ![t] = Idle]
  /\ Persist(p, t)
  /\ UNCHANGED <<leaving, workers, index, fvars, dvars, rx, bvars>>

\* SetLastActive (another thread is shown) writes the index, no session file.
ShowThread(p) ==
  /\ gui[p] = "idle"
  /\ WriteIndex(p)
  /\ UNCHANGED <<saving, entries, leaving, mvars, workers, index, fvars, dvars, rx, bvars>>

\* The last pass of OnClose: nothing works any more, and t, the shown thread, is persisted.
\* A turn that was running was not finished: its last phase only called Close().
Quit(p, t) ==
  /\ Handles(p, t)
  /\ leaving' = [leaving EXCEPT ![p] = t]
  /\ UNCHANGED hist
  /\ Persist(p, t)
  /\ UNCHANGED <<turn, workers, index, fvars, dvars, rx, bvars>>

\* What a window leaves of a file that it could not write.
Spoilt(p, f) == [f EXCEPT !.mixed = @ /\ Elsewhere(p, handle[p]), !.rows = {}, !.whole = FALSE]

\* What a window writes; into a file that another one wrote to as well, it may leave a mixture.
Written(p, f) ==
  {[Spoilt(p, f) EXCEPT !.whole = TRUE, !.rows = entries[p]]}
    \cup (IF f.mixed THEN {Spoilt(p, f)} ELSE {})

IndexWrite(p) ==
  /\ gui[p] = "write"
  /\ tmp' \in (IF handle[p] = "tmp" THEN Written(p, tmp) ELSE {tmp})
  /\ index' \in (IF handle[p] = "path" THEN Written(p, index) ELSE {index})
  /\ handle' = [handle EXCEPT ![p] = "no"]
  /\ gui' = [gui EXCEPT ![p] = "rename"]
  /\ UNCHANGED <<saving, entries, leaving, mvars, workers, fvars, dvars, rx, bvars>>

\* WriteIndex is done; a Persist goes on with its worker.
IndexDone(p) == gui' = [gui EXCEPT ![p] = IF saving[p] = None THEN "idle" ELSE "join"]

\* The stream fails: AtomicWrite returns false, which nobody looks at.
IndexFails(p) ==
  /\ gui[p] = "write" /\ failures < MaxFailures
  /\ failures' = failures + 1
  /\ tmp' = (IF handle[p] = "tmp" THEN Spoilt(p, tmp) ELSE tmp)
  /\ index' = (IF handle[p] = "path" THEN Spoilt(p, index) ELSE index)
  /\ handle' = [handle EXCEPT ![p] = "no"]
  /\ IndexDone(p)
  /\ UNCHANGED <<saving, entries, leaving, mvars, workers, fvars, dvars, rx, crashes, runs, starts>>

\* rename moves the file other windows may still write to; with no .tmp left it fails, and so does the copy.
IndexRename(p) ==
  /\ gui[p] = "rename"
  /\ IF tmp.exists
       THEN /\ index' = tmp /\ tmp' = NoFile
            /\ handle' = [q \in Procs |-> CASE handle[q] = "tmp"  -> "path"
                                            [] handle[q] = "path" -> "gone"
                                            [] OTHER              -> handle[q]]
       ELSE UNCHANGED ivars
  /\ IndexDone(p)
  /\ UNCHANGED <<saving, entries, leaving, mvars, workers, fvars, dvars, rx, bvars>>

WorkersOf(p) == {w \in workers : w.proc = p}
\* Slip: the previous worker is left to itself.
JoinedNever(p) == TRUE
\* persistWorker_.join(): the last worker has ended.
Joined(p) == WorkersOf(p) = {}

\* Nobody writes memory.db.
Free == lock = None

\* Slip: the search index is rebuilt first.
WorkDbFirst == <<"delete", "insert", "file", "done">>
\* What the worker does, in this order.
Work == <<"file", "delete", "insert", "done">>
Passes(w, at) ==
  LET i == CHOOSE i \in 1..3 : Work[i] = at
  IN workers' = (workers \ {w}) \cup (IF Work[i + 1] = "done" THEN {} ELSE
                  {[w EXCEPT !.at = Work[i + 1], !.cleared = at = "delete" /\ Free]})

StartPersist(p) ==
  /\ gui[p] = "join" /\ Joined(p)
  /\ workers' = workers \cup {[proc |-> p, t |-> saving[p], v |-> Len(saves[saving[p]]),
                                 at |-> Work[1], cleared |-> FALSE]}
  /\ saving' = [saving EXCEPT ![p] = None]
  /\ gui' = [gui EXCEPT ![p] = IF leaving[p] = None THEN "idle" ELSE "exit"]
  /\ UNCHANGED <<entries, leaving, mvars, ivars, fvars, dvars, rx, bvars>>

\* ~ChatFrame joins the worker, then the process ends.
Exit(p) ==
  /\ gui[p] = "exit" /\ Joined(p)
  /\ gui' = [gui EXCEPT ![p] = "down"]
  /\ workers' = workers \ WorkersOf(p)
  /\ leaving' = [leaving EXCEPT ![p] = None]
  /\ entries' = [entries EXCEPT ![p] = {}]
  /\ Reloads(p)
  /\ UNCHANGED <<saving, ivars, fvars, dvars, rx, bvars>>

-----------------------------------------------------------------------------
(* The persist worker, and the transaction it shares with --reindex.       *)

\* WriteSessionFile: nobody else writes this thread's .tmp, so the rename is all a reader sees.
\* It does not look at what AtomicWrite returns, and the worker goes on.
WriteSessionFile(w) ==
  /\ w.at = "file"
  /\ \/ file' = [file EXCEPT ![w.t] = w.v] /\ UNCHANGED <<unwritten, failures>>
     \/ /\ failures < MaxFailures /\ failures' = failures + 1
        /\ unwritten' = [unwritten EXCEPT ![w.t] = @ \cup {w.v}]
        /\ UNCHANGED file
  /\ Passes(w, "file")
  /\ UNCHANGED <<gvars, mvars, ivars, dvars, rx, crashes, runs, starts>>

\* RebuildSession: BEGIN takes no lock, the first write does; when another process has it,
\* the DELETE fails, which is not checked, and an INSERT that fails rolls back.
DeleteRows(me) == lock' = (IF Free THEN me ELSE lock)
InsertRows(me, t, v, cleared) ==
  /\ db' = (CASE cleared          -> [db EXCEPT ![t] = {v}]
              [] ~cleared /\ Free -> [db EXCEPT ![t] = @ \cup {v}]
              [] OTHER            -> db)
  /\ lock' = (IF lock = me THEN None ELSE lock)

WorkerDeletes(w) ==
  /\ w.at = "delete"
  /\ DeleteRows(w.proc)
  /\ Passes(w, "delete")
  /\ UNCHANGED <<gvars, mvars, ivars, fvars, db, rx, bvars>>

WorkerInserts(w) ==
  /\ w.at = "insert"
  /\ InsertRows(w.proc, w.t, w.v, w.cleared)
  /\ Passes(w, "insert")
  /\ UNCHANGED <<gvars, mvars, ivars, fvars, rx, bvars>>

\* gritcode --reindex walks over the session files: it reads one, and writes its rows.
ReindexRead(t) ==
  /\ rx = NoReindex /\ runs < MaxReindex /\ t \in Saved
  /\ runs' = runs + 1
  /\ rx' = [t |-> t, v |-> file[t], at |-> "delete", cleared |-> FALSE]
  /\ UNCHANGED <<gvars, mvars, workers, ivars, fvars, dvars, crashes, starts, failures>>

ReindexDeletes ==
  /\ rx.at = "delete"
  /\ DeleteRows("reindex")
  /\ rx' = [rx EXCEPT !.at = "insert", !.cleared = Free]
  /\ UNCHANGED <<gvars, mvars, workers, ivars, fvars, db, bvars>>

ReindexInserts ==
  /\ rx.at = "insert"
  /\ InsertRows("reindex", rx.t, rx.v, rx.cleared)
  /\ rx' = NoReindex
  /\ UNCHANGED <<gvars, mvars, workers, ivars, fvars, bvars>>

-----------------------------------------------------------------------------
(* What happens to the program.                                            *)

Crash(p) ==
  /\ gui[p] # "down" /\ crashes < MaxCrashes
  /\ crashes' = crashes + 1
  /\ gui' = [gui EXCEPT ![p] = "down"]
  /\ saving' = [saving EXCEPT ![p] = None] /\ leaving' = [leaving EXCEPT ![p] = None]
  /\ entries' = [entries EXCEPT ![p] = {}]
  /\ Reloads(p)
  /\ workers' = workers \ WorkersOf(p)
  /\ handle' = [handle EXCEPT ![p] = "no"]
  /\ lock' = (IF lock = p THEN None ELSE lock)
  /\ UNCHANGED <<index, tmp, fvars, db, rx, runs, starts, failures>>

\* A 0.5.x window writes the index with the folders' first threads only.
OldVersion ==
  /\ \A p \in Procs : gui[p] = "down"
  /\ index.exists /\ index.whole /\ ~(index.rows \subseteq FirstOfDir)
  /\ index' = [index EXCEPT !.rows = @ \cap FirstOfDir]
  /\ UNCHANGED <<gvars, mvars, workers, tmp, handle, fvars, dvars, rx, bvars>>

GuiStep(p) == IndexWrite(p) \/ IndexFails(p) \/ IndexRename(p) \/ StartPersist(p) \/ Exit(p)
WorkerStep(p) == \E w \in WorkersOf(p) : WriteSessionFile(w) \/ WorkerDeletes(w) \/ WorkerInserts(w)
ReindexStep == ReindexDeletes \/ ReindexInserts \/ \E t \in Threads : ReindexRead(t)
UserStep(p) == \/ Start(p) \/ ShowThread(p)
               \/ \E t \in Threads : \/ TurnBegins(p, t) \/ TurnRecords(p, t) \/ Compacts(p, t)
                                     \/ TurnEnds(p, t) \/ Quit(p, t)

Next == \/ \E p \in Procs : GuiStep(p) \/ WorkerStep(p) \/ UserStep(p) \/ Crash(p)
        \/ ReindexStep \/ OldVersion

Spec == Init /\ [][Next]_vars

-----------------------------------------------------------------------------
(* Properties.                                                             *)

\* The store keeps its promise: what is kept of a thread is one of its saves and never goes
\* back to an older one, and is what the next window opens (Persist joins the worker before it;
\* WriteSessionFile renames).
Log == INSTANCE ThreadLog WITH live <- hist, log <- saves, kept <- file
KeepsPromise == Log!Spec

\* A running window lists every thread of its own that has a session file, whatever other windows,
\* a crash or 0.5.x did to the index (ReadIndex looks at the files too).
Listed == \A p \in Procs : gui[p] # "down" => Saved \cap Mine(p) \subseteq entries[p]

\* When a window has quit, each of its threads is on disk as it was last seen (OnClose,
\* ~ChatFrame).  Not so: a turn behind the shown thread that was still running, of which only
\* what was there before it is sure to be kept; and a thread whose last write failed.
QuitKeeps ==
  [][\A p \in Procs : Exit(p) => \A t \in Mine(p) :
       \/ hist[t] = Loaded(t)
       \/ turn[t] # Idle /\ t # leaving[p] /\ Loaded(t) >= turn[t]
       \/ Len(saves[t]) \in unwritten[t]]_vars

\* The rows of the search index are of a save that the session file holds or has held (the
\* worker writes the file first), but for one whose write has failed.
SearchBehindFile == \A t \in Threads : \A v \in db[t] : v <= file[t] \/ v \in unwritten[t]

\* memory.h: "just an inverted index over the same conversation history that SessionStore
\* already persists as JSON".  Not so when the file could not be written: the worker indexes
\* the history all the same.
IndexesTheFile == \A t \in Threads : \A v \in db[t] : v <= file[t]

\* memory.h: "One row per turn (chat message), keyed on (session_id, turn_index) for idempotent
\* re-indexing": the rows of a conversation come from one save of it.  Not so when --reindex
\* comes between the two statements of a save.
OneRowPerTurn == \A t \in Threads : Cardinality(db[t]) <= 1

=============================================================================
