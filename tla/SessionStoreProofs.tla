-------------------------- MODULE SessionStoreProofs --------------------------
(***************************************************************************)
(* SessionStore, proved for any number of windows, threads, turns, crashes,*)
(* failing writes and --reindex runs: it implements ThreadLog, and what    *)
(* its runs check of the index, the search index and quitting.             *)
(*                                                                         *)
(* All of it rests on one fact about the persist worker: a window has one  *)
(* at a time, and until it has written the file it carries the newest save *)
(* of its thread, or the window is about to hand over a newer one.  The    *)
(* index, its temporary file and the database's lock may be in any state.  *)
(***************************************************************************)
EXTENDS SessionStore, TLAPS

Worker == [proc : Procs, t : Threads, v : Nat, at : Stage, cleared : BOOLEAN]

\* The state the proofs read.
Typed ==
  /\ gui \in [Procs -> {"down", "idle", "write", "rename", "join", "exit"}]
  /\ saving \in [Procs -> Threads \cup {None}]
  /\ entries = [p \in Procs |-> entries[p]]
  /\ leaving \in [Procs -> Threads \cup {None}]
  /\ hist \in [Threads -> Nat]
  /\ turn \in [Threads -> Nat \cup {Idle}]
  /\ saves \in [Threads -> Seq(Nat)]
  /\ workers \subseteq Worker
  /\ file \in [Threads -> Nat]
  /\ unwritten \in [Threads -> SUBSET Nat]
  /\ db \in [Threads -> SUBSET Nat]
  /\ rx \in [t : Threads \cup {None}, v : Nat, at : Stage \cup {"read"}, cleared : BOOLEAN]

\* A worker carries a save of a thread of its window, which lists it; until it
\* has written the file, a newer save waits with the window; after that the file
\* has what it carries, or the write has failed.
Carries(w) ==
  /\ Owner[w.t] = w.proc
  /\ gui[w.proc] # "down"
  /\ w.t \in entries[w.proc]
  /\ 1 <= w.v /\ w.v <= Len(saves[w.t])
  /\ w.at = "file" => /\ file[w.t] <= w.v
                      /\ w.v = Len(saves[w.t]) \/ saving[w.proc] = w.t
  /\ w.at # "file" => w.v <= file[w.t] \/ w.v \in unwritten[w.t]

OneWorker == \A w, x \in workers : w.proc = x.proc => w = x

\* What a window is about to hand to a worker; the last of it when it closes.
Saving(p) ==
  /\ saving[p] # None => /\ Owner[saving[p]] = p
                         /\ saving[p] \in entries[p]
                         /\ gui[p] \in {"write", "rename", "join"}
                         /\ 1 <= Len(saves[saving[p]])
  /\ gui[p] = "join" => saving[p] # None
  /\ leaving[p] # None => gui[p] = "exit" \/ saving[p] # None

\* A save of n messages is as good as the thread is when the window ends: all of
\* it, or all that was there before the turn that never ended.
Fits(t, n) == IF turn[t] = Idle \/ leaving[Owner[t]] = t THEN n = hist[t] ELSE n >= turn[t]

\* The newest save is still to be written, and no write of it has failed.
InWorker(t) == \E w \in workers : w.t = t /\ w.at = "file" /\ w.v = Len(saves[t])
Pending(t) == saving[Owner[t]] = t \/ InWorker(t)

Settled(t) ==
  /\ file[t] <= Len(saves[t])
  /\ turn[t] <= hist[t]
  /\ Pending(t) => Fits(t, saves[t][Len(saves[t])])
  /\ Pending(t) \/ Fits(t, Loaded(t)) \/ Len(saves[t]) \in unwritten[t]

\* --reindex writes what it read of a file, which has not gone back since.
Reindexed == rx.at # "read" => rx.t \in Threads /\ rx.v <= file[rx.t]

IInv ==
  /\ Typed
  /\ \A w \in workers : Carries(w)
  /\ OneWorker
  /\ \A p \in Procs : Saving(p)
  /\ \A t \in Threads : Settled(t)
  /\ Reindexed
  /\ Listed
  /\ SearchBehindFile

-----------------------------------------------------------------------------
\* Nothing is open and nothing saved at the start.
LEMMA InitIInv == Init => IInv
<1> SUFFICES ASSUME Init PROVE IInv OBVIOUS
<1> USE DEF Init
<1>1. Typed
  <2>1. saves \in [Threads -> Seq(Nat)] OBVIOUS
  <2> QED BY <2>1 DEF Typed, NoReindex, Missing, Stage
<1>2. (\A p \in Procs : Saving(p)) /\ Reindexed
  BY OwnerAssumption DEF Saving, Reindexed, NoReindex
<1>3. ASSUME NEW t \in Threads PROVE Settled(t)
  <2>1. Owner[t] \in Procs /\ t # None /\ Len(saves[t]) = 0 BY OwnerAssumption
  <2>2. ~Pending(t) BY <2>1 DEF Pending, InWorker
  <2>3. Fits(t, Loaded(t)) BY <2>1 DEF Fits, Loaded, Missing, Idle
  <2>4. file[t] <= Len(saves[t]) /\ turn[t] <= hist[t] BY <2>1 DEF Missing, Idle
  <2> QED BY <2>2, <2>3, <2>4 DEF Settled
<1>4. Listed /\ SearchBehindFile BY DEF Listed, SearchBehindFile
<1> QED BY <1>1, <1>2, <1>3, <1>4 DEF IInv, OneWorker

\* The worker w at its next step, `at`.
Moved(w, x, at) == x \in Worker /\ x.proc = w.proc /\ x.t = w.t /\ x.v = w.v /\ x.at = at

\* The order of the worker's steps.
LEMMA PassesOn ==
  ASSUME NEW w \in Worker
  PROVE  /\ Passes(w, "file") => \E x : Moved(w, x, "delete") /\ workers' = (workers \ {w}) \cup {x}
         /\ Passes(w, "delete") => \E x : Moved(w, x, "insert") /\ workers' = (workers \ {w}) \cup {x}
         /\ Passes(w, "insert") => workers' = workers \ {w}
<1>1. Work[1] = "file" /\ Work[2] = "delete" /\ Work[3] = "insert" /\ Work[4] = "done"
  BY DEF Work
<1> DEFINE nth(at) == CHOOSE i \in 1..3 : Work[i] = at
<1>2. nth("file") = 1 /\ nth("delete") = 2 /\ nth("insert") = 3 BY <1>1
<1>3. Work[nth("file") + 1] = "delete" /\ Work[nth("delete") + 1] = "insert"
  BY <1>1, <1>2
<1>4. Work[nth("insert") + 1] = "done" BY <1>1, <1>2
<1>5. ASSUME NEW c \in BOOLEAN, NEW at \in Stage
      PROVE  Moved(w, [w EXCEPT !.at = at, !.cleared = c], at)
  BY <1>5 DEF Moved, Worker
<1>6. ASSUME Passes(w, "file")
      PROVE  \E x : Moved(w, x, "delete") /\ workers' = (workers \ {w}) \cup {x}
  <2>1. workers' = (workers \ {w}) \cup {[w EXCEPT !.at = "delete", !.cleared = "file" = "delete" /\ Free]}
    BY <1>3, <1>6, Zenon DEF Passes
  <2> QED BY <1>5, <2>1 DEF Stage
<1>8. ASSUME Passes(w, "delete")
      PROVE  \E x : Moved(w, x, "insert") /\ workers' = (workers \ {w}) \cup {x}
  <2>1. workers' = (workers \ {w}) \cup {[w EXCEPT !.at = "insert", !.cleared = "delete" = "delete" /\ Free]}
    BY <1>3, <1>8, Zenon DEF Passes
  <2> QED BY <1>5, <2>1 DEF Stage
<1>9. ASSUME Passes(w, "insert") PROVE workers' = workers \ {w}
  <2>1. workers' = (workers \ {w}) \cup {} BY <1>4, <1>9, Zenon DEF Passes
  <2> QED BY <2>1
<1> QED BY <1>6, <1>8, <1>9

\* What a file holds is one of the saves.
LEMMA LoadedType ==
  ASSUME Typed, NEW t \in Threads, file[t] <= Len(saves[t])
  PROVE  Loaded(t) \in Nat
<1>1. saves[t] \in Seq(Nat) /\ file[t] \in Nat BY DEF Typed
<1>2. file[t] # 0 => file[t] \in 1..Len(saves[t]) BY <1>1
<1> QED BY <1>1, <1>2 DEF Loaded, Missing

\* What is to be written has been saved.
LEMMA PendingSaved ==
  ASSUME IInv, NEW t \in Threads, Pending(t)
  PROVE  1 <= Len(saves[t])
<1>1. Owner[t] \in Procs /\ t # None BY OwnerAssumption
<1>2. CASE saving[Owner[t]] = t BY <1>1, <1>2 DEF IInv, Saving
<1>3. CASE InWorker(t) BY <1>3 DEF IInv, InWorker, Carries
<1> QED BY <1>2, <1>3 DEF Pending

-----------------------------------------------------------------------------
(* The GUI thread.                                                         *)

\* Steps that touch neither histories nor files nor workers: what a window
\* lists only grows, and what it is about to save stays so.
LEMMA GuiOnly ==
  ASSUME IInv, Typed', \A p \in Procs : Saving(p)',
         UNCHANGED <<saving, leaving, hist, turn, saves, workers, file, unwritten, db, rx>>,
         \A p \in Procs : entries[p] \subseteq entries'[p] /\ (gui'[p] # "down" <=> gui[p] # "down")
  PROVE  IInv'
<1>1. \A w \in workers' : Carries(w)' BY DEF IInv, Typed, Worker, Carries
<1>2. OneWorker' /\ Reindexed' BY DEF IInv, OneWorker, Reindexed
<1>3. \A t \in Threads : Settled(t)'
  BY DEF IInv, Settled, Pending, InWorker, Fits, Loaded
<1>4. Listed' BY DEF IInv, Listed, Saved, Mine
<1>5. SearchBehindFile' BY DEF IInv, SearchBehindFile
<1> QED BY <1>1, <1>2, <1>3, <1>4, <1>5 DEF IInv

\* Another thread is shown, and the index is written.
LEMMA IndexIInv ==
  ASSUME IInv, NEW p \in Procs,
         ShowThread(p) \/ IndexWrite(p) \/ IndexFails(p) \/ IndexRename(p)
  PROVE  IInv'
<1>1. /\ UNCHANGED <<saving, entries, leaving, hist, turn, saves, workers, file, unwritten, db, rx>>
      /\ gui[p] \in {"idle", "write", "rename"}
      /\ \/ gui' = [gui EXCEPT ![p] = "write"] /\ gui[p] = "idle"
         \/ gui' = [gui EXCEPT ![p] = "rename"] /\ gui[p] = "write"
         \/ gui' = [gui EXCEPT ![p] = IF saving[p] = None THEN "idle" ELSE "join"] /\ gui[p] # "idle"
  BY DEF ShowThread, IndexWrite, IndexFails, IndexRename, IndexDone, WriteIndex, mvars, fvars, dvars
<1>2. Typed' BY <1>1 DEF IInv, Typed
<1>3. ASSUME NEW q \in Procs PROVE Saving(q)'
  <2>1. Saving(q) BY DEF IInv
  <2>2. CASE q # p
    <3>1. gui'[q] = gui[q] BY <1>1, <2>2 DEF IInv, Typed
    <3> QED BY <1>1, <2>1, <3>1 DEF Saving
  <2>3. CASE q = p
    <3>1. gui'[p] \in {"write", "rename", "idle", "join"}
          /\ (gui'[p] = "idle" => saving[p] = None) /\ (gui'[p] = "join" => saving[p] # None)
      BY <1>1 DEF IInv, Typed
    <3> QED BY <1>1, <2>1, <2>3, <3>1 DEF Saving
  <2> QED BY <2>2, <2>3
<1>4. \A q \in Procs : gui'[q] # "down" <=> gui[q] # "down" BY <1>1 DEF IInv, Typed
<1> QED BY <1>1, <1>2, <1>3, <1>4, GuiOnly

\* A window that handles an event has nothing to hand over and does not close.
LEMMA HandlesFree ==
  ASSUME IInv, NEW p \in Procs, NEW t \in Threads, Handles(p, t)
  PROVE  gui[p] = "idle" /\ saving[p] = None /\ leaving[p] = None /\ Owner[t] = p
BY DEF IInv, Saving, Handles

\* A turn begins or records something, in memory: the saves are as good as before.
LEMMA MemoryIInv ==
  ASSUME IInv, NEW p \in Procs, NEW t \in Threads, TurnBegins(p, t) \/ TurnRecords(p, t)
  PROVE  IInv'
<1>1. /\ UNCHANGED <<gui, saving, entries, leaving, saves, workers, file, unwritten, db, rx>>
      /\ hist' = [hist EXCEPT ![t] = @ + 1]
      /\ \/ turn[t] = Idle /\ turn' = [turn EXCEPT ![t] = hist[t]]
         \/ turn[t] # Idle /\ turn' = turn
  BY DEF TurnBegins, TurnRecords, gvars, fvars, dvars
<1>2. Owner[t] = p /\ leaving[p] = None
  BY HandlesFree DEF TurnBegins, TurnRecords
<1>3. hist \in [Threads -> Nat] /\ turn \in [Threads -> Nat \cup {Idle}] BY DEF IInv, Typed
<1>4. hist' \in [Threads -> Nat] /\ turn' \in [Threads -> Nat \cup {Idle}] BY <1>1, <1>3
<1>5. Typed' BY <1>1, <1>4 DEF IInv, Typed
<1>6. \A w \in workers' : Carries(w)' BY <1>1 DEF IInv, Carries
<1>7. OneWorker' /\ Reindexed' BY <1>1 DEF IInv, OneWorker, Reindexed
<1>8. \A q \in Procs : Saving(q)' BY <1>1 DEF IInv, Saving
<1>9. ASSUME NEW u \in Threads PROVE Settled(u)'
  <2>1. ASSUME NEW n \in Nat, Fits(u, n) PROVE Fits(u, n)'
    <3>1. CASE u # t
      <4>1. hist'[u] = hist[u] /\ turn'[u] = turn[u] BY <1>1, <1>3, <3>1
      <4> QED BY <1>1, <2>1, <4>1 DEF Fits
    <3>2. CASE u = t
      <4>1. leaving[Owner[t]] # t BY <1>2, OwnerAssumption
      <4>2. turn'[t] \in Nat /\ turn'[t] # Idle BY <1>1, <1>3 DEF Idle
      <4>3. n >= turn'[t] BY <1>1, <1>3, <2>1, <3>2, <4>1 DEF Fits
      <4> QED BY <1>1, <3>2, <4>1, <4>2, <4>3 DEF Fits
    <3> QED BY <3>1, <3>2
  <2>2. Settled(u) /\ saves[u] \in Seq(Nat) BY DEF IInv, Typed
  <2>3. Pending(u)' <=> Pending(u) BY <1>1 DEF Pending, InWorker
  <2>4. Loaded(u)' = Loaded(u) /\ Loaded(u) \in Nat
    BY <1>1, <2>2, LoadedType DEF IInv, Loaded, Settled
  <2>5. turn'[u] <= hist'[u] BY <1>1, <1>3, <2>2 DEF Settled, Idle
  <2>6. Pending(u) => saves[u][Len(saves[u])] \in Nat
    <3>1. Pending(u) => 1 <= Len(saves[u]) BY PendingSaved
    <3> QED BY <2>2, <3>1
  <2>7. Pending(u)' => Fits(u, saves[u][Len(saves[u])])'
    BY <1>1, <2>1, <2>2, <2>3, <2>6 DEF Settled
  <2> QED BY <1>1, <2>1, <2>2, <2>3, <2>4, <2>5, <2>7 DEF Settled
<1>10. Listed' /\ SearchBehindFile' BY <1>1 DEF IInv, Listed, Saved, Mine, SearchBehindFile
<1> QED BY <1>5, <1>6, <1>7, <1>8, <1>9, <1>10 DEF IInv

\* The history of t becomes n messages, its turn m, and it is saved.
SavesAs(p, t, n, m) ==
  /\ Handles(p, t) /\ Persist(p, t)
  /\ hist' = [hist EXCEPT ![t] = n] /\ turn' = [turn EXCEPT ![t] = m]
  /\ leaving' = leaving \/ leaving' = [leaving EXCEPT ![p] = t]
  /\ m <= n
  /\ UNCHANGED <<workers, file, unwritten, db, rx>>

\* A compaction, the end of a turn and closing save a thread.
LEMMA SaveSteps ==
  ASSUME IInv, NEW p \in Procs, NEW t \in Threads,
         Compacts(p, t) \/ TurnEnds(p, t) \/ Quit(p, t)
  PROVE  \E n \in Nat, m \in Nat \cup {Idle} : SavesAs(p, t, n, m)
<1>1. hist \in [Threads -> Nat] /\ turn \in [Threads -> Nat \cup {Idle}] /\ turn[t] <= hist[t]
  BY DEF IInv, Typed, Settled
<1>2. CASE Compacts(p, t)
  <2>1. SavesAs(p, t, hist[t] + 1, turn[t])
    BY <1>1, <1>2 DEF SavesAs, Compacts, fvars, dvars, Idle
  <2>2. hist[t] + 1 \in Nat /\ turn[t] \in Nat \cup {Idle} BY <1>1
  <2> QED BY <2>1, <2>2
<1>3. CASE TurnEnds(p, t)
  <2>1. /\ Handles(p, t) /\ Persist(p, t) /\ turn' = [turn EXCEPT ![t] = Idle]
        /\ UNCHANGED <<leaving, workers, file, unwritten, db, rx>>
    BY <1>3 DEF TurnEnds, fvars, dvars
  <2>2. turn[t] \in Nat BY <1>1, <1>3 DEF TurnEnds
  <2>3. hist' = [hist EXCEPT ![t] = hist[t]] \/ hist' = [hist EXCEPT ![t] = turn[t]]
    BY <1>1, <1>3 DEF TurnEnds
  <2>4. \A n \in Nat : hist' = [hist EXCEPT ![t] = n] => SavesAs(p, t, n, Idle)
    BY <2>1 DEF SavesAs, Idle
  <2> QED BY <1>1, <2>2, <2>3, <2>4
<1>4. CASE Quit(p, t)
  <2>1. SavesAs(p, t, hist[t], turn[t])
    BY <1>1, <1>4 DEF SavesAs, Quit, fvars, dvars
  <2> QED BY <1>1, <2>1
<1> QED BY <1>2, <1>3, <1>4

LEMMA PersistIInv ==
  ASSUME IInv, NEW p \in Procs, NEW t \in Threads, NEW n \in Nat, NEW m \in Nat \cup {Idle},
         SavesAs(p, t, n, m)
  PROVE  IInv'
<1>1. gui[p] = "idle" /\ saving[p] = None /\ leaving[p] = None /\ Owner[t] = p
  BY HandlesFree DEF SavesAs
<1>2. hist \in [Threads -> Nat] /\ turn \in [Threads -> Nat \cup {Idle}]
      /\ saves \in [Threads -> Seq(Nat)]
  BY DEF IInv, Typed
<1>3. /\ hist' \in [Threads -> Nat] /\ hist'[t] = n
      /\ turn' \in [Threads -> Nat \cup {Idle}] /\ turn'[t] = m
      /\ \A u \in Threads : u # t => hist'[u] = hist[u] /\ turn'[u] = turn[u]
  BY <1>2 DEF SavesAs
<1>4. saves' = [saves EXCEPT ![t] = Append(saves[t], n)] BY <1>3 DEF SavesAs, Persist
<1>5. /\ saves' \in [Threads -> Seq(Nat)]
      /\ Len(saves'[t]) = Len(saves[t]) + 1 /\ saves'[t][Len(saves'[t])] = n
      /\ \A u \in Threads : u # t => saves'[u] = saves[u]
  <2>1. saves[t] \in Seq(Nat) /\ saves'[t] = Append(saves[t], n) BY <1>2, <1>4
  <2>2. saves'[t] \in Seq(Nat) /\ Len(saves'[t]) = Len(saves[t]) + 1
        /\ saves'[t][Len(saves[t]) + 1] = n
    BY <2>1
  <2> QED BY <1>2, <1>4, <2>2
<1>6. /\ gui' = [gui EXCEPT ![p] = "write"] /\ saving' = [saving EXCEPT ![p] = t]
      /\ entries' = [entries EXCEPT ![p] = @ \cup {t}]
      /\ leaving' = leaving \/ leaving' = [leaving EXCEPT ![p] = t]
      /\ UNCHANGED <<workers, file, unwritten, db, rx>>
  <2>1. Persist(p, t) /\ UNCHANGED <<workers, file, unwritten, db, rx>>
        /\ (leaving' = leaving \/ leaving' = [leaving EXCEPT ![p] = t])
    BY DEF SavesAs
  <2>2. gui' = [gui EXCEPT ![p] = "write"] BY <2>1, Zenon DEF Persist, WriteIndex
  <2>3. saving' = [saving EXCEPT ![p] = t] /\ entries' = [entries EXCEPT ![p] = @ \cup {t}]
    BY <2>1 DEF Persist
  <2> QED BY <2>1, <2>2, <2>3
<1>7. Typed'
  <2>1. saving' \in [Procs -> Threads \cup {None}]
        /\ gui' \in [Procs -> {"down", "idle", "write", "rename", "join", "exit"}]
    BY <1>6 DEF IInv, Typed
  <2>3. leaving' \in [Procs -> Threads \cup {None}] BY <1>6 DEF IInv, Typed
  <2>2. entries' = [q \in Procs |-> entries'[q]] BY <1>6 DEF IInv, Typed
  <2> QED BY <1>3, <1>5, <1>6, <2>1, <2>2, <2>3 DEF IInv, Typed
<1>8. \A w \in workers' : Carries(w)'
  <2> SUFFICES ASSUME NEW w \in workers PROVE Carries(w)' BY <1>6
  <2>1. w \in Worker /\ Carries(w) BY DEF IInv, Typed
  <2>2. w.t \in Threads /\ w.proc \in Procs /\ w.v \in Nat BY <2>1 DEF Worker
  <2>3. gui'[w.proc] # "down" /\ w.t \in entries'[w.proc]
    BY <1>6, <2>1, <2>2 DEF IInv, Typed, Carries
  <2>4. w.v <= Len(saves'[w.t])
    <3>1. w.v <= Len(saves[w.t]) BY <2>1 DEF Carries
    <3>2. Len(saves[w.t]) \in Nat BY <1>2, <2>2
    <3> QED BY <1>5, <2>2, <3>1, <3>2
  <2>5. w.at = "file" => w.v = Len(saves'[w.t]) \/ saving'[w.proc] = w.t
    <3>1. CASE w.t = t BY <1>1, <1>6, <2>1, <3>1 DEF IInv, Typed, Carries
    <3>2. CASE w.t # t
      <4>1. w.at = "file" => w.v = Len(saves[w.t]) \/ saving[w.proc] = w.t
        BY <2>1 DEF Carries
      <4>2. saving[w.proc] = w.t => w.proc # p BY <1>1, <2>2, OwnerAssumption
      <4> QED BY <1>5, <1>6, <2>2, <3>2, <4>1, <4>2 DEF IInv, Typed
    <3> QED BY <3>1, <3>2
  <2> QED BY <1>6, <2>1, <2>3, <2>4, <2>5 DEF Carries
<1>9. OneWorker' /\ Reindexed' BY <1>6 DEF IInv, OneWorker, Reindexed
<1>10. ASSUME NEW q \in Procs PROVE Saving(q)'
  <2>1. Saving(q) BY DEF IInv
  <2>2. CASE q # p
    <3>1. gui'[q] = gui[q] /\ saving'[q] = saving[q] /\ leaving'[q] = leaving[q]
          /\ entries'[q] = entries[q]
      BY <1>6, <2>2 DEF IInv, Typed
    <3>2. saving[q] # None => saves'[saving[q]] = saves[saving[q]]
      <4>1. saving[q] # None => saving[q] \in Threads /\ saving[q] # t
        BY <1>1, <2>1, <2>2 DEF Saving, IInv, Typed
      <4> QED BY <1>5, <4>1
    <3> QED BY <2>1, <3>1, <3>2 DEF Saving
  <2>3. CASE q = p
    <3>1. gui'[p] = "write" /\ saving'[p] = t /\ t \in entries'[p]
      BY <1>6 DEF IInv, Typed
    <3>2. 1 <= Len(saves'[t]) BY <1>2, <1>5
    <3> QED BY <1>1, <2>3, <3>1, <3>2, OwnerAssumption DEF Saving
  <2> QED BY <2>2, <2>3
<1>11. ASSUME NEW u \in Threads PROVE Settled(u)'
  <2>1. Settled(u) /\ file[u] \in Nat /\ Owner[u] \in Procs /\ u # None
    BY OwnerAssumption DEF IInv, Typed
  <2>2. CASE u = t
    <3>1. saving'[Owner[t]] = t BY <1>1, <1>6 DEF IInv, Typed
    <3>2. Fits(t, n)'
      <4>1. leaving' = leaving \/ leaving'[p] = t BY <1>6 DEF IInv, Typed
      <4>2. m <= n BY DEF SavesAs
      <4> QED BY <1>1, <1>3, <4>1, <4>2 DEF Fits
    <3>3. file'[t] <= Len(saves'[t]) BY <1>2, <1>5, <1>6, <2>1, <2>2 DEF Settled
    <3>4. turn'[t] <= hist'[t] BY <1>3 DEF SavesAs
    <3>5. Fits(t, saves[t][Len(saves[t])])' BY <1>5, <3>2
    <3> QED BY <2>2, <3>1, <3>3, <3>4, <3>5 DEF Settled, Pending
  <2>3. CASE u # t
    <3>1. hist'[u] = hist[u] /\ turn'[u] = turn[u] /\ saves'[u] = saves[u]
      BY <1>3, <1>5, <2>3
    <3>2. saving'[Owner[u]] = u <=> saving[Owner[u]] = u
      BY <1>1, <1>6, <2>1, <2>3 DEF IInv, Typed
    <3>3. leaving'[Owner[u]] = u <=> leaving[Owner[u]] = u
      BY <1>1, <1>6, <2>1, <2>3 DEF IInv, Typed
    <3>4. \A k : Fits(u, k)' <=> Fits(u, k) BY <3>1, <3>3 DEF Fits
    <3>5. Pending(u)' <=> Pending(u) BY <1>6, <3>1, <3>2 DEF Pending, InWorker
    <3>6. Loaded(u)' = Loaded(u) BY <1>6, <3>1 DEF Loaded
    <3> QED BY <1>6, <2>1, <3>1, <3>4, <3>5, <3>6 DEF Settled
  <2> QED BY <2>2, <2>3
<1>12. Listed'
  <2> SUFFICES ASSUME NEW q \in Procs, gui'[q] # "down"
               PROVE  Saved' \cap Mine(q)' \subseteq entries'[q]
    BY DEF Listed
  <2>1. gui[q] # "down" /\ entries[q] \subseteq entries'[q] BY <1>1, <1>6 DEF IInv, Typed
  <2> QED BY <1>6, <2>1 DEF IInv, Listed, Saved, Mine
<1>13. SearchBehindFile' BY <1>6 DEF IInv, SearchBehindFile
<1> QED BY <1>7, <1>8, <1>9, <1>10, <1>11, <1>12, <1>13 DEF IInv

\* A window starts its persist worker, having joined the one before.
LEMMA StartPersistIInv ==
  ASSUME IInv, NEW p \in Procs, StartPersist(p)
  PROVE  IInv'
<1>1. PICK t \in Threads : /\ saving[p] = t /\ Owner[t] = p /\ t \in entries[p]
                           /\ gui[p] = "join" /\ 1 <= Len(saves[t])
                           /\ \A x \in workers : x.proc # p
  BY DEF IInv, Typed, Saving, StartPersist, Joined, WorkersOf
<1>2. /\ saving' = [saving EXCEPT ![p] = None]
      /\ UNCHANGED <<entries, leaving, hist, turn, saves, file, unwritten, db, rx>>
  BY DEF StartPersist, mvars, fvars, dvars
<1>3. PICK w \in Worker : /\ workers' = workers \cup {w}
                          /\ w.proc = p /\ w.t = t /\ w.v = Len(saves[t]) /\ w.at = "file"
  <2> DEFINE w == [proc |-> p, t |-> t, v |-> Len(saves[t]), at |-> "file", cleared |-> FALSE]
  <2>1. Work[1] = "file" BY DEF Work
  <2>2. workers' = workers \cup {w} BY <1>1, <2>1 DEF StartPersist
  <2>3. Len(saves[t]) \in Nat BY <1>1 DEF IInv, Typed
  <2>4. w \in Worker BY <1>1, <2>3 DEF Worker, Stage
  <2> QED BY <2>2, <2>4
<1>4. \/ gui' = [gui EXCEPT ![p] = "exit"]
      \/ gui' = [gui EXCEPT ![p] = "idle"] /\ leaving[p] = None
  BY DEF StartPersist
<1>5. Typed' BY <1>2, <1>3, <1>4 DEF IInv, Typed
<1>6. \A x \in workers' : Carries(x)'
  <2>1. ASSUME NEW x \in workers PROVE Carries(x)'
    <3>1. x \in Worker /\ Carries(x) /\ x.proc # p BY <1>1 DEF IInv, Typed
    <3> QED BY <1>2, <1>4, <3>1 DEF IInv, Typed, Worker, Carries
  <2>2. Carries(w)'
    <3>1. file[t] <= Len(saves[t]) BY <1>1 DEF IInv, Settled
    <3>2. gui'[p] # "down" BY <1>4 DEF IInv, Typed
    <3> QED BY <1>1, <1>2, <1>3, <3>1, <3>2 DEF Carries
  <2> QED BY <1>3, <2>1, <2>2
<1>7. OneWorker' BY <1>1, <1>3 DEF IInv, OneWorker
<1>8. ASSUME NEW q \in Procs PROVE Saving(q)'
  <2>1. Saving(q) BY DEF IInv
  <2>2. CASE q # p
    <3>1. gui'[q] = gui[q] /\ saving'[q] = saving[q] BY <1>2, <1>4, <2>2 DEF IInv, Typed
    <3> QED BY <1>2, <2>1, <3>1 DEF Saving
  <2>3. CASE q = p
    <3>1. saving'[p] = None /\ gui'[p] \in {"exit", "idle"} /\ (gui'[p] = "idle" => leaving[p] = None)
      BY <1>2, <1>4 DEF IInv, Typed
    <3> QED BY <1>2, <2>3, <3>1 DEF Saving
  <2> QED BY <2>2, <2>3
<1>9. ASSUME NEW u \in Threads PROVE Settled(u)'
  <2>1. Settled(u) /\ Owner[u] \in Procs /\ u # None BY OwnerAssumption DEF IInv
  <2>2. Pending(u)' <=> Pending(u)
    <3>1. CASE u = t
      <4>1. Pending(u) BY <1>1, <3>1 DEF Pending
      <4>2. InWorker(u)' BY <1>2, <1>3, <3>1 DEF InWorker
      <4> QED BY <4>1, <4>2 DEF Pending
    <3>2. CASE u # t
      <4>1. saving'[Owner[u]] = u <=> saving[Owner[u]] = u
        BY <1>1, <1>2, <2>1, <3>2 DEF IInv, Typed
      <4>2. InWorker(u)' <=> InWorker(u) BY <1>2, <1>3, <3>2 DEF InWorker
      <4> QED BY <4>1, <4>2 DEF Pending
    <3> QED BY <3>1, <3>2
  <2>3. Loaded(u)' = Loaded(u) /\ \A k : Fits(u, k)' <=> Fits(u, k) BY <1>2 DEF Loaded, Fits
  <2> QED BY <1>2, <2>1, <2>2, <2>3 DEF Settled
<1>10. Reindexed' /\ SearchBehindFile' BY <1>2 DEF IInv, Reindexed, SearchBehindFile
<1>11. Listed' BY <1>1, <1>2, <1>4 DEF IInv, Typed, Listed, Saved, Mine
<1> QED BY <1>5, <1>6, <1>7, <1>8, <1>9, <1>10, <1>11 DEF IInv

-----------------------------------------------------------------------------
(* Windows come and go.                                                    *)

\* The window p comes, with the threads S in its list, or goes: of its worker
\* nothing is left, and memory is as the files are.
Turnover(p, g, S) ==
  /\ gui' = [gui EXCEPT ![p] = g] /\ entries' = [entries EXCEPT ![p] = S]
  /\ g = "idle" => Saved \subseteq S
  /\ saving' = [saving EXCEPT ![p] = None] /\ leaving' = [leaving EXCEPT ![p] = None]
  /\ workers' = {w \in workers : w.proc # p}
  /\ Reloads(p)
  /\ UNCHANGED <<file, unwritten, db, rx>>

LEMMA TurnoverSteps ==
  ASSUME IInv, NEW p \in Procs, Start(p) \/ Exit(p) \/ Crash(p)
  PROVE  \E g \in {"down", "idle"} : \E S : Turnover(p, g, S)
<1>2. CASE Start(p)
  <2>1. gui[p] = "down" BY <1>2 DEF Start
  <2>2. saving[p] = None /\ leaving[p] = None BY <2>1 DEF IInv, Saving
  <2>3. \A w \in workers : w.proc # p BY <2>1 DEF IInv, Carries
  <2>4. Saved \subseteq ReadIndex BY DEF ReadIndex
  <2>5. saving' = [saving EXCEPT ![p] = None] /\ leaving' = [leaving EXCEPT ![p] = None]
    BY <1>2, <2>2 DEF IInv, Typed, Start
  <2>6. workers' = {w \in workers : w.proc # p} BY <1>2, <2>3 DEF Start
  <2>7. Turnover(p, "idle", ReadIndex)
    BY <1>2, <2>4, <2>5, <2>6 DEF Turnover, Start, fvars, dvars
  <2> QED BY <2>7
<1>3. CASE Exit(p)
  <2>1. gui[p] = "exit" BY <1>3 DEF Exit
  <2>2. saving' = [saving EXCEPT ![p] = None] BY <1>3, <2>1 DEF IInv, Typed, Saving, Exit
  <2>3. Turnover(p, "down", {})
    BY <1>3, <2>2 DEF Turnover, Exit, WorkersOf, fvars, dvars
  <2> QED BY <2>3
<1>4. CASE Crash(p)
  <2>1. Turnover(p, "down", {}) BY <1>4 DEF Turnover, Crash, WorkersOf, fvars
  <2> QED BY <2>1
<1> QED BY <1>2, <1>3, <1>4

LEMMA TurnoverIInv ==
  ASSUME IInv, NEW p \in Procs, NEW g \in {"down", "idle"}, NEW S, Turnover(p, g, S)
  PROVE  IInv'
<1>1. /\ gui' = [gui EXCEPT ![p] = g] /\ entries' = [entries EXCEPT ![p] = S]
      /\ saving' = [saving EXCEPT ![p] = None] /\ leaving' = [leaving EXCEPT ![p] = None]
      /\ workers' = {w \in workers : w.proc # p}
      /\ UNCHANGED <<saves, file, unwritten, db, rx>>
  BY DEF Turnover, Reloads
<1>2. /\ hist' = [t \in Threads |-> IF Owner[t] = p THEN Loaded(t) ELSE hist[t]]
      /\ turn' = [t \in Threads |-> IF Owner[t] = p THEN Idle ELSE turn[t]]
  BY DEF Turnover, Reloads
<1>3. \A t \in Threads : Loaded(t) \in Nat
  BY LoadedType DEF IInv, Settled
<1>4. Typed'
  <2>1. hist' \in [Threads -> Nat] BY <1>2, <1>3 DEF IInv, Typed
  <2>2. turn' \in [Threads -> Nat \cup {Idle}] BY <1>2 DEF IInv, Typed
  <2>3. gui' \in [Procs -> {"down", "idle", "write", "rename", "join", "exit"}]
    BY <1>1 DEF IInv, Typed
  <2>4. entries' = [q \in Procs |-> entries'[q]] BY <1>1 DEF IInv, Typed
  <2> QED BY <1>1, <2>1, <2>2, <2>3, <2>4 DEF IInv, Typed
<1>5. \A w \in workers' : Carries(w)'
  <2> SUFFICES ASSUME NEW w \in workers, w.proc # p PROVE Carries(w)' BY <1>1
  <2>1. w \in Worker /\ Carries(w) BY DEF IInv, Typed
  <2> QED BY <1>1, <2>1 DEF IInv, Typed, Worker, Carries
<1>6. OneWorker' /\ Reindexed' BY <1>1 DEF IInv, OneWorker, Reindexed
<1>7. ASSUME NEW q \in Procs PROVE Saving(q)'
  <2>1. Saving(q) BY DEF IInv
  <2>2. q = p => Saving(q)' BY <1>1 DEF IInv, Typed, Saving
  <2>3. CASE q # p
    <3>1. gui'[q] = gui[q] /\ saving'[q] = saving[q] /\ leaving'[q] = leaving[q]
          /\ entries'[q] = entries[q]
      BY <1>1, <2>3 DEF IInv, Typed
    <3> QED BY <1>1, <2>1, <3>1 DEF Saving
  <2> QED BY <2>2, <2>3
<1>8. ASSUME NEW t \in Threads PROVE Settled(t)'
  <2>1. Settled(t) /\ Owner[t] \in Procs /\ t # None BY OwnerAssumption DEF IInv
  <2>2. Loaded(t)' = Loaded(t) BY <1>1 DEF Loaded
  <2>3. CASE Owner[t] = p
    <3>1. hist'[t] = Loaded(t) /\ turn'[t] = Idle BY <1>2, <2>3
    <3>2. saving'[p] # t BY <1>1, <2>1, <2>3 DEF IInv, Typed
    <3>3. ~InWorker(t)' BY <1>1, <2>3 DEF IInv, Carries, InWorker
    <3>4. ~Pending(t)' BY <2>3, <3>2, <3>3 DEF Pending
    <3>5. Fits(t, Loaded(t))' BY <2>2, <3>1 DEF Fits
    <3>6. turn'[t] <= hist'[t] BY <1>3, <3>1 DEF Idle
    <3> QED BY <1>1, <2>1, <3>4, <3>5, <3>6 DEF Settled
  <2>4. CASE Owner[t] # p
    <3>1. hist'[t] = hist[t] /\ turn'[t] = turn[t] BY <1>2, <2>4
    <3>2. saving'[Owner[t]] = saving[Owner[t]] /\ leaving'[Owner[t]] = leaving[Owner[t]]
      BY <1>1, <2>1, <2>4 DEF IInv, Typed
    <3>3. InWorker(t)' <=> InWorker(t) BY <1>1, <2>4 DEF IInv, Carries, InWorker
    <3>4. Pending(t)' <=> Pending(t) BY <3>2, <3>3 DEF Pending
    <3>5. \A k : Fits(t, k)' <=> Fits(t, k) BY <3>1, <3>2 DEF Fits
    <3> QED BY <1>1, <2>1, <2>2, <3>1, <3>4, <3>5 DEF Settled
  <2> QED BY <2>3, <2>4
<1>9. Listed'
  <2> SUFFICES ASSUME NEW q \in Procs, gui'[q] # "down"
               PROVE  Saved' \cap Mine(q)' \subseteq entries'[q]
    BY DEF Listed
  <2>1. Saved' = Saved /\ Mine(q)' = Mine(q) BY <1>1 DEF Saved, Mine
  <2>2. CASE q = p
    <3>1. Saved \subseteq S /\ entries'[p] = S BY <1>1, <2>2 DEF Turnover, IInv, Typed
    <3> QED BY <2>1, <2>2, <3>1
  <2>3. CASE q # p
    <3>1. gui[q] # "down" /\ entries'[q] = entries[q] BY <1>1, <2>3 DEF IInv, Typed
    <3> QED BY <2>1, <3>1 DEF IInv, Listed
  <2> QED BY <2>2, <2>3
<1>10. SearchBehindFile' BY <1>1 DEF IInv, SearchBehindFile
<1> QED BY <1>4, <1>5, <1>6, <1>7, <1>8, <1>9, <1>10 DEF IInv

-----------------------------------------------------------------------------
(* The persist worker and --reindex.                                       *)

\* The session file is replaced by one of a later save, or cannot be written.
LEMMA WriteSessionFileIInv ==
  ASSUME IInv, NEW w \in workers, WriteSessionFile(w)
  PROVE  IInv' /\ file[w.t] <= w.v /\ w.v <= Len(saves[w.t])
<1>1. w \in Worker /\ Carries(w) /\ w.at = "file" BY DEF IInv, Typed, WriteSessionFile
<1>2. PICK x : Moved(w, x, "delete") /\ workers' = (workers \ {w}) \cup {x}
  BY <1>1, PassesOn DEF WriteSessionFile
<1>3. /\ \/ file' = [file EXCEPT ![w.t] = w.v] /\ unwritten' = unwritten
         \/ file' = file /\ unwritten' = [unwritten EXCEPT ![w.t] = @ \cup {w.v}]
      /\ UNCHANGED <<gui, saving, entries, leaving, hist, turn, saves, db, rx>>
  BY DEF WriteSessionFile, gvars, mvars, dvars
<1>4. w.t \in Threads /\ w.v \in Nat /\ w.proc \in Procs BY <1>1 DEF Worker
<1>5. file[w.t] <= w.v /\ w.v <= Len(saves[w.t]) /\ 1 <= w.v BY <1>1 DEF Carries
<1>6. Typed'
  <2>1. file' \in [Threads -> Nat] BY <1>3, <1>4 DEF IInv, Typed
  <2>2. unwritten' \in [Threads -> SUBSET Nat]
    <3>1. unwritten \in [Threads -> SUBSET Nat] /\ unwritten[w.t] \cup {w.v} \in SUBSET Nat
      BY <1>4 DEF IInv, Typed
    <3> QED BY <1>3, <1>4, <3>1
  <2> QED BY <1>2, <1>3, <2>1, <2>2 DEF IInv, Typed, Moved
<1>7. \A p \in Procs : Saving(p)' BY <1>3 DEF IInv, Saving
<1>8. \A y \in workers : y.t = w.t => y = w BY <1>1 DEF IInv, OneWorker, Carries
<1>9. /\ \A u \in Threads : u # w.t => file'[u] = file[u] /\ unwritten'[u] = unwritten[u]
      /\ unwritten[w.t] \subseteq unwritten'[w.t]
      /\ file'[w.t] = w.v \/ (file'[w.t] = file[w.t] /\ w.v \in unwritten'[w.t])
  BY <1>3, <1>4 DEF IInv, Typed
<1>10. ASSUME NEW u \in Threads
       PROVE  file[u] <= file'[u] /\ unwritten[u] \subseteq unwritten'[u]
  <2>1. file[u] \in Nat BY DEF IInv, Typed
  <2>2. unwritten[u] \subseteq unwritten'[u] BY <1>9
  <2> QED BY <1>5, <1>9, <2>1, <2>2
<1>11. \A y \in workers' : Carries(y)'
  <2>1. ASSUME NEW y \in workers, y # w PROVE Carries(y)'
    <3>1. y \in Worker /\ Carries(y) /\ y.t # w.t BY <1>8, <2>1 DEF IInv, Typed
    <3>2. y.t \in Threads BY <3>1 DEF Worker
    <3> QED BY <1>3, <1>9, <3>1, <3>2 DEF Carries
  <2>2. Carries(x)'
    <3>1. x.t = w.t /\ x.v = w.v /\ x.proc = w.proc /\ x.at = "delete" BY <1>2 DEF Moved
    <3>2. w.v <= file'[w.t] \/ w.v \in unwritten'[w.t] BY <1>4, <1>9
    <3> QED BY <1>1, <1>3, <3>1, <3>2 DEF Carries
  <2> QED BY <1>2, <2>1, <2>2
<1>12. OneWorker' BY <1>2 DEF IInv, OneWorker, Moved
<1>13. Reindexed'
  <2>1. rx.at # "read" => rx.t \in Threads /\ rx.v \in Nat /\ rx.v <= file[rx.t]
    BY DEF IInv, Typed, Reindexed
  <2>2. \A u \in Threads : file[u] \in Nat /\ file'[u] \in Nat BY <1>6 DEF IInv, Typed
  <2> QED BY <1>3, <1>10, <2>1, <2>2 DEF Reindexed
<1>14. ASSUME NEW u \in Threads PROVE Settled(u)'
  <2>1. Settled(u) BY DEF IInv
  <2>2. \A k : Fits(u, k)' <=> Fits(u, k) BY <1>3 DEF Fits
  <2>3. CASE u # w.t
    <3>1. InWorker(u)' <=> InWorker(u) BY <1>2, <1>3, <2>3 DEF InWorker, Moved
    <3>2. Pending(u)' <=> Pending(u) BY <1>3, <3>1 DEF Pending
    <3>3. Loaded(u)' = Loaded(u) /\ unwritten'[u] = unwritten[u] /\ file'[u] = file[u]
      BY <1>3, <1>9, <2>3 DEF Loaded
    <3> QED BY <1>3, <2>1, <2>2, <3>2, <3>3 DEF Settled
  <2>4. CASE u = w.t
    <3>1. file'[u] <= Len(saves'[u]) /\ turn'[u] <= hist'[u]
      BY <1>3, <1>5, <1>9, <2>1, <2>4 DEF Settled
    <3>2. ~InWorker(u)' BY <1>2, <1>8, <2>4 DEF InWorker, Moved
    <3>3. Pending(u)' <=> saving[Owner[u]] = u BY <1>3, <3>2 DEF Pending
    <3>4. Pending(u)' => Fits(u, saves[u][Len(saves[u])])' BY <1>3, <2>1, <2>2, <3>3 DEF Settled, Pending
    <3>5. CASE saving[Owner[u]] = u BY <3>1, <3>3, <3>4, <3>5 DEF Settled
    <3>6. CASE saving[Owner[u]] # u
      <4>1. w.v = Len(saves[u]) BY <1>1, <2>4, <3>6 DEF Carries
      <4>2. Pending(u) BY <1>1, <2>4, <4>1 DEF Pending, InWorker
      <4>3. Fits(u, saves[u][w.v]) BY <2>1, <4>1, <4>2 DEF Settled
      <4>4. CASE file'[u] = w.v
        <5>1. Loaded(u)' = saves[u][w.v] BY <1>3, <1>4, <1>5, <4>4 DEF Loaded, Missing
        <5>2. Fits(u, Loaded(u))' BY <2>2, <4>3, <5>1
        <5> QED BY <3>1, <3>4, <5>2 DEF Settled
      <4>5. CASE w.v \in unwritten'[u]
        BY <1>3, <3>1, <3>4, <4>1, <4>5 DEF Settled
      <4> QED BY <1>9, <2>4, <4>4, <4>5
    <3> QED BY <3>5, <3>6
  <2> QED BY <2>3, <2>4
<1>15. Listed'
  <2>1. Saved' \subseteq Saved \cup {w.t} BY <1>9 DEF Saved
  <2>2. \A q \in Procs : w.t \in Mine(q) => w.t \in entries[q] BY <1>1 DEF Mine, Carries
  <2> QED BY <1>3, <2>1, <2>2 DEF IInv, Listed, Mine
<1>16. SearchBehindFile'
  <2> SUFFICES ASSUME NEW u \in Threads, NEW v \in db[u] PROVE v <= file'[u] \/ v \in unwritten'[u]
    BY <1>3 DEF SearchBehindFile
  <2>1. v \in Nat /\ file[u] \in Nat /\ file'[u] \in Nat BY <1>6 DEF IInv, Typed
  <2>2. v <= file[u] \/ v \in unwritten[u] BY DEF IInv, SearchBehindFile
  <2> QED BY <1>10, <2>1, <2>2
<1> QED BY <1>5, <1>6, <1>7, <1>11, <1>12, <1>13, <1>14, <1>15, <1>16 DEF IInv

\* What is inserted for a thread is of a save that its file has had, or could not get.
LEMMA InsertBehind ==
  ASSUME IInv, NEW me, NEW t \in Threads, NEW v \in Nat, NEW c \in BOOLEAN,
         v <= file[t] \/ v \in unwritten[t], InsertRows(me, t, v, c)
  PROVE  /\ db' \in [Threads -> SUBSET Nat]
         /\ \A u \in Threads : \A n \in db'[u] : n <= file[u] \/ n \in unwritten[u]
<1>1. db \in [Threads -> SUBSET Nat]
      /\ \A u \in Threads : \A n \in db[u] : n <= file[u] \/ n \in unwritten[u]
  BY DEF IInv, Typed, SearchBehindFile
<1>2. \E S \in SUBSET Nat : S \subseteq db[t] \cup {v} /\ db' = [db EXCEPT ![t] = S]
  <2>1. {v} \in SUBSET Nat /\ db[t] \cup {v} \in SUBSET Nat /\ db[t] \in SUBSET Nat BY <1>1
  <2>2. CASE c BY <2>1, <2>2 DEF InsertRows
  <2>3. CASE ~c /\ Free BY <2>1, <2>3 DEF InsertRows
  <2>4. CASE ~c /\ ~Free
    <3>1. db' = [db EXCEPT ![t] = db[t]] BY <1>1, <2>4 DEF InsertRows
    <3> QED BY <2>1, <3>1
  <2> QED BY <2>2, <2>3, <2>4
<1> QED BY <1>1, <1>2

\* The worker's two statements on memory.db.
LEMMA WorkerDbIInv ==
  ASSUME IInv, NEW w \in workers, WorkerDeletes(w) \/ WorkerInserts(w)
  PROVE  IInv'
<1>1. w \in Worker /\ Carries(w) /\ w.at # "file" BY DEF IInv, Typed, WorkerDeletes, WorkerInserts
<1>2. PICK S : /\ workers' = (workers \ {w}) \cup S
               /\ \A x \in S : Moved(w, x, "insert")
               /\ \A x, y \in S : x = y
  <2>1. CASE WorkerDeletes(w)
    <3>1. PICK x : Moved(w, x, "insert") /\ workers' = (workers \ {w}) \cup {x}
      BY <1>1, <2>1, PassesOn DEF WorkerDeletes
    <3>2. \E S : S = {x} OBVIOUS
    <3> QED BY <3>1, <3>2
  <2>2. CASE WorkerInserts(w)
    <3>1. workers' = (workers \ {w}) \cup {} BY <1>1, <2>2, PassesOn DEF WorkerInserts
    <3>2. \E S : S = {} OBVIOUS
    <3> QED BY <3>1, <3>2
  <2> QED BY <2>1, <2>2
<1>3. UNCHANGED <<gui, saving, entries, leaving, hist, turn, saves, file, unwritten, rx>>
  BY DEF WorkerDeletes, WorkerInserts, gvars, mvars, fvars
<1>4. /\ db' \in [Threads -> SUBSET Nat]
      /\ \A u \in Threads : \A n \in db'[u] : n <= file[u] \/ n \in unwritten[u]
  <2>1. w.t \in Threads /\ w.v \in Nat /\ w.cleared \in BOOLEAN BY <1>1 DEF Worker
  <2>2. CASE WorkerDeletes(w) BY <2>2 DEF IInv, Typed, SearchBehindFile, WorkerDeletes
  <2>3. CASE WorkerInserts(w)
    <3>1. InsertRows(w.proc, w.t, w.v, w.cleared) BY <2>3 DEF WorkerInserts
    <3>2. w.v <= file[w.t] \/ w.v \in unwritten[w.t] BY <1>1 DEF Carries
    <3> QED BY <2>1, <3>1, <3>2, InsertBehind
  <2> QED BY <2>2, <2>3
<1>5. Typed' BY <1>2, <1>3, <1>4 DEF IInv, Typed, Moved
<1>6. (\A p \in Procs : Saving(p)') /\ Reindexed' /\ Listed'
  BY <1>3 DEF IInv, Saving, Reindexed, Listed, Saved, Mine
<1>7. \A y \in workers' : Carries(y)'
  <2>1. ASSUME NEW y \in workers PROVE Carries(y)' BY <1>3 DEF IInv, Carries
  <2>2. ASSUME NEW x \in S PROVE Carries(x)' BY <1>1, <1>2, <1>3 DEF Carries, Moved
  <2> QED BY <1>2, <2>1, <2>2
<1>8. OneWorker' BY <1>2 DEF IInv, OneWorker, Moved
<1>9. ASSUME NEW u \in Threads PROVE Settled(u)'
  <2>1. InWorker(u)' <=> InWorker(u) BY <1>1, <1>2, <1>3 DEF InWorker, Moved
  <2>2. Pending(u)' <=> Pending(u) BY <1>3, <2>1 DEF Pending
  <2>3. Loaded(u)' = Loaded(u) /\ \A k : Fits(u, k)' <=> Fits(u, k) BY <1>3 DEF Loaded, Fits
  <2> QED BY <1>3, <2>2, <2>3 DEF IInv, Settled
<1>10. SearchBehindFile' BY <1>3, <1>4 DEF SearchBehindFile
<1> QED BY <1>5, <1>6, <1>7, <1>8, <1>9, <1>10 DEF IInv

\* --reindex.
LEMMA ReindexIInv ==
  ASSUME IInv, ReindexStep
  PROVE  IInv'
<1>1. UNCHANGED <<gui, saving, entries, leaving, hist, turn, saves, workers, file, unwritten>>
  BY DEF ReindexStep, ReindexRead, ReindexDeletes, ReindexInserts, gvars, mvars, fvars
<1>2. \A w \in workers' : Carries(w)' BY <1>1 DEF IInv, Carries
<1>3. OneWorker' /\ (\A p \in Procs : Saving(p)') /\ Listed'
  BY <1>1 DEF IInv, OneWorker, Saving, Listed, Saved, Mine
<1>4. \A t \in Threads : Settled(t)'
  BY <1>1 DEF IInv, Settled, Pending, InWorker, Fits, Loaded
<1>5. rx' \in [t : Threads \cup {None}, v : Nat, at : Stage \cup {"read"}, cleared : BOOLEAN]
      /\ Reindexed'
  <2>1. ASSUME NEW t \in Threads, ReindexRead(t) PROVE <1>5
    <3>1. file[t] \in Nat /\ rx' = [t |-> t, v |-> file[t], at |-> "delete", cleared |-> FALSE]
      BY <2>1 DEF IInv, Typed, ReindexRead
    <3> QED BY <1>1, <3>1 DEF Reindexed, Stage
  <2>2. CASE ReindexDeletes
    <3>1. rx' \in [t : Threads \cup {None}, v : Nat, at : Stage \cup {"read"}, cleared : BOOLEAN]
          /\ rx'.t = rx.t /\ rx'.v = rx.v /\ rx.at = "delete"
      BY <2>2 DEF IInv, Typed, ReindexDeletes, Free, Stage
    <3> QED BY <1>1, <3>1 DEF IInv, Reindexed
  <2>3. CASE ReindexInserts BY <2>3 DEF ReindexInserts, NoReindex, Reindexed
  <2> QED BY <2>1, <2>2, <2>3 DEF ReindexStep
<1>6. db' \in [Threads -> SUBSET Nat] /\ SearchBehindFile'
  <2>1. CASE db' = db BY <1>1, <2>1 DEF IInv, Typed, SearchBehindFile
  <2>2. CASE ReindexInserts
    <3>1. rx.t \in Threads /\ rx.v \in Nat /\ rx.v <= file[rx.t] /\ rx.cleared \in BOOLEAN
      BY <2>2 DEF IInv, Typed, Reindexed, ReindexInserts
    <3>2. InsertRows("reindex", rx.t, rx.v, rx.cleared) BY <2>2 DEF ReindexInserts
    <3> QED BY <1>1, <3>1, <3>2, InsertBehind DEF SearchBehindFile
  <2> QED BY <2>1, <2>2 DEF ReindexStep, ReindexRead, ReindexDeletes, dvars
<1>7. Typed' BY <1>1, <1>5, <1>6 DEF IInv, Typed
<1> QED BY <1>2, <1>3, <1>4, <1>5, <1>6, <1>7 DEF IInv

-----------------------------------------------------------------------------
LEMMA NextIInv == IInv /\ [Next]_vars => IInv'
<1> SUFFICES ASSUME IInv, [Next]_vars PROVE IInv' OBVIOUS
<1>1. ASSUME NEW p \in Procs, Start(p) \/ Exit(p) \/ Crash(p) PROVE IInv'
  <2>1. PICK g \in {"down", "idle"} : \E S : Turnover(p, g, S) BY <1>1, TurnoverSteps
  <2>2. PICK S : Turnover(p, g, S) BY <2>1
  <2> QED BY <2>2, TurnoverIInv
<1>2. ASSUME NEW p \in Procs, NEW t \in Threads, Compacts(p, t) \/ TurnEnds(p, t) \/ Quit(p, t)
      PROVE  IInv'
  <2>1. PICK n \in Nat, m \in Nat \cup {Idle} : SavesAs(p, t, n, m) BY <1>2, SaveSteps
  <2> QED BY <2>1, PersistIInv
<1>3. ASSUME NEW p \in Procs, GuiStep(p) PROVE IInv'
  BY <1>1, <1>3, IndexIInv, StartPersistIInv DEF GuiStep
<1>4. ASSUME NEW p \in Procs, WorkerStep(p) PROVE IInv'
  <2>1. PICK w \in workers : WriteSessionFile(w) \/ WorkerDeletes(w) \/ WorkerInserts(w)
    BY <1>4 DEF WorkerStep, WorkersOf
  <2> QED BY <2>1, WriteSessionFileIInv, WorkerDbIInv
<1>5. ASSUME NEW p \in Procs, UserStep(p) PROVE IInv'
  BY <1>1, <1>2, <1>5, IndexIInv, MemoryIInv DEF UserStep
<1>6. CASE ReindexStep BY <1>6, ReindexIInv
<1>7. CASE OldVersion \/ UNCHANGED vars
  <2>1. UNCHANGED <<gui, saving, entries, leaving, hist, turn, saves, workers, file, unwritten, db, rx>>
    BY <1>7 DEF OldVersion, vars, gvars, mvars, fvars, dvars
  <2>2. Typed' /\ \A p \in Procs : Saving(p)' BY <2>1 DEF IInv, Typed, Saving
  <2> QED BY <2>1, <2>2, GuiOnly
<1> QED BY <1>1, <1>3, <1>4, <1>5, <1>6, <1>7 DEF Next

LEMMA IInvCorrect == Spec => []IInv
<1> QED BY InitIInv, NextIInv, PTL DEF Spec

\* A running window lists its threads that have a session file, whatever becomes
\* of the index.
THEOREM ListedCorrect == Spec => []Listed
<1>1. IInv => Listed BY DEF IInv
<1> QED BY <1>1, IInvCorrect, PTL

\* Memory search offers rows of saves that the session file has had, or that could
\* not be written, whatever writes to the database at the same time.
THEOREM SearchBehindFileCorrect == Spec => []SearchBehindFile
<1>1. IInv => SearchBehindFile BY DEF IInv
<1> QED BY <1>1, IInvCorrect, PTL

\* A window that has quit left nothing unsaved but a turn that was still running
\* behind the shown thread: what is pending is with the window or with its worker,
\* and both have ended.
THEOREM QuitKeepsCorrect == Spec => QuitKeeps
<1> DEFINE Kept ==
      \A p \in Procs : Exit(p) => \A t \in Mine(p) :
         \/ hist[t] = Loaded(t)
         \/ turn[t] # Idle /\ t # leaving[p] /\ Loaded(t) >= turn[t]
         \/ Len(saves[t]) \in unwritten[t]
<1>1. IInv => Kept
  <2> SUFFICES ASSUME IInv, NEW p \in Procs, Exit(p), NEW t \in Threads, Owner[t] = p
               PROVE  \/ hist[t] = Loaded(t)
                      \/ turn[t] # Idle /\ t # leaving[p] /\ Loaded(t) >= turn[t]
                      \/ Len(saves[t]) \in unwritten[t]
    BY DEF Mine
  <2>1. saving[p] # t
    BY OwnerAssumption DEF IInv, Saving, Exit
  <2>2. ~InWorker(t) BY DEF IInv, Carries, Exit, Joined, WorkersOf, InWorker
  <2>3. Fits(t, Loaded(t)) \/ Len(saves[t]) \in unwritten[t]
    BY <2>1, <2>2 DEF IInv, Settled, Pending
  <2> QED BY <2>3 DEF Fits
<1>2. IInv => [Kept]_vars BY <1>1
<1> QED BY <1>2, IInvCorrect, PTL DEF QuitKeeps

-----------------------------------------------------------------------------
(* The store implements ThreadLog.                                         *)

\* What a window opens, or a process that ended had, is as the files are.
LEMMA ReopenStep ==
  ASSUME NEW p \in Procs, Reloads(p), UNCHANGED file
  PROVE  Log!Reopen
<1> DEFINE S == Mine(p)
<1>1. S \in SUBSET Threads BY DEF Mine
<1>2. hist' = [t \in Threads |-> IF t \notin S THEN hist[t]
                                 ELSE IF file[t] = Log!Nothing THEN 0 ELSE saves[t][file[t]]]
  BY DEF Mine, Reloads, Loaded, Missing, Log!Nothing
<1>3. UNCHANGED <<saves, file>> BY DEF Reloads
<1> HIDE DEF S
<1> QED BY <1>1, <1>2, <1>3 DEF Log!Reopen

LEMMA Step == IInv /\ [Next]_vars => [Log!Next]_<<hist, saves, file>>
<1> SUFFICES ASSUME IInv, [Next]_vars, ~UNCHANGED <<hist, saves, file>> PROVE Log!Next
  OBVIOUS
<1>1. ASSUME NEW p \in Procs, Start(p) \/ Exit(p) \/ Crash(p) PROVE Log!Next
  <2>1. UNCHANGED file /\ Reloads(p) BY <1>1 DEF Start, Exit, Crash, fvars
  <2> QED BY <2>1, ReopenStep DEF Log!Next
<1>2. ASSUME NEW p \in Procs, NEW t \in Threads, TurnBegins(p, t) \/ TurnRecords(p, t)
      PROVE  Log!Next
  <2>1. Log!Grow(t) BY <1>2 DEF TurnBegins, TurnRecords, fvars, Log!Grow
  <2> QED BY <2>1 DEF Log!Next
<1>3. ASSUME NEW p \in Procs, NEW t \in Threads, Compacts(p, t) \/ TurnEnds(p, t) \/ Quit(p, t)
      PROVE  Log!Next
  <2>1. hist \in [Threads -> Nat] /\ turn[t] \in Nat \cup {Idle} /\ turn[t] <= hist[t]
    BY DEF IInv, Typed, Settled
  <2>2. UNCHANGED file /\ saves' = [saves EXCEPT ![t] = Append(@, hist'[t])]
    BY <1>3 DEF Compacts, TurnEnds, Quit, Persist, fvars
  <2>3. \E n \in 0..(hist[t] + 1) : hist' = [hist EXCEPT ![t] = n]
    <3>0. hist[t] \in 0..(hist[t] + 1) /\ hist' = hist => hist' = [hist EXCEPT ![t] = hist[t]]
      BY <2>1
    <3>1. CASE Compacts(p, t)
      <4>1. hist' = [hist EXCEPT ![t] = hist[t] + 1] BY <3>1 DEF Compacts
      <4>2. hist[t] + 1 \in 0..(hist[t] + 1) BY <2>1
      <4> QED BY <4>1, <4>2
    <3>2. CASE TurnEnds(p, t)
      <4>1. turn[t] \in 0..(hist[t] + 1) BY <2>1, <3>2 DEF TurnEnds
      <4> QED BY <2>1, <3>0, <3>2, <4>1 DEF TurnEnds
    <3>3. CASE Quit(p, t) BY <2>1, <3>0, <3>3 DEF Quit
    <3> QED BY <1>3, <3>1, <3>2, <3>3
  <2>4. PICK n \in 0..(hist[t] + 1) : hist' = [hist EXCEPT ![t] = n] BY <2>3
  <2>5. saves' = [saves EXCEPT ![t] = Append(@, n)] BY <2>1, <2>2, <2>4
  <2>6. Log!Save(t) BY <2>2, <2>4, <2>5 DEF Log!Save
  <2> QED BY <2>6 DEF Log!Next
<1>4. ASSUME NEW w \in workers, WriteSessionFile(w) PROVE Log!Next
  <2>1. w.t \in Threads /\ w.v \in Nat /\ file[w.t] <= w.v /\ w.v <= Len(saves[w.t])
    BY <1>4, WriteSessionFileIInv DEF IInv, Typed, Worker
  <2>2. UNCHANGED <<hist, saves>> BY <1>4 DEF WriteSessionFile, mvars
  <2>3. file' = [file EXCEPT ![w.t] = w.v] BY <1>4, <2>2 DEF WriteSessionFile
  <2>4. w.v # file[w.t] BY <2>2, <2>3 DEF IInv, Typed
  <2>5. file[w.t] \in Nat /\ Len(saves[w.t]) \in Nat BY <2>1 DEF IInv, Typed
  <2>6. w.v \in (file[w.t] + 1)..Len(saves[w.t]) BY <2>1, <2>4, <2>5
  <2>7. Log!Keep(w.t) BY <2>2, <2>3, <2>6 DEF Log!Keep
  <2> QED BY <2>1, <2>7 DEF Log!Next
<1>5. \/ \E p \in Procs : Start(p) \/ Exit(p) \/ Crash(p)
      \/ \E p \in Procs, t \in Threads : \/ TurnBegins(p, t) \/ TurnRecords(p, t)
                                         \/ Compacts(p, t) \/ TurnEnds(p, t) \/ Quit(p, t)
      \/ \E w \in workers : WriteSessionFile(w)
  <2>1. ASSUME NEW p \in Procs
        PROVE  /\ ~IndexWrite(p) /\ ~IndexFails(p) /\ ~IndexRename(p)
               /\ ~StartPersist(p) /\ ~ShowThread(p)
    BY DEF IndexWrite, IndexFails, IndexRename, StartPersist, ShowThread, mvars, fvars
  <2>2. \A w \in workers : ~WorkerDeletes(w) /\ ~WorkerInserts(w)
    BY DEF WorkerDeletes, WorkerInserts, mvars, fvars
  <2>3. ~ReindexStep /\ ~OldVersion /\ ~UNCHANGED vars
    BY DEF ReindexStep, ReindexRead, ReindexDeletes, ReindexInserts, OldVersion, vars, mvars, fvars
  <2>4. PICK p \in Procs : GuiStep(p) \/ WorkerStep(p) \/ UserStep(p) \/ Crash(p) BY <2>3 DEF Next
  <2>5. CASE GuiStep(p) BY <2>1, <2>5 DEF GuiStep
  <2>6. CASE WorkerStep(p) BY <2>2, <2>6 DEF WorkerStep, WorkersOf
  <2>7. CASE UserStep(p) BY <2>1, <2>7 DEF UserStep
  <2> QED BY <2>4, <2>5, <2>6, <2>7
<1> QED BY <1>1, <1>2, <1>3, <1>4, <1>5

\* SessionStore implements ThreadLog: what is kept of a thread is one of its saves
\* and never goes back, in any number of windows.
THEOREM Implements == Spec => KeepsPromise
<1>1. Init => Log!Init BY DEF Init, Log!Init, Missing, Log!Nothing
<1> QED BY <1>1, Step, IInvCorrect, PTL DEF Spec, KeepsPromise, Log!Spec
=============================================================================
