---------------------------- MODULE SettingsFile ----------------------------
(***************************************************************************)
(* The settings file and the copies workers serve (dashboard/              *)
(* config_engine.py).  A save loads the file, backs it up, replaces it and *)
(* applies it to its own worker, all under a lock between processes; the   *)
(* other workers look at the file's signature before each request, in      *)
(* their event loop and so beside their own saves; people edit the file    *)
(* with no lock, and may leave it unreadable.                              *)
(***************************************************************************)
EXTENDS Naturals, Sequences

CONSTANTS
    Workers,             \* gunicorn workers
    Threads,             \* asyncio.to_thread workers that save
    WorkerOf,            \* the worker of each thread
    Fields,              \* settings the dashboard saves
    MAX_BACKUPS,
    MaxSig,              \* bound: contents the file has had
    MaxCrashes           \* bound: workers that die

ASSUME WorkersAssumption == WorkerOf \in [Threads -> Workers]
ASSUME BoundsAssumption ==
    MaxSig \in Nat \ {0} /\ MaxCrashes \in Nat /\ MAX_BACKUPS \in Nat \ {0}

VARIABLES
    file,                \* signature, settings (each the signature of the write that set it), and whether it parses
    backups,             \* the contents backed up, oldest first, by signature
    served,              \* the content each worker has applied, by signature
    stripped,            \* the workers for which that content did not parse: none of the file's settings is in force
    loaded,              \* _loaded_signature of each worker's engine
    reload,              \* reload_if_changed in the event loop of each worker
    th,                  \* the save each thread runs
    edited,              \* history: the last edit by hand
    crashes

copies == <<served, stripped, loaded, reload>>
vars == <<file, backups, copies, th, edited, crashes>>

Sig == 1..MaxSig
Doc == [Fields -> 0..MaxSig]
Holding == {"loaded", "backed up", "dumped", "read back", "signed", "applied"}
PC == Holding \cup {"idle", "waiting"}
Unset == [f \in Fields |-> 0]
Idle == [pc |-> "idle", doc |-> Unset, sig |-> 0]
NoReload == [pc |-> "idle", sig |-> 0]

TypeOK ==
    /\ file \in [sig: Sig, doc: Doc, ok: BOOLEAN]
    /\ backups \in Seq(Sig) /\ Len(backups) <= MAX_BACKUPS
    /\ served \in [Workers -> Sig]
    /\ stripped \in SUBSET Workers
    /\ loaded \in [Workers -> Sig]
    /\ reload \in [Workers -> [pc: {"idle", "changed", "parsed", "applied"}, sig: 0..MaxSig]]
    /\ th \in [Threads -> [pc: PC, doc: Doc, sig: 0..MaxSig]]
    /\ edited \in 0..MaxSig
    /\ crashes \in 0..MaxCrashes

Init ==
    /\ file = [sig |-> 1, doc |-> Unset, ok |-> TRUE]
    /\ backups = <<>>
    /\ served = [w \in Workers |-> 1]
    /\ stripped = {}
    /\ loaded = [w \in Workers |-> 1]
    /\ reload = [w \in Workers |-> NoReload]
    /\ th = [t \in Threads |-> Idle]
    /\ edited = 0
    /\ crashes = 0

Become(t, r) == th' = [th EXCEPT ![t] = r]
Goto(t, pc) == th' = [th EXCEPT ![t].pc = pc]

(* global_settings.reload() rebuilds the settings from their sources, the  *)
(* file as it is now among them.  It is silent: a file that does not parse *)
(* now is left out, the reload succeeds and the worker runs on the other   *)
(* sources alone.                                                          *)
Rebuild(w) ==
    /\ served' = [served EXCEPT ![w] = file.sig]
    /\ stripped' = IF file.ok THEN stripped \ {w} ELSE stripped \cup {w}

-----------------------------------------------------------------------------
(* ConfigEngine.write.                                                     *)

Request(t) ==
    /\ th[t].pc = "idle"
    /\ Goto(t, "waiting")
    /\ UNCHANGED <<file, backups, copies, edited, crashes>>

(* Mutant: the file is loaded before the lock is taken.                    *)
LoadEarly(t) ==
    /\ th[t].pc = "waiting"
    /\ Become(t, IF file.ok THEN [Idle EXCEPT !.pc = "loaded", !.doc = file.doc] ELSE Idle)
    /\ UNCHANGED <<file, backups, copies, edited, crashes>>

(* A file that does not parse is refused.                                  *)
LoadDocument(t) ==
    /\ th[t].pc = "waiting"
    /\ \A u \in Threads : th[u].pc \notin Holding
    /\ Become(t, IF file.ok THEN [Idle EXCEPT !.pc = "loaded", !.doc = file.doc] ELSE Idle)
    /\ UNCHANGED <<file, backups, copies, edited, crashes>>

(* Mutant: what is pruned is the newest.                                   *)
Oldest(s) == IF Len(s) > MAX_BACKUPS THEN SubSeq(s, 1, MAX_BACKUPS) ELSE s

(* The file is copied; the copy is kept as the newest of MAX_BACKUPS.      *)
Newest(s) == IF Len(s) > MAX_BACKUPS THEN Tail(s) ELSE s

Backup(t) ==
    /\ th[t].pc = "loaded"
    /\ backups' = Newest(Append(backups, file.sig))
    /\ Goto(t, "backed up")
    /\ UNCHANGED <<file, copies, edited, crashes>>

(* Nothing to change or not from here; no backup, or no new file.          *)
WriteFails(t) ==
    /\ th[t].pc \in {"loaded", "backed up"}
    /\ Become(t, Idle)
    /\ UNCHANGED <<file, backups, copies, edited, crashes>>

AtomicDump(t) ==
    /\ th[t].pc = "backed up" /\ file.sig < MaxSig
    /\ \E f \in Fields :
        file' = [sig |-> file.sig + 1, doc |-> [th[t].doc EXCEPT ![f] = file.sig + 1], ok |-> TRUE]
    /\ Become(t, [Idle EXCEPT !.pc = "dumped"])
    /\ UNCHANGED <<backups, copies, edited, crashes>>

(* The new file is parsed again, then its signature is taken.              *)
ReadBack(t) ==
    /\ th[t].pc = "dumped"
    /\ IF file.ok THEN Goto(t, "read back") ELSE Become(t, Idle)
    /\ UNCHANGED <<file, backups, copies, edited, crashes>>

(* Mutant: the signature of a file that is gone, None, is noted.           *)
TakeNone(t) ==
    /\ th[t].pc = "read back"
    /\ th' = [th EXCEPT ![t].pc = "signed"]
    /\ UNCHANGED <<file, backups, copies, edited, crashes>>

TakeSignature(t) ==
    /\ th[t].pc = "read back"
    /\ th' = [th EXCEPT ![t].pc = "signed", ![t].sig = file.sig]
    /\ UNCHANGED <<file, backups, copies, edited, crashes>>

HotReload(t) ==
    /\ th[t].pc = "signed"
    /\ Rebuild(WorkerOf[t])
    /\ Goto(t, "applied")
    /\ UNCHANGED <<file, backups, loaded, reload, edited, crashes>>

FinishSave(t) ==
    /\ th[t].pc = "applied"
    /\ loaded' = [loaded EXCEPT ![WorkerOf[t]] = th[t].sig]
    /\ Become(t, Idle)
    /\ UNCHANGED <<file, backups, served, stripped, reload, edited, crashes>>

-----------------------------------------------------------------------------
(* reload_if_changed.                                                      *)

SeeChange(w) ==
    /\ reload[w].pc = "idle" /\ file.sig # loaded[w]
    /\ reload' = [reload EXCEPT ![w] = [pc |-> "changed", sig |-> file.sig]]
    /\ UNCHANGED <<file, backups, served, stripped, loaded, th, edited, crashes>>

(* A file that does not parse is tried again at the next request.          *)
ParseChange(w) ==
    /\ reload[w].pc = "changed"
    /\ reload' = [reload EXCEPT ![w] = IF file.ok THEN [@ EXCEPT !.pc = "parsed"] ELSE NoReload]
    /\ UNCHANGED <<file, backups, served, stripped, loaded, th, edited, crashes>>

ApplyChange(w) ==
    /\ reload[w].pc = "parsed"
    /\ Rebuild(w)
    /\ reload' = [reload EXCEPT ![w].pc = "applied"]
    /\ UNCHANGED <<file, backups, loaded, th, edited, crashes>>

(* Mutant: the signature is taken after the file was applied.              *)
NoteLate(w) ==
    /\ reload[w].pc = "applied"
    /\ loaded' = [loaded EXCEPT ![w] = file.sig]
    /\ reload' = [reload EXCEPT ![w] = NoReload]
    /\ UNCHANGED <<file, backups, served, stripped, th, edited, crashes>>

NoteChange(w) ==
    /\ reload[w].pc = "applied"
    /\ loaded' = [loaded EXCEPT ![w] = reload[w].sig]
    /\ reload' = [reload EXCEPT ![w] = NoReload]
    /\ UNCHANGED <<file, backups, served, stripped, th, edited, crashes>>

-----------------------------------------------------------------------------
(* A person edits the file, which takes no lock: a setting changes, or the *)
(* file stops parsing.                                                     *)
Edit ==
    /\ file.sig < MaxSig
    /\ \/ \E f \in Fields :
            file' = [sig |-> file.sig + 1, doc |-> [file.doc EXCEPT ![f] = file.sig + 1], ok |-> TRUE]
       \/ file' = [file EXCEPT !.sig = @ + 1, !.ok = FALSE]
    /\ edited' = file.sig + 1
    /\ UNCHANGED <<backups, copies, th, crashes>>

(* A worker dies; the system frees its lock, and gunicorn forks another    *)
(* from the parent, which loaded the settings when the service started.    *)
Die(w) ==
    /\ crashes < MaxCrashes
    /\ crashes' = crashes + 1
    /\ served' = [served EXCEPT ![w] = 1]
    /\ stripped' = stripped \ {w}
    /\ loaded' = [loaded EXCEPT ![w] = 1]
    /\ reload' = [reload EXCEPT ![w] = NoReload]
    /\ th' = [t \in Threads |-> IF WorkerOf[t] = w THEN Idle ELSE th[t]]
    /\ UNCHANGED <<file, backups, edited>>

Save(t) ==
    \/ LoadDocument(t) \/ Backup(t) \/ WriteFails(t) \/ AtomicDump(t) \/ ReadBack(t)
    \/ TakeSignature(t) \/ HotReload(t) \/ FinishSave(t)
Refresh(w) == SeeChange(w) \/ ParseChange(w) \/ ApplyChange(w) \/ NoteChange(w)

Next ==
    \/ \E t \in Threads : Request(t) \/ Save(t)
    \/ \E w \in Workers : Refresh(w) \/ Die(w)
    \/ Edit

Spec == Init /\ [][Next]_vars

(* A save under way goes on, and every worker keeps getting requests, each *)
(* of which refreshes first.                                               *)
Fairness ==
    /\ \A t \in Threads : WF_vars(Save(t))
    /\ \A w \in Workers : WF_vars(Refresh(w))
FairSpec == Spec /\ Fairness

-----------------------------------------------------------------------------
Saves(t) == th[t].pc = "backed up" /\ th'[t].pc = "dumped"
Untouched == file.sig # edited

(* No save undoes another: a save that replaces anything but an edit by    *)
(* hand changes one setting of it (_config_write_lock).                    *)
SaveUndoesNoSave ==
    [][\A t \in Threads : Saves(t) /\ Untouched =>
        \E f \in Fields : file'.doc = [file.doc EXCEPT ![f] = file'.sig]]_vars

(* What a save replaces is the newest backup, unless it is an edit by hand *)
(* (_backup).                                                              *)
ReplacedIsBackedUp ==
    [][\A t \in Threads : Saves(t) /\ Untouched =>
        backups # <<>> /\ backups[Len(backups)] = file.sig]_vars

(* A worker that takes the file for loaded serves it, all of it: whatever  *)
(* saves and refreshes of one worker overlap, and whatever edits come in   *)
(* between, none notes a readable content that the worker does not serve,  *)
(* which no later refresh would put right (reload_if_changed).  A content  *)
(* that does not parse can be noted, by an edit between the parse and the  *)
(* reload; the worker then serves none of its settings, not the last good  *)
(* ones that the comment of reload_if_changed promises.                    *)
LoadedIsServed ==
    \A w \in Workers : loaded[w] = file.sig =>
        served[w] = file.sig /\ (w \in stripped <=> ~file.ok)

(* Once the file stays as it is and parses, every worker comes to serve it,*)
(* whatever saves and refreshes of one worker did beside each other, and   *)
(* also one that an unreadable file had stripped of its settings           *)
(* (reload_if_changed).                                                    *)
WorkersConverge ==
    <>[](file.ok => \A w \in Workers : served[w] = file.sig /\ w \notin stripped)

=============================================================================
