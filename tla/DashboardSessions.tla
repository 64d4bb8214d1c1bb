------------------------- MODULE DashboardSessions -------------------------
(***************************************************************************)
(* Dashboard sessions (servers/dashboard_api.py, dashboard/storage.py and  *)
(* the locks and snapshots of dashboard/config_engine.py).  The settings   *)
(* file holds the administrator's password.  The dashboard saves it under  *)
(* a lock that every authentication check shares, people edit it with no   *)
(* lock, and the database holds the sessions under a generation that a new *)
(* password, or an edit nobody vouched for, closes.                        *)
(***************************************************************************)
EXTENDS Naturals, FiniteSets

CONSTANTS
    Workers,             \* gunicorn workers
    Threads,             \* asyncio.to_thread workers that run requests
    WorkerOf,            \* the worker of each thread
    Passwords,           \* passwords the file may hold
    Tokens,              \* session tokens, each drawn once
    MaxSig,              \* bound: contents the file has had
    Serves,              \* bound: the requests each thread runs
    Faults               \* which faults there may be, a set of names

ASSUME WorkersAssumption == WorkerOf \in [Threads -> Workers]
ASSUME BoundsAssumption == MaxSig \in Nat \ {0}
ASSUME PasswordsAssumption == Passwords # {}
ASSUME TokensAssumption == "none" \notin Tokens

VARIABLES
    file,                \* the settings file: signature and password
    auth,                \* the row of dashboard_auth_state, NoRow before the first
    sessions,            \* the rows of dashboard_sessions of the row's generation
    cache,               \* _password_sync_state of each worker, NoRow if of another generation
    th,                  \* the request each thread runs
    token,               \* what the holder of each token knows of it
    disturbed            \* history: an edit by hand, a save that was not acknowledged

database == <<auth, sessions, cache>>
vars == <<file, database, th, token, disturbed>>

Purpose == {"save", "logout", "stream", "login"}
ASSUME ServesAssumption == Serves \in [Threads -> SUBSET Purpose]

Sig == 1..MaxSig
File == [sig: Sig, pw: Passwords]
Auth == [pw: Passwords, sig: 0..MaxSig]

(* The steps of a request that hold the read lock, and those that hold the *)
(* write lock of the settings file (flock on the .lock file beside it).    *)
Reading == {"sync", "remember", "lookup", "answer", "create", "confirm"}
Writing == {"loaded", "dumped", "read back", "acknowledged"}
PC == Reading \cup Writing \cup {"idle", "entering", "saving", "revoking", "hashed", "streaming"}

(* "answered" is set once the answer is no whatever the database says.     *)
Request == [pc: PC, for: Purpose \cup {"none"}, tok: Tokens \cup {"none"}, pw: Passwords,
            sig: 0..MaxSig, valid: BOOLEAN, answered: BOOLEAN]
Fresh == CHOOSE p \in Passwords : TRUE
Idle == [pc |-> "idle", for |-> "none", tok |-> "none", pw |-> Fresh,
         sig |-> 0, valid |-> FALSE, answered |-> FALSE]

TypeOK ==
    /\ file \in File
    /\ auth \in Auth
    /\ sessions \subseteq [tok: Tokens, pw: Passwords]
    /\ cache \in [Workers -> Auth]
    /\ th \in [Threads -> Request]
    /\ token \in [Tokens -> [state: {"undrawn", "drawn", "held", "out"}, pw: Passwords, outdated: BOOLEAN]]
    /\ disturbed \in BOOLEAN

NoRow == [pw |-> Fresh, sig |-> 0]

Init ==
    /\ file = [sig |-> 1, pw |-> Fresh]
    /\ auth = NoRow
    /\ sessions = {}
    /\ cache = [w \in Workers |-> NoRow]
    /\ th = [t \in Threads |-> Idle]
    /\ token = [k \in Tokens |-> [state |-> "undrawn", pw |-> Fresh, outdated |-> FALSE]]
    /\ disturbed = FALSE

(* Mutant: an authentication check that takes no lock.                     *)
LockFree == TRUE

MayReadLock == \A u \in Threads : th[u].pc \notin Writing
MayWriteLock == \A u \in Threads : th[u].pc \notin Reading \cup Writing
Become(t, r) == th' = [th EXCEPT ![t] = r]
Goto(t, pc) == th' = [th EXCEPT ![t].pc = pc]

-----------------------------------------------------------------------------
(* The database: _sync_admin_password_state opens a new generation when    *)
(* the password changed, or the signature did and the caller does not vouch*)
(* for it.  That closes the sessions, and what other workers remember of   *)
(* the row no longer counts: the number itself says no more.               *)

NewGeneration(pw, sig, vouched) ==
    auth = NoRow \/ auth.pw # pw \/ (sig # auth.sig /\ ~vouched)

SessionsAfter(pw, sig, vouched) == IF NewGeneration(pw, sig, vouched) THEN {} ELSE sessions
CacheAfter(pw, sig, vouched) ==
    IF NewGeneration(pw, sig, vouched) THEN [w \in Workers |-> NoRow] ELSE cache

Remembered(w, pw, sig) == auth # NoRow /\ cache[w] = [pw |-> pw, sig |-> sig]
SyncLockFree(w) == \A u \in Threads : WorkerOf[u] = w => th[u].pc # "remember"

-----------------------------------------------------------------------------
(* _session_valid: under the read lock, a snapshot of password and         *)
(* signature, the database brought up to date with it, the session looked  *)
(* up, and a second snapshot that must be the first.                       *)

Enter(t) ==
    /\ th[t].pc = "entering" /\ th[t].for # "login"
    /\ MayReadLock
    /\ th' = [th EXCEPT ![t].pc = "sync", ![t].pw = file.pw, ![t].sig = file.sig]
    /\ UNCHANGED <<file, database, token, disturbed>>

AfterSync(t) ==
    IF th[t].answered \/ th[t].tok = "none" THEN Idle ELSE [th[t] EXCEPT !.pc = "lookup"]

Sync(t) ==
    LET w == WorkerOf[t] IN
    /\ th[t].pc = "sync" /\ SyncLockFree(w)
    /\ IF Remembered(w, th[t].pw, th[t].sig)
       THEN Become(t, AfterSync(t)) /\ UNCHANGED database
       ELSE /\ auth' = [pw |-> th[t].pw, sig |-> th[t].sig]
            /\ sessions' = SessionsAfter(th[t].pw, th[t].sig, FALSE)
            /\ cache' = CacheAfter(th[t].pw, th[t].sig, FALSE)
            /\ Goto(t, "remember")
    /\ UNCHANGED <<file, token, disturbed>>

(* The generation is read again after the transaction: another worker's    *)
(* transaction may have come between.                                      *)
Remember(t) ==
    /\ th[t].pc = "remember"
    /\ cache' = [cache EXCEPT ![WorkerOf[t]] = [pw |-> th[t].pw, sig |-> th[t].sig]]
    /\ Become(t, AfterSync(t))
    /\ UNCHANGED <<file, auth, sessions, token, disturbed>>

(* A session row's hash binds its token to the password it was made with.  *)
Valid(tok, pw) == [tok |-> tok, pw |-> pw] \in sessions

Lookup(t) ==
    /\ th[t].pc = "lookup"
    /\ th' = [th EXCEPT ![t].pc = "answer", ![t].valid = Valid(th[t].tok, th[t].pw)]
    /\ UNCHANGED <<file, database, token, disturbed>>

Accepted(t) ==
    [Idle EXCEPT !.for = th[t].for,
        !.tok = IF th[t].for = "save" THEN "none" ELSE th[t].tok,
        !.pc = CASE th[t].for = "save" -> "saving"
                 [] th[t].for = "logout" -> "revoking"
                 [] OTHER -> "streaming"]

(* Mutant: the second snapshot is compared by its password only.           *)
PasswordHolds(t) == th[t].pw = file.pw

SnapshotHolds(t) == th[t].pw = file.pw /\ th[t].sig = file.sig

Answer(t) ==
    /\ th[t].pc = "answer"
    /\ IF SnapshotHolds(t)
       THEN Become(t, IF th[t].valid THEN Accepted(t) ELSE Idle)
       ELSE Become(t, [th[t] EXCEPT !.pc = "sync", !.pw = file.pw, !.sig = file.sig,
                                    !.valid = FALSE, !.answered = TRUE])
    /\ UNCHANGED <<file, database, token, disturbed>>

(* A read or a transaction of the database fails, or the file cannot be    *)
(* read: the request ends, with 503, wherever it was.                      *)
Unavailable(t) ==
    /\ "database" \in Faults
    /\ th[t].pc \in {"sync", "remember", "lookup", "answer", "create", "revoking", "hashed"}
    /\ Become(t, Idle)
    /\ UNCHANGED <<file, database, token, disturbed>>

-----------------------------------------------------------------------------
(* Requests: PUT /config, POST /auth/logout, GET /events/stream.  Every    *)
(* other route authenticates and reads, like a stream that ends at once.   *)

Begin(t) ==
    /\ th[t].pc = "idle"
    /\ \E k \in Tokens, op \in Serves[t] \ {"login"} :
        /\ token[k].state \in {"held", "out"}
        /\ Become(t, [Idle EXCEPT !.pc = "entering", !.for = op, !.tok = k])
    /\ UNCHANGED <<file, database, token, disturbed>>

BeginUnknown(t) ==
    /\ th[t].pc = "idle" /\ "stream" \in Serves[t]
    /\ Become(t, [Idle EXCEPT !.pc = "entering", !.for = "stream", !.tok = "none"])
    /\ UNCHANGED <<file, database, token, disturbed>>

(* Mutant: the session of a stream is validated once.                      *)
StreamOn(t) == th[t].pc = "streaming" /\ UNCHANGED vars

(* SSE_SESSION_REVALIDATION_SECONDS have passed.                           *)
Revalidate(t) ==
    /\ th[t].pc = "streaming"
    /\ Goto(t, "entering")
    /\ UNCHANGED <<file, database, token, disturbed>>

(* The client went away, or SSE_STREAM_LIMIT_SECONDS have passed.          *)
StreamEnds(t) ==
    /\ th[t].pc = "streaming"
    /\ Become(t, Idle)
    /\ UNCHANGED <<file, database, token, disturbed>>

(* The row's hash is made of the password the file holds after the check:  *)
(* if it changed since the login no row matches, and the request fails.    *)
ReadPassword(t) ==
    /\ th[t].pc = "revoking" /\ MayReadLock
    /\ th' = [th EXCEPT ![t].pc = "hashed", ![t].pw = file.pw]
    /\ UNCHANGED <<file, database, token, disturbed>>

Revoke(t) ==
    LET rows == {s \in sessions : s.tok = th[t].tok /\ s.pw = th[t].pw} IN
    /\ th[t].pc = "hashed"
    /\ sessions' = sessions \ rows
    /\ token' = IF rows = {} THEN token ELSE [token EXCEPT ![th[t].tok].state = "out"]
    /\ Become(t, Idle)
    /\ UNCHANGED <<file, auth, cache, disturbed>>

-----------------------------------------------------------------------------
(* POST /auth/login with the right password: it is compared first, and     *)
(* again under the read lock before and after the session is created.      *)

Login(t) ==
    /\ "login" \in Serves[t]
    /\ th[t].pc = "idle" /\ MayReadLock
    /\ \E k \in Tokens :
        /\ token[k].state = "undrawn"
        /\ token' = [token EXCEPT ![k].state = "drawn"]
        /\ Become(t, [Idle EXCEPT !.pc = "entering", !.for = "login", !.tok = k, !.pw = file.pw])
    /\ UNCHANGED <<file, database, disturbed>>

EnterLogin(t) ==
    /\ th[t].pc = "entering" /\ th[t].for = "login"
    /\ MayReadLock
    /\ Become(t, IF th[t].pw = file.pw
                 THEN [th[t] EXCEPT !.pc = "create", !.sig = file.sig] ELSE Idle)
    /\ UNCHANGED <<file, database, token, disturbed>>

(* Mutant: the row does not bind its token to the password.                *)
CreateUnbound(t) ==
    /\ th[t].pc = "create"
    /\ sessions' = sessions \cup {th[t].tok}
    /\ Goto(t, "confirm")
    /\ UNCHANGED <<file, auth, cache, token, disturbed>>

CreateSession(t) ==
    LET pw == th[t].pw   sig == th[t].sig
    IN  /\ th[t].pc = "create"
        /\ auth' = [pw |-> pw, sig |-> sig]
        /\ sessions' = SessionsAfter(pw, sig, FALSE) \cup {[tok |-> th[t].tok, pw |-> pw]}
        /\ cache' = CacheAfter(pw, sig, FALSE)
        /\ Goto(t, "confirm")
        /\ UNCHANGED <<file, token, disturbed>>

ConfirmSession(t) ==
    LET k == th[t].tok
        row == {s \in sessions : s.tok = k /\ s.pw = th[t].pw}
    IN  /\ th[t].pc = "confirm"
        /\ IF th[t].pw = file.pw
           THEN /\ token' = [token EXCEPT ![k] =
                                [state |-> "held", pw |-> th[t].pw, outdated |-> FALSE]]
                /\ UNCHANGED sessions
           ELSE /\ \/ sessions' = sessions \ row
                   \/ "database" \in Faults /\ UNCHANGED sessions
                /\ UNCHANGED token
        /\ Become(t, Idle)
        /\ UNCHANGED <<file, auth, cache, disturbed>>

-----------------------------------------------------------------------------
(* ConfigEngine.write, once the request is authenticated.                  *)

LoadDocument(t) ==
    /\ th[t].pc = "saving" /\ MayWriteLock
    /\ th' = [th EXCEPT ![t].pc = "loaded", ![t].pw = file.pw]
    /\ UNCHANGED <<file, database, token, disturbed>>

(* Nothing to change, a field the environment controls, a file that cannot *)
(* be parsed, backed up or written.                                        *)
WriteFails(t) ==
    /\ th[t].pc = "loaded"
    /\ Become(t, Idle)
    /\ UNCHANGED <<file, database, token, disturbed>>

AtomicDump(t) ==
    /\ th[t].pc = "loaded" /\ file.sig < MaxSig
    /\ file' = [sig |-> file.sig + 1, pw |-> th[t].pw]
    /\ Become(t, [Idle EXCEPT !.pc = "dumped", !.for = "save"])
    /\ UNCHANGED <<database, token, disturbed>>

ReadBack(t) ==
    /\ th[t].pc = "dumped"
    /\ th' = [th EXCEPT ![t].pc = "read back", ![t].pw = file.pw]
    /\ UNCHANGED <<file, database, token, disturbed>>

(* The signature, and _acknowledge_config_save with it.  The write lock    *)
(* keeps every other transaction of the row away, so the generation read   *)
(* after this one is its own.                                              *)
Acknowledge(t) ==
    /\ th[t].pc = "read back"
    /\ auth' = [pw |-> th[t].pw, sig |-> file.sig]
    /\ sessions' = SessionsAfter(th[t].pw, file.sig, TRUE)
    /\ cache' = [CacheAfter(th[t].pw, file.sig, TRUE) EXCEPT ![WorkerOf[t]] = auth']
    /\ token' = [k \in Tokens |-> [token[k] EXCEPT !.outdated = FALSE]]
    /\ Goto(t, "acknowledged")
    /\ UNCHANGED <<file, disturbed>>

AcknowledgeFails(t) ==
    /\ "database" \in Faults
    /\ th[t].pc = "read back"
    /\ disturbed' = TRUE
    /\ Goto(t, "acknowledged")
    /\ UNCHANGED <<file, database, token>>

Unlock(t) ==
    /\ th[t].pc = "acknowledged"
    /\ Become(t, Idle)
    /\ UNCHANGED <<file, database, token, disturbed>>

-----------------------------------------------------------------------------
(* A person edits the file, which takes no lock and may set the password.  *)
Edit ==
    /\ "edit" \in Faults
    /\ file.sig < MaxSig
    /\ \E p \in Passwords : file' = [file EXCEPT !.sig = file.sig + 1, !.pw = p]
    /\ token' = [k \in Tokens |-> [token[k] EXCEPT !.outdated = @ \/ token[k].state = "held"]]
    /\ disturbed' = TRUE
    /\ UNCHANGED <<database, th>>

(* A worker dies; gunicorn forks another.  The system frees its locks.     *)
Die(w) ==
    LET mine == {t \in Threads : WorkerOf[t] = w} IN
    /\ cache' = [cache EXCEPT ![w] = NoRow]
    /\ th' = [t \in Threads |-> IF t \in mine THEN Idle ELSE th[t]]
    /\ disturbed' = (disturbed \/ \E t \in mine : th[t].pc \in {"dumped", "read back"})
    /\ UNCHANGED <<file, auth, sessions, token>>

Check(t) == Enter(t) \/ Sync(t) \/ Remember(t) \/ Lookup(t) \/ Answer(t) \/ Unavailable(t)
LoginStep(t) == EnterLogin(t) \/ CreateSession(t) \/ ConfirmSession(t)
Save(t) ==
    \/ LoadDocument(t) \/ WriteFails(t) \/ AtomicDump(t) \/ ReadBack(t)
    \/ Acknowledge(t) \/ AcknowledgeFails(t) \/ Unlock(t)
Logout(t) == ReadPassword(t) \/ Revoke(t)
Stream(t) == Revalidate(t) \/ StreamEnds(t)

Next ==
    \/ \E t \in Threads :
        \/ Begin(t) \/ BeginUnknown(t) \/ Login(t)
        \/ Check(t) \/ LoginStep(t) \/ Save(t) \/ Logout(t) \/ Stream(t)
    \/ \E w \in Workers : Die(w)
    \/ Edit

Spec == Init /\ [][Next]_vars

(* A request under way goes on, and a stream comes to its next             *)
(* revalidation.                                                           *)
Fairness ==
    \A t \in Threads : WF_vars(Check(t) \/ LoginStep(t) \/ Save(t) \/ Logout(t) \/ Revalidate(t))
FairSpec == Spec /\ Fairness

-----------------------------------------------------------------------------
(* A save from the dashboard, of any worker, closes no session: whoever    *)
(* logged in and has not logged out is still let in, as long as the file   *)
(* was not edited by hand and every save was acknowledged                  *)
(* (_acknowledge_config_save).                                             *)
SavesKeepSessions ==
    ~disturbed =>
        \A k \in Tokens :
            token[k].state = "held" => token[k].pw = file.pw /\ Valid(k, token[k].pw)

(* Whoever is let in logged in with the password the file holds at that    *)
(* moment, and after the last edit by hand unless a save vouched for the   *)
(* edited file (_session_valid).                                           *)
AcceptedIsCurrent ==
    [][\A t \in Threads :
        th[t].pc = "answer" /\ th'[t].pc \in {"saving", "revoking", "streaming"} =>
            LET k == token[th[t].tok]
            IN  k.pw = file.pw /\ ~k.outdated]_vars

(* A stream whose session was logged out ends (_generate).                 *)
LoggedOutStreamEnds ==
    \A t \in Threads, k \in Tokens :
        (th[t].for = "stream" /\ th[t].tok = k /\ token[k].state = "out") ~> th[t].for # "stream"

=============================================================================
