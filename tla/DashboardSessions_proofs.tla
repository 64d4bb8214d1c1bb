---------------------- MODULE DashboardSessions_proofs ----------------------
(***************************************************************************)
(* Whoever is let in is current, and saves keep sessions, for any number   *)
(* of workers, requests, passwords, tokens and edits.  The invariant says  *)
(* of a request what it may rely on at each step (RequestOK), and of the   *)
(* database how its rows stand to the file (Rows, Marks, Kept): a row that *)
(* an edit has outdated survives only until some check synchronizes the    *)
(* file's present signature, so nothing that vouches for it knows that     *)
(* signature yet.  The last section is about logouts.                      *)
(***************************************************************************)
EXTENDS DashboardSessions, TLAPS

OutdatedRow == \E s \in sessions : token[s.tok].outdated
Replaced == \E t \in Threads : th[t].pc \in {"dumped", "read back"}

(* Signatures only grow, and a request that reads has taken one.           *)
Timely(r) == r.sig <= file.sig /\ (r.pc \in Reading => r.sig # 0)

(* A login works on a token nobody holds, any other request on a token its *)
(* holder was given.                                                       *)
Entitled(r) ==
    /\ r.pc \in {"create", "confirm"} => r.for = "login"
    /\ r.for = "login" =>
        r.pc \in {"entering", "create", "confirm"} /\ r.tok \in Tokens /\ token[r.tok].state = "drawn"
    /\ r.for # "login" /\ r.tok \in Tokens => token[r.tok].state \in {"held", "out"}
    /\ r.pc \in {"lookup", "answer", "revoking", "hashed"} => r.tok \in Tokens
    /\ r.pc \in {"revoking", "hashed"} => r.for # "login"

(* The row of a login is the only one of its token.                        *)
OwnRow(r) ==
    /\ r.for = "login" /\ r.pc # "confirm" => \A s \in sessions : s.tok # r.tok
    /\ r.pc = "confirm" => \A s \in sessions : s.tok = r.tok => s.pw = r.pw
    /\ r.pc = "confirm" /\ ~disturbed => [tok |-> r.tok, pw |-> r.pw] \in sessions

(* A request that found its session found a current one, or will see that  *)
(* the file has changed.                                                   *)
Judged(r) ==
    /\ r.pc \in {"remember", "lookup"} /\ OutdatedRow => r.sig # file.sig
    /\ r.pc = "answer" /\ r.valid =>
        token[r.tok].pw = r.pw /\ (token[r.tok].outdated => r.sig # file.sig)

(* Undisturbed, a request under a lock knows the file as it is.            *)
Informed(r) ==
    ~disturbed =>
        /\ r.pc \in Reading => r.sig = file.sig /\ r.pw = file.pw
        /\ r.pc \in {"loaded", "read back"} => r.pw = file.pw

RequestOK(r) == Timely(r) /\ Entitled(r) /\ OwnRow(r) /\ Judged(r) /\ Informed(r)
RequestsOK == \A t \in Threads : RequestOK(th[t])

Rows ==
    /\ auth.sig <= file.sig /\ \A w \in Workers : cache[w].sig <= file.sig
    /\ \A s \in sessions :
        /\ token[s.tok].state # "undrawn"
        /\ token[s.tok].state \in {"held", "out"} => token[s.tok].pw = s.pw
    /\ sessions # {} => auth # NoRow
Marks ==
    /\ \A k \in Tokens : token[k].outdated => token[k].state \in {"held", "out"}
    /\ OutdatedRow => auth.sig # file.sig /\ \A w \in Workers : cache[w].sig # file.sig
Kept ==
    ~disturbed =>
        /\ \A k \in Tokens :
            token[k].state = "held" => token[k].pw = file.pw /\ [tok |-> k, pw |-> token[k].pw] \in sessions
        /\ auth # NoRow => auth.pw = file.pw
        /\ auth # NoRow /\ ~Replaced => auth.sig = file.sig
Locks ==
    \A t, u \in Threads :
        th[t].pc \in Writing /\ th[u].pc \in Reading \cup Writing => t = u
OneLogin ==
    \A t, u \in Threads :
        th[t].for = "login" /\ th[u].for = "login" /\ th[t].tok = th[u].tok => t = u

IInv == TypeOK /\ RequestsOK /\ Rows /\ Marks /\ Kept /\ Locks /\ OneLogin

-----------------------------------------------------------------------------
LEMMA Constant ==
    /\ Fresh \in Passwords
    /\ NoRow \in Auth /\ NoRow.sig = 0
    /\ Idle \in Request /\ Idle.pc = "idle" /\ Idle.for = "none" /\ Idle.tok = "none" /\ Idle.sig = 0
    /\ MaxSig \in Nat /\ 1 \in Sig
<1>1. Fresh \in Passwords
  BY PasswordsAssumption DEF Fresh
<1>2. MaxSig \in Nat /\ 1 \in Sig
  BY BoundsAssumption DEF Sig
<1>3. NoRow \in Auth /\ NoRow.sig = 0
  BY <1>1, <1>2 DEF NoRow, Auth
<1>4. Idle \in Request
  BY <1>1, <1>2 DEF Idle, Request, PC
<1> QED
  BY <1>1, <1>2, <1>3, <1>4 DEF Idle

(* A request with nothing under way relies on nothing.                     *)
LEMMA IdleOK == ASSUME TypeOK PROVE RequestOK(Idle)
<1>1. file.sig \in Nat
  BY Constant DEF TypeOK, File, Sig
<1> QED
  BY <1>1, TokensAssumption, Constant
     DEF RequestOK, Timely, Entitled, OwnRow, Judged, Informed, Idle, Reading

LEMMA Initially == Init => IInv
<1> SUFFICES ASSUME Init PROVE IInv
  OBVIOUS
<1>1. TypeOK
  BY Constant DEF Init, TypeOK, File
<1>2. RequestsOK
  BY <1>1, IdleOK DEF Init, RequestsOK
<1>3. Rows /\ Marks /\ Kept
  BY Constant DEF Init, Rows, Marks, Kept, OutdatedRow
<1>4. Locks /\ OneLogin
  BY DEF Init, Locks, OneLogin, Idle, Writing
<1> QED
  BY <1>1, <1>2, <1>3, <1>4 DEF IInv

(* A step that moves one request keeps the locks: it takes a lock it may.  *)
LEMMA Turn ==
    ASSUME IInv, NEW t \in Threads, NEW r \in Request, Become(t, r),
           r.pc \in Reading => th[t].pc \in Reading \/ MayReadLock,
           r.pc \in Writing => th[t].pc \in Writing \/ MayWriteLock,
           r.for = "login" =>
               \/ th[t].for = "login" /\ th[t].tok = r.tok
               \/ \A u \in Threads : th[u].for = "login" => th[u].tok # r.tok
    PROVE  /\ th' \in [Threads -> Request] /\ th'[t] = r
           /\ \A u \in Threads : u # t => th'[u] = th[u]
           /\ Locks' /\ OneLogin'
<1>1. /\ th' \in [Threads -> Request] /\ th'[t] = r
      /\ \A u \in Threads : u # t => th'[u] = th[u]
  BY DEF IInv, TypeOK, Become
<1>2. Locks'
  BY <1>1 DEF IInv, Locks, MayReadLock, MayWriteLock
<1>3. OneLogin'
  <2> SUFFICES ASSUME NEW u \in Threads, NEW v \in Threads,
                      th'[u].for = "login", th'[v].for = "login", th'[u].tok = th'[v].tok
               PROVE  u = v
    BY DEF OneLogin
  <2>1. \A x, y \in Threads : th[x].for = "login" /\ th[y].for = "login" /\ th[x].tok = th[y].tok => x = y
    BY DEF IInv, OneLogin
  <2>2. CASE u # t /\ v # t
    BY <1>1, <2>1, <2>2
  <2>3. CASE u = t /\ v # t
    BY <1>1, <2>1, <2>3
  <2>4. CASE u # t /\ v = t
    BY <1>1, <2>1, <2>4
  <2> QED
    BY <2>2, <2>3, <2>4
<1> QED
  BY <1>1, <1>2, <1>3

(* A request that does not move keeps what it relies on, while the file is *)
(* the same and tokens and rows change as they may.                        *)
LEMMA Others ==
    ASSUME IInv, NEW u \in Threads, th'[u] = th[u], file' = file, disturbed => disturbed',
           th[u].tok \in Tokens =>
               LET k == th[u].tok IN
               /\ token'[k].outdated => token[k].outdated
               /\ th[u].for = "login" => token'[k].state = "drawn"
               /\ th[u].for # "login" => token'[k].state \in {"held", "out"} /\ token'[k].pw = token[k].pw,
           \A s \in sessions' : s \in sessions \/ (th[u].for = "login" => s.tok # th[u].tok),
           th[u].pc = "confirm" /\ ~disturbed' /\ [tok |-> th[u].tok, pw |-> th[u].pw] \in sessions =>
               [tok |-> th[u].tok, pw |-> th[u].pw] \in sessions',
           OutdatedRow' => OutdatedRow
    PROVE  RequestOK(th[u])'
<1>1. RequestOK(th[u])
  BY DEF IInv, RequestsOK
<1>2. Timely(th[u])'
  BY <1>1 DEF RequestOK, Timely
<1>3. Entitled(th[u])'
  BY <1>1 DEF RequestOK, Entitled
<1>4. OwnRow(th[u])'
  <2>1. OwnRow(th[u]) /\ Entitled(th[u])
    BY <1>1 DEF RequestOK
  <2>2. th[u].pc = "confirm" => th[u].for = "login"
    BY <2>1 DEF Entitled
  <2> QED
    BY <2>1, <2>2 DEF OwnRow
<1>5. Judged(th[u])'
  <2>1. Judged(th[u]) /\ Entitled(th[u])
    BY <1>1 DEF RequestOK
  <2>2. th[u].pc = "answer" => th[u].tok \in Tokens /\ th[u].for # "login"
    BY <2>1 DEF Entitled
  <2> QED
    BY <2>1, <2>2 DEF Judged
<1>6. Informed(th[u])'
  BY <1>1 DEF RequestOK, Informed
<1> QED
  BY <1>2, <1>3, <1>4, <1>5, <1>6 DEF RequestOK

(* A request that ends relies on nothing.                                  *)
LEMMA Ended ==
    ASSUME TypeOK', NEW u \in Threads, th'[u] = Idle
    PROVE  RequestOK(th[u])'
<1>1. file'.sig \in Nat
  BY Constant DEF TypeOK, File, Sig
<1>2. Timely(th[u])' /\ Entitled(th[u])'
  BY <1>1, TokensAssumption DEF Timely, Entitled, Idle, Reading
<1>3. OwnRow(th[u])' /\ Judged(th[u])' /\ Informed(th[u])'
  BY DEF OwnRow, Judged, Informed, Idle, Reading
<1> QED
  BY <1>2, <1>3 DEF RequestOK

(* A step that changes one request only.                                   *)
LEMMA Move ==
    ASSUME IInv, UNCHANGED <<file, database, token, disturbed>>,
           NEW t \in Threads, NEW r \in Request, Become(t, r), RequestOK(r),
           r.pc \in Reading => th[t].pc \in Reading \/ MayReadLock,
           r.pc \in Writing => th[t].pc \in Writing \/ MayWriteLock,
           r.for = "login" => th[t].for = "login" /\ th[t].tok = r.tok,
           th[t].pc \in {"dumped", "read back"} => r.pc \in {"dumped", "read back"}
    PROVE  IInv'
<1>1. /\ th' \in [Threads -> Request] /\ th'[t] = r
      /\ \A u \in Threads : u # t => th'[u] = th[u]
      /\ Locks' /\ OneLogin'
  BY Turn
<1>2. UNCHANGED <<file, auth, sessions, cache, token, disturbed>>
  BY DEF database
<1>9. disturbed' <=> disturbed
  <2>1. disturbed' = disturbed
    BY <1>2
  <2> QED
    BY ONLY <2>1, Zenon
<1>3. TypeOK'
  BY <1>1, <1>2 DEF IInv, TypeOK
<1>4. RequestsOK'
  <2> SUFFICES ASSUME NEW u \in Threads PROVE RequestOK(th[u])'
    BY DEF RequestsOK
  <2>1. RequestOK(th[u]) /\ (th'[u] = th[u] \/ th'[u] = r)
    BY <1>1 DEF IInv, RequestsOK
  <2>2. Timely(th[u])'
    BY <1>2, <2>1 DEF RequestOK, Timely
  <2>3. Entitled(th[u])'
    BY <1>2, <2>1 DEF RequestOK, Entitled
  <2>4. OwnRow(th[u])'
    <3>1. OwnRow(th'[u]) /\ sessions' = sessions
      BY <1>2, <2>1 DEF RequestOK
    <3> QED
      BY <3>1, <1>9 DEF OwnRow
  <2>5. Judged(th[u])'
    BY <1>2, <2>1 DEF RequestOK, Judged, OutdatedRow
  <2>6. Informed(th[u])'
    BY <1>2, <1>9, <2>1 DEF RequestOK, Informed
  <2> QED
    BY <2>2, <2>3, <2>4, <2>5, <2>6 DEF RequestOK
<1>5. Rows' /\ Marks'
  BY <1>2 DEF IInv, Rows, Marks, OutdatedRow, NoRow
<1>6. Kept'
  <2>1. Replaced => Replaced'
    BY <1>1 DEF Replaced
  <2>2. Kept
    BY DEF IInv
  <2> QED
    BY <1>2, <1>9, <2>1, <2>2 DEF Kept
<1> QED
  BY <1>1, <1>3, <1>4, <1>5, <1>6 DEF IInv

(* A request that ends before it replaced the file changes nothing else.   *)
LEMMA Ends ==
    ASSUME IInv, UNCHANGED <<file, database, token, disturbed>>,
           NEW t \in Threads, Become(t, Idle), th[t].pc \notin {"dumped", "read back"}
    PROVE  IInv'
<1>1. RequestOK(Idle)
  BY IdleOK DEF IInv
<1>2. Idle.pc \notin Reading \cup Writing
  BY Constant DEF Reading, Writing
<1> QED
  BY <1>1, <1>2, Constant, Move

(* Moving on without anything else.                                        *)
LEMMA GotoIsBecome ==
    ASSUME TypeOK, NEW t \in Threads, NEW pc \in PC, Goto(t, pc)
    PROVE  LET r == [th[t] EXCEPT !.pc = pc] IN
           /\ Become(t, r) /\ r \in Request
           /\ r.pc = pc /\ r.for = th[t].for /\ r.tok = th[t].tok /\ r.pw = th[t].pw
           /\ r.sig = th[t].sig /\ r.valid = th[t].valid
BY DEF TypeOK, Goto, Become, Request

LEMMA Kinds ==
    ASSUME TypeOK, NEW t \in Threads
    PROVE  th[t] \in Request /\ file.pw \in Passwords /\ file.sig \in 0..MaxSig /\ file.sig \in Nat \ {0}
BY Constant DEF TypeOK, File, Sig

-----------------------------------------------------------------------------
(* The steps that move one request.                                        *)

LEMMA EnterStep == ASSUME IInv, NEW t \in Threads, Enter(t) PROVE IInv'
<1> DEFINE r == [th[t] EXCEPT !.pc = "sync", !.pw = file.pw, !.sig = file.sig]
<1>t. TypeOK /\ RequestOK(th[t]) /\ Locks
  BY DEF IInv, RequestsOK
<1>1. th[t].pc = "entering" /\ th[t].for # "login" /\ MayReadLock
  BY DEF Enter
<1>2. r \in Request /\ r.pc = "sync" /\ r.pw = file.pw /\ r.sig = file.sig /\ r.for = th[t].for /\ r.tok = th[t].tok
  BY <1>t, <1>1, Kinds DEF Request, PC, Reading, Writing, Valid
<1> HIDE DEF r
<1>3. RequestOK(r)
  BY <1>t, <1>1, <1>2, Kinds, Constant DEF RequestOK, Timely, Entitled, OwnRow, Judged, Informed, Reading
<1>4. UNCHANGED <<file, database, token, disturbed>> /\ Become(t, r)
  BY DEF Enter, Become, r
<1> QED
  BY <1>1, <1>2, <1>3, <1>4, Move DEF Reading, Writing

LEMMA LookupStep == ASSUME IInv, NEW t \in Threads, Lookup(t) PROVE IInv'
<1> DEFINE v == Valid(th[t].tok, th[t].pw)
           r == [th[t] EXCEPT !.pc = "answer", !.valid = v]
<1>t. TypeOK /\ RequestOK(th[t]) /\ Locks
  BY DEF IInv, RequestsOK
<1>1. th[t].pc = "lookup"
  BY DEF Lookup
<1>5. /\ th[t].tok \in Tokens /\ th[t].for # "login"
      /\ Valid(th[t].tok, th[t].pw) =>
            /\ token[th[t].tok].pw = th[t].pw
            /\ token[th[t].tok].outdated => th[t].sig # file.sig
  <2>1. th[t].tok \in Tokens /\ th[t].for # "login" /\ token[th[t].tok].state \in {"held", "out"}
    BY <1>t, <1>1 DEF RequestOK, Entitled
  <2>2. ASSUME Valid(th[t].tok, th[t].pw)
        PROVE  /\ token[th[t].tok].pw = th[t].pw
               /\ token[th[t].tok].outdated => th[t].sig # file.sig
    <3> DEFINE s == [tok |-> th[t].tok, pw |-> th[t].pw]
    <3>1. s \in sessions /\ s.tok = th[t].tok /\ s.pw = th[t].pw
      BY <2>2 DEF Valid
    <3>2. token[th[t].tok].outdated => OutdatedRow
      BY <3>1 DEF OutdatedRow
    <3> QED
      BY <1>t, <1>1, <2>1, <3>1, <3>2 DEF IInv, Rows, RequestOK, Judged
  <2> QED
    BY <2>1, <2>2
<1>4. UNCHANGED <<file, database, token, disturbed>> /\ Become(t, r)
  BY DEF Lookup, Become
<1>6. v \in BOOLEAN
  BY DEF Valid
<1>7. v => token[th[t].tok].pw = th[t].pw /\ (token[th[t].tok].outdated => th[t].sig # file.sig)
  BY <1>5
<1> HIDE DEF v
<1>2. /\ r \in Request /\ r.pc = "answer" /\ r.pw = th[t].pw /\ r.sig = th[t].sig
      /\ r.for = th[t].for /\ r.tok = th[t].tok /\ r.valid = v
  BY <1>6, Kinds, <1>t DEF Request, PC, Reading, Writing
<1> HIDE DEF r
<1>3. RequestOK(r)
  <2>1. Timely(r) /\ Informed(r) /\ Judged(r)
    BY <1>t, <1>1, <1>2, <1>7 DEF RequestOK, Timely, Informed, Judged, Reading
  <2>2. Entitled(r) /\ OwnRow(r)
    BY <1>t, <1>1, <1>2, <1>5 DEF RequestOK, Entitled, OwnRow
  <2> QED
    BY <2>1, <2>2 DEF RequestOK
<1> QED
  BY <1>1, <1>2, <1>3, <1>4, Move DEF Reading, Writing

LEMMA AnswerStep == ASSUME IInv, NEW t \in Threads, Answer(t) PROVE IInv'
<1>t. TypeOK /\ RequestOK(th[t]) /\ Locks
  BY DEF IInv, RequestsOK
<1>1. th[t].pc = "answer" /\ UNCHANGED <<file, database, token, disturbed>>
  BY DEF Answer
<1>2. th[t].for # "login" /\ th[t].tok \in Tokens /\ token[th[t].tok].state \in {"held", "out"}
  BY <1>t, <1>1 DEF RequestOK, Entitled
<1>3. CASE SnapshotHolds(t) /\ th[t].valid
  <2> DEFINE r == Accepted(t)
  <2>1. /\ r \in Request /\ r.for = th[t].for
        /\ r.tok = IF th[t].for = "save" THEN "none" ELSE th[t].tok
        /\ r.pc = CASE th[t].for = "save" -> "saving"
                    [] th[t].for = "logout" -> "revoking"
                    [] OTHER -> "streaming"
        /\ r.sig = 0
    <3> DEFINE pc == CASE th[t].for = "save" -> "saving"
                       [] th[t].for = "logout" -> "revoking"
                       [] OTHER -> "streaming"
               k == IF th[t].for = "save" THEN "none" ELSE th[t].tok
    <3>1. pc \in PC
      BY DEF PC
    <3>2. k \in Tokens \cup {"none"} /\ th[t].for \in Purpose \cup {"none"}
      BY <1>t, <1>2, Kinds DEF Request
    <3>3. r = [Idle EXCEPT !.for = th[t].for, !.tok = k, !.pc = pc]
      BY DEF Accepted
    <3> HIDE DEF r, pc, k
    <3>4. r \in Request /\ r.for = th[t].for /\ r.tok = k /\ r.pc = pc /\ r.sig = 0
      BY <3>1, <3>2, <3>3, Constant DEF Idle, Request
    <3> QED
      BY <3>4 DEF pc, k
  <2> HIDE DEF r
  <2>2. RequestOK(r)
    <3>1. r.pc \in {"saving", "revoking", "streaming"}
      BY <2>1
    <3>2. Timely(r)
      BY <1>t, <2>1, <3>1, Kinds DEF Timely, Reading
    <3>3. Entitled(r)
      <4>1. CASE th[t].for = "save"
        BY <2>1, <4>1, TokensAssumption DEF Entitled
      <4>2. CASE th[t].for # "save"
        BY <1>2, <2>1, <4>2 DEF Entitled
      <4> QED
        BY <4>1, <4>2
    <3>4. OwnRow(r)
      BY <1>2, <2>1, <3>1 DEF OwnRow
    <3>5. Judged(r) /\ Informed(r)
      BY <3>1 DEF Judged, Informed, Reading
    <3> QED
      BY <3>2, <3>3, <3>4, <3>5 DEF RequestOK
  <2>3. Become(t, r)
    BY <1>3 DEF Answer, r
  <2> QED
    BY <1>1, <1>2, <2>1, <2>2, <2>3, Move DEF Reading, Writing
<1>4. CASE SnapshotHolds(t) /\ ~th[t].valid
  BY <1>1, <1>4, Ends DEF Answer
<1>5. CASE ~SnapshotHolds(t)
  <2> DEFINE r == [th[t] EXCEPT !.pc = "sync", !.pw = file.pw, !.sig = file.sig,
                               !.valid = FALSE, !.answered = TRUE]
  <2>1. r \in Request /\ r.pc = "sync" /\ r.pw = file.pw /\ r.sig = file.sig /\ r.for = th[t].for /\ r.tok = th[t].tok
    BY <1>t, Kinds DEF Request, PC, Reading, Writing
  <2> HIDE DEF r
  <2>2. RequestOK(r)
    <3>1. Timely(r) /\ Judged(r) /\ Informed(r)
      BY <1>t, <2>1, Kinds DEF Timely, Judged, Informed, Reading
    <3>2. Entitled(r) /\ OwnRow(r)
      BY <1>2, <2>1 DEF Entitled, OwnRow
    <3> QED
      BY <3>1, <3>2 DEF RequestOK
  <2>3. Become(t, r)
    BY <1>5 DEF Answer, r
  <2> QED
    BY <1>1, <1>2, <2>1, <2>2, <2>3, Move DEF Reading, Writing
<1> QED
  BY <1>3, <1>4, <1>5

LEMMA UnavailableStep == ASSUME IInv, NEW t \in Threads, Unavailable(t) PROVE IInv'
<1>1. UNCHANGED <<file, database, token, disturbed>> /\ Become(t, Idle) /\ th[t].pc \notin {"dumped", "read back"}
  BY DEF Unavailable
<1> QED
  BY <1>1, Ends

LEMMA BeginStep == ASSUME IInv, NEW t \in Threads, Begin(t) \/ BeginUnknown(t) PROVE IInv'
<1>t. TypeOK
  BY DEF IInv
<1>1. /\ th[t].pc = "idle"
      /\ UNCHANGED <<file, database, token, disturbed>>
      /\ \E k \in Tokens \cup {"none"}, op \in Purpose \ {"login"} :
            /\ k \in Tokens => token[k].state \in {"held", "out"}
            /\ Become(t, [Idle EXCEPT !.pc = "entering", !.for = op, !.tok = k])
  <2>1. CASE Begin(t)
    BY <2>1, ServesAssumption DEF Begin
  <2>2. CASE BeginUnknown(t)
    <3>1. Become(t, [Idle EXCEPT !.pc = "entering", !.for = "stream", !.tok = "none"])
      BY <2>2 DEF BeginUnknown
    <3> QED
      BY <2>2, <3>1, TokensAssumption DEF BeginUnknown, Purpose
  <2> QED
    BY <2>1, <2>2
<1>2. PICK k \in Tokens \cup {"none"}, op \in Purpose \ {"login"} :
        /\ k \in Tokens => token[k].state \in {"held", "out"}
        /\ Become(t, [Idle EXCEPT !.pc = "entering", !.for = op, !.tok = k])
  BY <1>1
<1> DEFINE r == [Idle EXCEPT !.pc = "entering", !.for = op, !.tok = k]
<1>3. r \in Request /\ r.pc = "entering" /\ r.for = op /\ r.tok = k /\ r.sig = 0
  BY Constant DEF Idle, Request, PC, Reading, Writing
<1>4. RequestOK(r)
  BY <1>t, <1>2, <1>3, Constant
     DEF TypeOK, File, Sig, RequestOK, Timely, Entitled, OwnRow, Judged, Informed, Reading
<1> HIDE DEF r
<1>5. Become(t, r)
  BY <1>2 DEF r
<1> QED
  BY <1>1, <1>3, <1>4, <1>5, Move DEF Reading, Writing

LEMMA RevalidateStep == ASSUME IInv, NEW t \in Threads, Revalidate(t) PROVE IInv'
<1> DEFINE r == [th[t] EXCEPT !.pc = "entering"]
<1>t. TypeOK /\ RequestOK(th[t]) /\ Locks
  BY DEF IInv, RequestsOK
<1>1. th[t].pc = "streaming" /\ Goto(t, "entering") /\ UNCHANGED <<file, database, token, disturbed>>
  BY DEF Revalidate
<1>2. /\ Become(t, r) /\ r \in Request /\ r.pc = "entering" /\ r.for = th[t].for
      /\ r.tok = th[t].tok /\ r.pw = th[t].pw /\ r.sig = th[t].sig /\ r.valid = th[t].valid
  BY <1>t, <1>1, GotoIsBecome DEF PC, Reading, Writing
<1>3. RequestOK(r)
  BY <1>t, <1>1, <1>2, Constant DEF RequestOK, Timely, Entitled, OwnRow, Judged, Informed, Reading
<1> HIDE DEF r
<1> QED
  BY <1>1, <1>2, <1>3, Move DEF Reading, Writing

LEMMA StreamEndsStep == ASSUME IInv, NEW t \in Threads, StreamEnds(t) PROVE IInv'
<1>1. UNCHANGED <<file, database, token, disturbed>> /\ Become(t, Idle) /\ th[t].pc \notin {"dumped", "read back"}
  BY DEF StreamEnds
<1> QED
  BY <1>1, Ends

LEMMA EnterLoginStep == ASSUME IInv, NEW t \in Threads, EnterLogin(t) PROVE IInv'
<1>t. TypeOK /\ RequestOK(th[t])
  BY DEF IInv, RequestsOK
<1>1. /\ th[t].pc = "entering" /\ th[t].for = "login" /\ MayReadLock
      /\ UNCHANGED <<file, database, token, disturbed>>
  BY DEF EnterLogin
<1>2. CASE th[t].pw = file.pw
  <2> DEFINE r == [th[t] EXCEPT !.pc = "create", !.sig = file.sig]
  <2>1. r \in Request /\ r.pc = "create" /\ r.sig = file.sig /\ r.pw = file.pw /\ r.for = "login" /\ r.tok = th[t].tok
    BY <1>t, <1>1, <1>2, Kinds DEF Request, PC, Reading, Writing
  <2> HIDE DEF r
  <2>2. RequestOK(r)
    BY <1>t, <1>1, <2>1, Kinds
       DEF RequestOK, Timely, Entitled, OwnRow, Judged, Informed, Reading
  <2>3. Become(t, r)
    BY <1>2 DEF EnterLogin, r
  <2> QED
    BY <1>1, <2>1, <2>2, <2>3, Move DEF Reading, Writing
<1>3. CASE th[t].pw # file.pw
  BY <1>1, <1>3, Ends DEF EnterLogin
<1> QED
  BY <1>2, <1>3

LEMMA LoadDocumentStep == ASSUME IInv, NEW t \in Threads, LoadDocument(t) PROVE IInv'
<1> DEFINE r == [th[t] EXCEPT !.pc = "loaded", !.pw = file.pw]
<1>t. TypeOK /\ RequestOK(th[t]) /\ Locks
  BY DEF IInv, RequestsOK
<1>1. th[t].pc = "saving" /\ MayWriteLock
  BY DEF LoadDocument
<1>2. r \in Request /\ r.pc = "loaded" /\ r.pw = file.pw /\ r.sig = th[t].sig /\ r.for = th[t].for /\ r.tok = th[t].tok
  BY <1>t, <1>1, Kinds DEF Request, PC, Reading, Writing, Valid
<1> HIDE DEF r
<1>3. RequestOK(r)
  BY <1>t, <1>1, <1>2, Kinds, Constant DEF RequestOK, Timely, Entitled, OwnRow, Judged, Informed, Reading
<1>4. UNCHANGED <<file, database, token, disturbed>> /\ Become(t, r)
  BY DEF LoadDocument, Become, r
<1> QED
  BY <1>1, <1>2, <1>3, <1>4, Move DEF Reading, Writing

LEMMA WriteFailsStep == ASSUME IInv, NEW t \in Threads, WriteFails(t) PROVE IInv'
<1>1. UNCHANGED <<file, database, token, disturbed>> /\ Become(t, Idle) /\ th[t].pc \notin {"dumped", "read back"}
  BY DEF WriteFails
<1> QED
  BY <1>1, Ends

LEMMA ReadBackStep == ASSUME IInv, NEW t \in Threads, ReadBack(t) PROVE IInv'
<1> DEFINE r == [th[t] EXCEPT !.pc = "read back", !.pw = file.pw]
<1>t. TypeOK /\ RequestOK(th[t]) /\ Locks
  BY DEF IInv, RequestsOK
<1>1. th[t].pc = "dumped"
  BY DEF ReadBack
<1>2. r \in Request /\ r.pc = "read back" /\ r.pw = file.pw /\ r.sig = th[t].sig /\ r.for = th[t].for /\ r.tok = th[t].tok
  BY <1>t, <1>1, Kinds DEF Request, PC, Reading, Writing, Valid
<1> HIDE DEF r
<1>3. RequestOK(r)
  BY <1>t, <1>1, <1>2, Kinds, Constant DEF RequestOK, Timely, Entitled, OwnRow, Judged, Informed, Reading
<1>4. UNCHANGED <<file, database, token, disturbed>> /\ Become(t, r)
  BY DEF ReadBack, Become, r
<1> QED
  BY <1>1, <1>2, <1>3, <1>4, Move DEF Reading, Writing

LEMMA UnlockStep == ASSUME IInv, NEW t \in Threads, Unlock(t) PROVE IInv'
<1>1. UNCHANGED <<file, database, token, disturbed>> /\ Become(t, Idle) /\ th[t].pc \notin {"dumped", "read back"}
  BY DEF Unlock
<1> QED
  BY <1>1, Ends

-----------------------------------------------------------------------------
(* The steps that change the rows, the tokens or the file.                 *)

LEMMA Change ==
    ASSUME IInv, NEW t \in Threads, NEW r \in Request, Become(t, r), RequestOK(th[t])',
           r.pc \in Reading => th[t].pc \in Reading \/ MayReadLock,
           r.pc \in Writing => th[t].pc \in Writing \/ MayWriteLock,
           r.for = "login" =>
               \/ th[t].for = "login" /\ th[t].tok = r.tok
               \/ \A u \in Threads : th[u].for = "login" => th[u].tok # r.tok,
           file' = file, disturbed => disturbed', disturbed' \in BOOLEAN,
           auth' \in Auth, sessions' \subseteq [tok: Tokens, pw: Passwords], cache' \in [Workers -> Auth],
           token' \in [Tokens -> [state: {"undrawn", "drawn", "held", "out"}, pw: Passwords, outdated: BOOLEAN]],
           \A u \in Threads \ {t} :
               th[u].tok \in Tokens =>
                   LET k == th[u].tok IN
                   /\ token'[k].outdated => token[k].outdated
                   /\ th[u].for = "login" => token'[k].state = "drawn"
                   /\ th[u].for # "login" => token'[k].state \in {"held", "out"} /\ token'[k].pw = token[k].pw,
           \A u \in Threads \ {t}, s \in sessions' :
               s \in sessions \/ (th[u].for = "login" => s.tok # th[u].tok),
           \A u \in Threads \ {t} :
               th[u].pc = "confirm" /\ ~disturbed' /\ [tok |-> th[u].tok, pw |-> th[u].pw] \in sessions =>
                   [tok |-> th[u].tok, pw |-> th[u].pw] \in sessions',
           OutdatedRow' => OutdatedRow,
           Rows', Marks', Kept'
    PROVE  IInv'
<1>1. /\ th' \in [Threads -> Request] /\ \A u \in Threads : u # t => th'[u] = th[u]
      /\ Locks' /\ OneLogin'
  BY Turn
<1>2. TypeOK'
  BY <1>1 DEF IInv, TypeOK
<1>3. ASSUME NEW u \in Threads PROVE RequestOK(th[u])'
  <2>1. CASE u = t
    BY <2>1
  <2>2. CASE u # t
    BY <1>1, <2>2, Others
  <2> QED
    BY <2>1, <2>2
<1>4. RequestsOK'
  BY <1>3 DEF RequestsOK
<1> QED
  BY <1>1, <1>2, <1>4 DEF IInv

(* A transaction that vouches for nothing: it closes every session, or the *)
(* row was already the one it writes; undisturbed it closes none.          *)
LEMMA Transaction ==
    ASSUME IInv, NEW t \in Threads, th[t].pc \in Reading
    PROVE  LET row == [pw |-> th[t].pw, sig |-> th[t].sig]
               S == SessionsAfter(th[t].pw, th[t].sig, FALSE)
               C == CacheAfter(th[t].pw, th[t].sig, FALSE)
           IN  /\ row \in Auth /\ row # NoRow /\ row.sig <= file.sig
               /\ S \subseteq sessions
               /\ C \in [Workers -> Auth] /\ \A w \in Workers : C[w].sig <= file.sig
               /\ S # {} /\ OutdatedRow => row.sig # file.sig /\ C = cache
               /\ ~disturbed => S = sessions /\ row.pw = file.pw /\ row.sig = file.sig
<1> DEFINE row == [pw |-> th[t].pw, sig |-> th[t].sig]
           S == SessionsAfter(th[t].pw, th[t].sig, FALSE)
           C == CacheAfter(th[t].pw, th[t].sig, FALSE)
           N == NewGeneration(th[t].pw, th[t].sig, FALSE)
<1>t. TypeOK /\ RequestOK(th[t]) /\ Locks /\ Rows /\ Marks /\ Kept
  BY DEF IInv, RequestsOK
<1>1. row \in Auth /\ row.sig # 0 /\ row.sig <= file.sig
  BY <1>t, Kinds DEF RequestOK, Timely, Auth, Request
<1>2. row # NoRow
  BY <1>1, Constant
<1>3. S \subseteq sessions /\ (N => S = {}) /\ (~N => S = sessions)
  BY DEF SessionsAfter
<1>4. (N => C = [w \in Workers |-> NoRow]) /\ (~N => C = cache)
  BY DEF CacheAfter
<1>5. file.sig \in Nat
  BY <1>t, Kinds
<1>7. ~N => auth.sig = row.sig
  BY DEF NewGeneration
<1>10. row.pw = th[t].pw /\ row.sig = th[t].sig
  OBVIOUS
<1>11. auth # NoRow /\ auth.pw = th[t].pw /\ auth.sig = th[t].sig => ~N
  BY DEF NewGeneration
<1> HIDE DEF row, S, C, N
<1>6. C \in [Workers -> Auth] /\ \A w \in Workers : C[w].sig <= file.sig
  <2>1. CASE N
    BY <1>4, <1>5, <2>1, Constant
  <2>2. CASE ~N
    BY <1>t, <1>4, <2>2 DEF TypeOK, Rows
  <2> QED
    BY <2>1, <2>2
<1>8. S # {} /\ OutdatedRow => row.sig # file.sig /\ C = cache
  BY <1>t, <1>3, <1>4, <1>7 DEF Marks
<1>9. ASSUME ~disturbed PROVE S = sessions /\ row.pw = file.pw /\ row.sig = file.sig
  <2>1. row.pw = file.pw /\ row.sig = file.sig
    BY <1>t, <1>9, <1>10 DEF RequestOK, Informed
  <2>2. ~Replaced
    BY <1>t DEF Locks, Replaced, Reading, Writing
  <2>3. CASE auth = NoRow
    <3>1. sessions # {} => auth # NoRow
      BY <1>t DEF Rows
    <3>2. sessions = {}
      BY <2>3, <3>1
    <3> QED
      BY <1>3, <2>1, <3>2
  <2>4. CASE auth # NoRow
    <3>1. auth.pw = th[t].pw /\ auth.sig = th[t].sig
      BY <1>t, <1>9, <1>10, <2>1, <2>2, <2>4 DEF Kept
    <3>2. ~N
      BY <1>11, <2>4, <3>1
    <3> QED
      BY <1>3, <2>1, <3>2
  <2> QED
    BY <2>1, <2>3, <2>4
<1> QED
  BY <1>1, <1>2, <1>3, <1>6, <1>8, <1>9 DEF row, S, C

(* Where a check goes once the database is up to date.                     *)
LEMMA Synced ==
    ASSUME IInv, NEW t \in Threads, th[t].pc \in {"sync", "remember"},
           OutdatedRow => th[t].sig # file.sig
    PROVE  /\ AfterSync(t) \in Request /\ RequestOK(AfterSync(t))
           /\ AfterSync(t).pc \in {"idle", "lookup"} /\ AfterSync(t).for # "login"
<1> DEFINE r == AfterSync(t)
<1>t. TypeOK /\ RequestOK(th[t])
  BY DEF IInv, RequestsOK
<1>1. th[t].for # "login"
  BY <1>t DEF RequestOK, Entitled
<1>2. CASE r = Idle
  BY <1>t, <1>2, IdleOK, Constant
<1>3. CASE r # Idle
  <2>1. r = [th[t] EXCEPT !.pc = "lookup"] /\ th[t].tok # "none"
    BY <1>3 DEF AfterSync
  <2>2. /\ r \in Request /\ r.pc = "lookup" /\ r.for = th[t].for /\ r.tok = th[t].tok
        /\ r.pw = th[t].pw /\ r.sig = th[t].sig /\ r.tok \in Tokens
    BY <1>t, <2>1, Kinds DEF Request, PC, Reading
  <2> HIDE DEF r
  <2>3. Timely(r) /\ Informed(r) /\ Judged(r)
    BY <1>t, <2>2 DEF RequestOK, Timely, Informed, Judged, Reading
  <2>4. Entitled(r) /\ OwnRow(r)
    BY <1>t, <1>1, <2>2 DEF RequestOK, Entitled, OwnRow
  <2>5. RequestOK(r)
    BY <2>3, <2>4 DEF RequestOK
  <2> QED
    BY <1>1, <2>2, <2>5 DEF r
<1> QED
  BY <1>2, <1>3

LEMMA SyncStep == ASSUME IInv, NEW t \in Threads, Sync(t) PROVE IInv'
<1> DEFINE w == WorkerOf[t]
<1>t. TypeOK /\ RequestOK(th[t]) /\ Locks /\ Rows /\ Marks /\ Kept /\ RequestsOK
  BY DEF IInv, RequestsOK
<1>1. th[t].pc = "sync" /\ UNCHANGED <<file, token, disturbed>> /\ th[t].pc \in Reading
  BY DEF Sync, Reading
<1>2. CASE Remembered(w, th[t].pw, th[t].sig)
  <2>1. UNCHANGED <<file, database, token, disturbed>> /\ Become(t, AfterSync(t))
    BY <1>2 DEF Sync
  <2>2. w \in Workers
    BY WorkersAssumption
  <2>3. OutdatedRow => th[t].sig # file.sig
    BY <1>t, <1>2, <2>2 DEF Marks, Remembered
  <2>4. /\ AfterSync(t) \in Request /\ RequestOK(AfterSync(t))
        /\ AfterSync(t).pc \in {"idle", "lookup"} /\ AfterSync(t).for # "login"
    BY <1>1, <2>3, Synced
  <2> QED
    BY <1>1, <2>1, <2>4, Move DEF Reading, Writing
<1>3. CASE ~Remembered(w, th[t].pw, th[t].sig)
  <2> DEFINE r == [th[t] EXCEPT !.pc = "remember"]
  <2>1. /\ auth' = [pw |-> th[t].pw, sig |-> th[t].sig]
        /\ sessions' = SessionsAfter(th[t].pw, th[t].sig, FALSE)
        /\ cache' = CacheAfter(th[t].pw, th[t].sig, FALSE)
        /\ Goto(t, "remember")
    BY <1>3 DEF Sync
  <2>2. /\ auth' \in Auth /\ auth' # NoRow /\ auth'.sig <= file.sig /\ auth'.sig = th[t].sig
        /\ sessions' \subseteq sessions
        /\ cache' \in [Workers -> Auth] /\ \A v \in Workers : cache'[v].sig <= file.sig
        /\ sessions' # {} /\ OutdatedRow => th[t].sig # file.sig /\ cache' = cache
        /\ ~disturbed => sessions' = sessions /\ auth'.pw = file.pw /\ auth'.sig = file.sig
    BY <1>1, <2>1, Transaction
  <2>3. /\ Become(t, r) /\ r \in Request /\ r.pc = "remember" /\ r.for = th[t].for
        /\ r.tok = th[t].tok /\ r.pw = th[t].pw /\ r.sig = th[t].sig
    BY <1>t, <2>1, GotoIsBecome DEF PC, Reading
  <2>4. disturbed' <=> disturbed
    <3>1. disturbed' = disturbed
      BY <1>1
    <3> QED
      BY ONLY <3>1, Zenon
  <2>5. OutdatedRow' => OutdatedRow /\ sessions' # {}
    BY <1>1, <2>2 DEF OutdatedRow
  <2>6. Rows'
    BY <1>1, <1>t, <2>2, Constant DEF Rows, NoRow
  <2>7. Marks'
    BY <1>1, <1>t, <2>2, <2>5 DEF Marks
  <2>8. Kept'
    BY <1>1, <1>t, <2>2, <2>4 DEF Kept
  <2>9. th'[t] = r
    BY <1>t, <2>3 DEF TypeOK, Become
  <2> HIDE DEF r
  <2>10. RequestOK(th[t])'
    <3>1. Timely(th[t])' /\ Informed(th[t])'
      BY <1>1, <1>t, <2>3, <2>4, <2>9 DEF RequestOK, Timely, Informed, Reading
    <3>2. Entitled(th[t])'
      BY <1>1, <1>t, <2>3, <2>9 DEF RequestOK, Entitled
    <3>3. OwnRow(th[t])' /\ Judged(th[t])'
      BY <1>1, <1>t, <2>2, <2>3, <2>5, <2>9 DEF RequestOK, Entitled, OwnRow, Judged
    <3> QED
      BY <3>1, <3>2, <3>3 DEF RequestOK
  <2>11. \A u \in Threads : RequestOK(th[u])
    BY <1>t DEF RequestsOK
  <2>12. \A u \in Threads :
            th[u].tok \in Tokens =>
                LET k == th[u].tok IN
                /\ token'[k].outdated => token[k].outdated
                /\ th[u].for = "login" => token'[k].state = "drawn"
                /\ th[u].for # "login" => token'[k].state \in {"held", "out"} /\ token'[k].pw = token[k].pw
    BY <1>1, <2>11 DEF RequestOK, Entitled
  <2>13. \A u \in Threads :
            th[u].pc = "confirm" /\ ~disturbed' /\ [tok |-> th[u].tok, pw |-> th[u].pw] \in sessions =>
                [tok |-> th[u].tok, pw |-> th[u].pw] \in sessions'
    BY <2>2, <2>4
  <2>14. sessions' \subseteq [tok: Tokens, pw: Passwords] /\ disturbed' \in BOOLEAN
    BY <1>1, <1>t, <2>2 DEF TypeOK
  <2>15. token' \in [Tokens -> [state: {"undrawn", "drawn", "held", "out"}, pw: Passwords, outdated: BOOLEAN]]
    BY <1>1, <1>t DEF TypeOK
  <2>16. r.pc \in Reading /\ r.pc \notin Writing /\ r.for # "login"
    BY <1>1, <1>t, <2>3 DEF Reading, Writing, RequestOK, Entitled
  <2> QED
    BY <1>1, <2>2, <2>3, <2>4, <2>5, <2>6, <2>7, <2>8, <2>10, <2>12, <2>13, <2>14, <2>15, <2>16, Change
<1> QED
  BY <1>2, <1>3

(* What the others may rely on when no token changes.                      *)
LEMMA SameTokens ==
    ASSUME IInv, token' = token
    PROVE  /\ token' \in [Tokens -> [state: {"undrawn", "drawn", "held", "out"}, pw: Passwords, outdated: BOOLEAN]]
           /\ \A u \in Threads :
                th[u].tok \in Tokens =>
                    LET k == th[u].tok IN
                    /\ token'[k].outdated => token[k].outdated
                    /\ th[u].for = "login" => token'[k].state = "drawn"
                    /\ th[u].for # "login" => token'[k].state \in {"held", "out"} /\ token'[k].pw = token[k].pw
<1>1. \A u \in Threads : RequestOK(th[u])
  BY DEF IInv, RequestsOK
<1>2. token' \in [Tokens -> [state: {"undrawn", "drawn", "held", "out"}, pw: Passwords, outdated: BOOLEAN]]
  BY DEF IInv, TypeOK
<1> QED
  BY <1>1, <1>2 DEF RequestOK, Entitled

LEMMA RememberStep == ASSUME IInv, NEW t \in Threads, Remember(t) PROVE IInv'
<1> DEFINE w == WorkerOf[t]
           r == AfterSync(t)
<1>t. TypeOK /\ RequestOK(th[t]) /\ Rows /\ Marks /\ Kept
  BY DEF IInv, RequestsOK
<1>1. /\ th[t].pc = "remember" /\ UNCHANGED <<file, auth, sessions, token, disturbed>>
      /\ Become(t, r) /\ cache' = [cache EXCEPT ![w] = [pw |-> th[t].pw, sig |-> th[t].sig]]
  BY DEF Remember
<1>2. OutdatedRow => th[t].sig # file.sig
  BY <1>1, <1>t DEF RequestOK, Judged
<1>3. r \in Request /\ RequestOK(r) /\ r.pc \in {"idle", "lookup"} /\ r.for # "login"
  BY <1>1, <1>2, Synced
<1> HIDE DEF r
<1>4. cache' \in [Workers -> Auth] /\ \A v \in Workers : cache'[v] = cache[v] \/ cache'[v].sig = th[t].sig
  BY <1>1, <1>t, Kinds DEF TypeOK, Auth, Request
<1>5. OutdatedRow' => OutdatedRow
  BY <1>1 DEF OutdatedRow
<1>6. Rows'
  BY <1>1, <1>t, <1>4 DEF Rows, RequestOK, Timely, NoRow
<1>7. Marks'
  BY <1>1, <1>2, <1>t, <1>4, <1>5 DEF Marks
<1>8. th' = [th EXCEPT ![t] = r] /\ th'[t] = r
  BY <1>1, <1>t DEF TypeOK, Become
<1>9. disturbed' <=> disturbed
  <2>1. disturbed' = disturbed
    BY <1>1
  <2> QED
    BY ONLY <2>1, Zenon
<1>10. Kept'
  <2>1. Replaced => Replaced'
    BY <1>1, <1>8, <1>t DEF Replaced, TypeOK
  <2> QED
    BY <1>1, <1>t, <1>9, <2>1 DEF Kept
<1>11. RequestOK(th[t])'
  <2>1. (Timely(r) /\ Entitled(r) /\ OwnRow(r) /\ Judged(r) /\ Informed(r))
    BY <1>3 DEF RequestOK
  <2>2. Timely(th[t])' /\ Entitled(th[t])' /\ Judged(th[t])'
    BY <1>1, <1>5, <1>8, <2>1 DEF Timely, Entitled, Judged
  <2>3. OwnRow(th[t])'
    <3>1. OwnRow(th'[t]) /\ sessions' = sessions
      BY <1>1, <1>8, <2>1
    <3> QED
      BY <3>1, <1>9 DEF OwnRow
  <2>4. Informed(th[t])'
    BY <1>1, <1>8, <1>9, <2>1 DEF Informed
  <2> QED
    BY <2>2, <2>3, <2>4 DEF RequestOK
<1>12. auth' \in Auth /\ sessions' \subseteq [tok: Tokens, pw: Passwords] /\ disturbed' \in BOOLEAN
  BY <1>1, <1>t DEF TypeOK
<1>13. th[t].pc \in Reading /\ r.pc \notin Writing
  BY <1>1, <1>3 DEF Reading, Writing
<1> QED
  BY <1>1, <1>3, <1>4, <1>5, <1>6, <1>7, <1>9, <1>10, <1>11, <1>12, <1>13, SameTokens, Change

LEMMA ReadPasswordStep == ASSUME IInv, NEW t \in Threads, ReadPassword(t) PROVE IInv'
<1> DEFINE r == [th[t] EXCEPT !.pc = "hashed", !.pw = file.pw]
<1>t. TypeOK /\ RequestOK(th[t])
  BY DEF IInv, RequestsOK
<1>1. th[t].pc = "revoking"
  BY DEF ReadPassword
<1>2. /\ r \in Request /\ r.pc = "hashed" /\ r.sig = th[t].sig /\ r.for = th[t].for /\ r.tok = th[t].tok
  BY <1>t, <1>1, Kinds DEF Request, PC
<1> HIDE DEF r
<1>3. RequestOK(r)
  BY <1>t, <1>1, <1>2 DEF RequestOK, Timely, Entitled, OwnRow, Judged, Informed, Reading
<1>4. UNCHANGED <<file, database, token, disturbed>> /\ Become(t, r)
  BY DEF ReadPassword, Become, r
<1> QED
  BY <1>t, <1>1, <1>2, <1>3, <1>4, Move DEF Reading, Writing, RequestOK, Entitled

LEMMA RevokeStep == ASSUME IInv, NEW t \in Threads, Revoke(t) PROVE IInv'
<1> DEFINE k == th[t].tok
           rows == {s \in sessions : s.tok = th[t].tok /\ s.pw = th[t].pw}
<1>t. TypeOK /\ RequestOK(th[t]) /\ Rows /\ Marks /\ Kept /\ \A u \in Threads : RequestOK(th[u])
  BY DEF IInv, RequestsOK
<1>1. /\ th[t].pc = "hashed" /\ UNCHANGED <<file, auth, cache, disturbed>> /\ Become(t, Idle)
      /\ sessions' = sessions \ rows
      /\ token' = IF rows = {} THEN token ELSE [token EXCEPT ![k].state = "out"]
  BY DEF Revoke
<1>2. k \in Tokens /\ token[k].state \in {"held", "out"} /\ th[t].for # "login"
  BY <1>1, <1>t DEF RequestOK, Entitled
<1>3. sessions' \subseteq sessions /\ \A s \in sessions : s \in sessions' \/ (s.tok = k /\ rows # {})
  BY <1>1
<1>4. token' \in [Tokens -> [state: {"undrawn", "drawn", "held", "out"}, pw: Passwords, outdated: BOOLEAN]]
  BY <1>1, <1>2, <1>t DEF TypeOK
<1>5. \A j \in Tokens :
        /\ token'[j].outdated = token[j].outdated /\ token'[j].pw = token[j].pw
        /\ token'[j].state = token[j].state \/ (j = k /\ token'[j].state = "out")
        /\ j = k /\ rows # {} => token'[j].state = "out"
  BY <1>1, <1>2, <1>t DEF TypeOK
<1> HIDE DEF rows, k
<1>6. sessions' \subseteq [tok: Tokens, pw: Passwords]
  BY <1>3, <1>t DEF TypeOK
<1>7. OutdatedRow' => OutdatedRow
  BY <1>3, <1>5, <1>6 DEF OutdatedRow
<1>8. Rows'
  BY <1>1, <1>2, <1>3, <1>5, <1>6, <1>t DEF Rows, NoRow
<1>9. Marks'
  <2>1. \A j \in Tokens : token'[j].outdated => token'[j].state \in {"held", "out"}
    BY <1>5, <1>t DEF Marks
  <2> QED
    BY <1>1, <1>7, <1>t, <2>1 DEF Marks
<1>10. disturbed' <=> disturbed
  <2>1. disturbed' = disturbed
    BY <1>1
  <2> QED
    BY ONLY <2>1, Zenon
<1>11. Kept'
  <2> SUFFICES ASSUME ~disturbed' PROVE Kept'
    BY DEF Kept
  <2>1. Replaced => Replaced'
    BY <1>1, <1>t DEF Replaced, TypeOK, Become
  <2>2. ASSUME NEW j \in Tokens, token'[j].state = "held"
        PROVE  token'[j].pw = file'.pw /\ [tok |-> j, pw |-> token'[j].pw] \in sessions'
    <3>1. token[j].state = "held" /\ token'[j].pw = token[j].pw /\ ~(j = k /\ rows # {})
      BY <1>5, <2>2
    <3>2. token[j].pw = file.pw /\ [tok |-> j, pw |-> token[j].pw] \in sessions
      BY <1>10, <1>t, <3>1 DEF Kept
    <3> DEFINE s == [tok |-> j, pw |-> token[j].pw]
    <3>3. s \in sessions /\ s.tok = j
      BY <3>2
    <3>4. s \in sessions'
      BY <1>3, <3>1, <3>3
    <3> QED
      BY <1>1, <3>1, <3>2, <3>4
  <2> QED
    BY <1>1, <1>10, <1>t, <2>1, <2>2 DEF Kept, NoRow
<1>12. th'[t] = Idle
  BY <1>1, <1>t DEF TypeOK, Become
<1>13. RequestOK(th[t])'
  <2>1. TypeOK'
    BY <1>1, <1>4, <1>6, <1>t, Constant DEF TypeOK, Become
  <2> QED
    BY <1>12, <2>1, Ended
<1>14. \A u \in Threads :
          th[u].tok \in Tokens =>
              LET j == th[u].tok IN
              /\ token'[j].outdated => token[j].outdated
              /\ th[u].for = "login" => token'[j].state = "drawn"
              /\ th[u].for # "login" => token'[j].state \in {"held", "out"} /\ token'[j].pw = token[j].pw
  BY <1>2, <1>5, <1>t DEF RequestOK, Entitled
<1>15. \A u \in Threads :
          th[u].pc = "confirm" /\ ~disturbed' /\ [tok |-> th[u].tok, pw |-> th[u].pw] \in sessions =>
              [tok |-> th[u].tok, pw |-> th[u].pw] \in sessions'
  <2> SUFFICES ASSUME NEW u \in Threads, th[u].pc = "confirm",
                      [tok |-> th[u].tok, pw |-> th[u].pw] \in sessions
               PROVE  [tok |-> th[u].tok, pw |-> th[u].pw] \in sessions'
    OBVIOUS
  <2>1. token[th[u].tok].state = "drawn"
    BY <1>t DEF RequestOK, Entitled
  <2> DEFINE s == [tok |-> th[u].tok, pw |-> th[u].pw]
  <2>2. s.tok # k
    BY <1>2, <2>1
  <2> QED
    BY <1>3, <2>2
<1>16. auth' \in Auth /\ cache' \in [Workers -> Auth] /\ disturbed' \in BOOLEAN
  BY <1>1, <1>t DEF TypeOK
<1>17. Idle.pc \notin Reading \cup Writing /\ Idle \in Request /\ Idle.for # "login"
  BY Constant DEF Reading, Writing
<1> QED
  BY <1>1, <1>3, <1>4, <1>6, <1>7, <1>8, <1>9, <1>10, <1>11, <1>13, <1>14, <1>15, <1>16, <1>17, Change

LEMMA LoginBegins == ASSUME IInv, NEW t \in Threads, Login(t) PROVE IInv'
<1>t. TypeOK /\ Rows /\ Marks /\ Kept /\ \A u \in Threads : RequestOK(th[u])
  BY DEF IInv, RequestsOK
<1>0. PICK k \in Tokens :
        /\ token[k].state = "undrawn"
        /\ token' = [token EXCEPT ![k].state = "drawn"]
        /\ Become(t, [Idle EXCEPT !.pc = "entering", !.for = "login", !.tok = k, !.pw = file.pw])
  BY DEF Login
<1> DEFINE r == [Idle EXCEPT !.pc = "entering", !.for = "login", !.tok = k, !.pw = file.pw]
<1>1. th[t].pc = "idle" /\ UNCHANGED <<file, auth, sessions, cache, disturbed>> /\ Become(t, r)
  BY <1>0 DEF Login, database
<1>2. r \in Request /\ r.pc = "entering" /\ r.for = "login" /\ r.tok = k /\ r.sig = 0
  BY <1>t, Kinds, Constant DEF Idle, Request, PC, Purpose, Reading, Writing
<1> HIDE DEF r
<1>3. token' \in [Tokens -> [state: {"undrawn", "drawn", "held", "out"}, pw: Passwords, outdated: BOOLEAN]]
  BY <1>0, <1>t DEF TypeOK
<1>4. /\ token'[k].state = "drawn" /\ ~token'[k].outdated
      /\ \A j \in Tokens : j # k => token'[j] = token[j]
  BY <1>0, <1>t DEF TypeOK, Marks
<1>5. \A s \in sessions : s.tok # k /\ s.tok \in Tokens
  BY <1>0, <1>t DEF Rows, TypeOK
<1>6. \A u \in Threads : th[u].tok # k
  BY <1>0, <1>t, TokensAssumption DEF RequestOK, Entitled
<1>7. OutdatedRow' => OutdatedRow
  BY <1>1, <1>4, <1>5 DEF OutdatedRow
<1>8. Rows'
  BY <1>1, <1>4, <1>5, <1>t DEF Rows, NoRow
<1>9. Marks'
  <2>1. \A j \in Tokens : token'[j].outdated => token'[j].state \in {"held", "out"}
    BY <1>4, <1>t DEF Marks
  <2> QED
    BY <1>1, <1>7, <1>t, <2>1 DEF Marks
<1>10. disturbed' <=> disturbed
  <2>1. disturbed' = disturbed
    BY <1>1
  <2> QED
    BY ONLY <2>1, Zenon
<1>11. th'[t] = r
  BY <1>1, <1>t DEF TypeOK, Become
<1>12. Kept'
  <2>1. Replaced => Replaced'
    BY <1>1, <1>t DEF Replaced, TypeOK, Become
  <2>2. \A j \in Tokens : token'[j].state = "held" => j # k
    BY <1>4
  <2> QED
    BY <1>1, <1>4, <1>10, <1>t, <2>1, <2>2 DEF Kept, NoRow
<1>13. RequestOK(th[t])'
  <2>1. file'.sig \in Nat
    BY <1>1, <1>t, Kinds
  <2>2. Timely(th[t])'
    BY <1>2, <1>11, <2>1 DEF Timely, Reading
  <2>4. Judged(th[t])' /\ Informed(th[t])'
    BY <1>2, <1>11 DEF Judged, Informed, Reading
  <2>3. Entitled(th[t])' /\ OwnRow(th[t])'
    BY <1>1, <1>2, <1>4, <1>5, <1>11 DEF Entitled, OwnRow
  <2> QED
    BY <2>2, <2>3, <2>4 DEF RequestOK
<1>14. \A u \in Threads :
          th[u].tok \in Tokens =>
              LET j == th[u].tok IN
              /\ token'[j].outdated => token[j].outdated
              /\ th[u].for = "login" => token'[j].state = "drawn"
              /\ th[u].for # "login" => token'[j].state \in {"held", "out"} /\ token'[j].pw = token[j].pw
  BY <1>4, <1>6, <1>t DEF RequestOK, Entitled
<1>15. /\ auth' \in Auth /\ cache' \in [Workers -> Auth] /\ disturbed' \in BOOLEAN
       /\ sessions' \subseteq [tok: Tokens, pw: Passwords]
  BY <1>1, <1>t DEF TypeOK
<1>16. r.pc \notin Reading \cup Writing
  BY <1>2 DEF Reading, Writing
<1> QED
  BY <1>1, <1>2, <1>3, <1>6, <1>7, <1>8, <1>9, <1>10, <1>12, <1>13, <1>14, <1>15, <1>16, Change

LEMMA CreateSessionStep == ASSUME IInv, NEW t \in Threads, CreateSession(t) PROVE IInv'
<1> DEFINE r == [th[t] EXCEPT !.pc = "confirm"]
           own == [tok |-> th[t].tok, pw |-> th[t].pw]
           S == SessionsAfter(th[t].pw, th[t].sig, FALSE)
<1>t. TypeOK /\ RequestOK(th[t]) /\ Rows /\ Marks /\ Kept /\ OneLogin
  BY DEF IInv, RequestsOK
<1>1. /\ th[t].pc = "create" /\ UNCHANGED <<file, token, disturbed>>
      /\ auth' = [pw |-> th[t].pw, sig |-> th[t].sig]
      /\ sessions' = S \cup {own}
      /\ cache' = CacheAfter(th[t].pw, th[t].sig, FALSE)
      /\ Goto(t, "confirm")
  BY DEF CreateSession
<1>2. /\ auth' \in Auth /\ auth' # NoRow /\ auth'.sig <= file.sig /\ auth'.sig = th[t].sig
      /\ S \subseteq sessions
      /\ cache' \in [Workers -> Auth] /\ \A v \in Workers : cache'[v].sig <= file.sig
      /\ S # {} /\ OutdatedRow => th[t].sig # file.sig /\ cache' = cache
      /\ ~disturbed => S = sessions /\ auth'.pw = file.pw /\ auth'.sig = file.sig
  <2>1. th[t].pc \in Reading
    BY <1>1 DEF Reading
  <2> QED
    BY <1>1, <2>1, Transaction
<1> HIDE DEF S
<1>3. /\ Become(t, r) /\ r \in Request /\ r.pc = "confirm" /\ r.for = th[t].for
      /\ r.tok = th[t].tok /\ r.pw = th[t].pw /\ r.sig = th[t].sig
  BY <1>1, <1>t, GotoIsBecome DEF PC, Reading
<1> HIDE DEF r
<1>4. /\ th[t].for = "login" /\ th[t].tok \in Tokens /\ token[th[t].tok].state = "drawn"
      /\ \A s \in sessions : s.tok # th[t].tok
  BY <1>1, <1>t DEF RequestOK, Entitled, OwnRow
<1>5. own \in [tok: Tokens, pw: Passwords] /\ own.tok = th[t].tok /\ own.pw = th[t].pw
  BY <1>4, <1>t, Kinds DEF Request
<1> HIDE DEF own
<1>6. sessions' \subseteq [tok: Tokens, pw: Passwords]
  BY <1>1, <1>2, <1>5, <1>t DEF TypeOK
<1>7. OutdatedRow' => OutdatedRow /\ S # {}
  <2> SUFFICES ASSUME NEW s \in sessions', token'[s.tok].outdated PROVE OutdatedRow /\ S # {}
    BY DEF OutdatedRow
  <2>1. s # own
    BY <1>1, <1>4, <1>5, <1>t DEF Marks
  <2> QED
    BY <1>1, <1>2, <2>1 DEF OutdatedRow
<1>8. Rows'
  <2>1. \A s \in sessions' :
          /\ token'[s.tok].state # "undrawn"
          /\ token'[s.tok].state \in {"held", "out"} => token'[s.tok].pw = s.pw
    BY <1>1, <1>2, <1>4, <1>5, <1>t DEF Rows
  <2>2. auth' # NoRow'
    BY <1>2 DEF NoRow
  <2> QED
    BY <1>1, <1>2, <2>1, <2>2 DEF Rows
<1>9. Marks'
  BY <1>1, <1>2, <1>7, <1>t DEF Marks
<1>10. disturbed' <=> disturbed
  <2>1. disturbed' = disturbed
    BY <1>1
  <2> QED
    BY ONLY <2>1, Zenon
<1>11. th'[t] = r
  BY <1>3, <1>t DEF TypeOK, Become
<1>12. Kept'
  BY <1>1, <1>2, <1>10, <1>t DEF Kept
<1>13. RequestOK(th[t])'
  <2>1. Timely(th[t])' /\ Informed(th[t])'
    BY <1>1, <1>3, <1>10, <1>11, <1>t DEF RequestOK, Timely, Informed, Reading
  <2>2. Entitled(th[t])' /\ Judged(th[t])'
    BY <1>1, <1>3, <1>4, <1>11 DEF Entitled, Judged
  <2>3. OwnRow(th[t])'
    <3>1. \A s \in sessions' : s.tok = r.tok => s = own
      BY <1>1, <1>2, <1>3, <1>4
    <3>2. [tok |-> r.tok, pw |-> r.pw] \in sessions'
      BY <1>1, <1>3 DEF own
    <3> QED
      BY <1>3, <1>5, <1>11, <3>1, <3>2 DEF OwnRow
  <2> QED
    BY <2>1, <2>2, <2>3 DEF RequestOK
<1>14. \A u \in Threads \ {t}, s \in sessions' :
          s \in sessions \/ (th[u].for = "login" => s.tok # th[u].tok)
  BY <1>1, <1>2, <1>4, <1>5, <1>t DEF OneLogin
<1>15. \A u \in Threads :
          th[u].pc = "confirm" /\ ~disturbed' /\ [tok |-> th[u].tok, pw |-> th[u].pw] \in sessions =>
              [tok |-> th[u].tok, pw |-> th[u].pw] \in sessions'
  BY <1>1, <1>2, <1>10
<1>16. disturbed' \in BOOLEAN /\ th[t].pc \in Reading /\ r.pc \notin Writing
  BY <1>1, <1>3, <1>t DEF TypeOK, Reading, Writing
<1> QED
  BY <1>1, <1>2, <1>3, <1>4, <1>6, <1>7, <1>8, <1>9, <1>10, <1>12, <1>13, <1>14, <1>15, <1>16,
     SameTokens, Change

LEMMA ConfirmSessionStep == ASSUME IInv, NEW t \in Threads, ConfirmSession(t) PROVE IInv'
<1> DEFINE k == th[t].tok
           row == {s \in sessions : s.tok = k /\ s.pw = th[t].pw}
<1>t. TypeOK /\ RequestOK(th[t]) /\ Rows /\ Marks /\ Kept /\ OneLogin /\ \A u \in Threads : RequestOK(th[u])
  BY DEF IInv, RequestsOK
<1>1. th[t].pc = "confirm" /\ UNCHANGED <<file, auth, cache, disturbed>> /\ Become(t, Idle)
  BY DEF ConfirmSession
<1>2. /\ th[t].for = "login" /\ k \in Tokens /\ token[k].state = "drawn"
      /\ \A s \in sessions : s.tok = k => s.pw = th[t].pw
      /\ ~disturbed => [tok |-> k, pw |-> th[t].pw] \in sessions /\ th[t].pw = file.pw
  BY <1>1, <1>t DEF RequestOK, Entitled, OwnRow, Informed, Reading
<1>3. \/ /\ th[t].pw = file.pw /\ sessions' = sessions
         /\ token' = [token EXCEPT ![k] = [state |-> "held", pw |-> th[t].pw, outdated |-> FALSE]]
      \/ th[t].pw # file.pw /\ sessions' \subseteq sessions /\ token' = token
  BY DEF ConfirmSession
<1>4. sessions' \subseteq sessions /\ (~disturbed => sessions' = sessions)
  BY <1>2, <1>3
<1>5. token' \in [Tokens -> [state: {"undrawn", "drawn", "held", "out"}, pw: Passwords, outdated: BOOLEAN]]
  <2>1. th[t].pw \in Passwords
    BY <1>t, Kinds DEF Request
  <2>2. token \in [Tokens -> [state: {"undrawn", "drawn", "held", "out"}, pw: Passwords, outdated: BOOLEAN]]
    BY <1>t DEF TypeOK
  <2> DEFINE v == [state |-> "held", pw |-> th[t].pw, outdated |-> FALSE]
  <2>3. v \in [state: {"undrawn", "drawn", "held", "out"}, pw: Passwords, outdated: BOOLEAN]
    BY <2>1
  <2>4. token' = token \/ token' = [token EXCEPT ![k] = v]
    BY <1>3
  <2> HIDE DEF v, k
  <2> QED
    BY <1>2, <2>2, <2>3, <2>4
<1>6. \A j \in Tokens :
        \/ token'[j] = token[j]
        \/ j = k /\ token'[j].state = "held" /\ token'[j].pw = th[t].pw /\ ~token'[j].outdated /\ th[t].pw = file.pw
  BY <1>2, <1>3, <1>t DEF TypeOK
<1> HIDE DEF k, row
<1>7. sessions' \subseteq [tok: Tokens, pw: Passwords]
  BY <1>4, <1>t DEF TypeOK
<1>8. OutdatedRow' => OutdatedRow
  BY <1>4, <1>6, <1>7 DEF OutdatedRow
<1>9. Rows'
  <2>1. \A s \in sessions' :
          /\ token'[s.tok].state # "undrawn"
          /\ token'[s.tok].state \in {"held", "out"} => token'[s.tok].pw = s.pw
    BY <1>2, <1>4, <1>6, <1>7, <1>t DEF Rows
  <2> QED
    BY <1>1, <1>4, <1>t, <2>1 DEF Rows, NoRow
<1>10. Marks'
  <2>1. \A j \in Tokens : token'[j].outdated => token'[j].state \in {"held", "out"}
    BY <1>6, <1>t DEF Marks
  <2> QED
    BY <1>1, <1>8, <1>t, <2>1 DEF Marks
<1>11. disturbed' <=> disturbed
  <2>1. disturbed' = disturbed
    BY <1>1
  <2> QED
    BY ONLY <2>1, Zenon
<1>12. Kept'
  <2>1. Replaced => Replaced'
    BY <1>1, <1>t DEF Replaced, TypeOK, Become
  <2>2. ASSUME ~disturbed, NEW j \in Tokens, token'[j].state = "held"
        PROVE  token'[j].pw = file'.pw /\ [tok |-> j, pw |-> token'[j].pw] \in sessions'
    <3>1. CASE token'[j] = token[j]
      BY <1>1, <1>4, <1>t, <2>2, <3>1 DEF Kept
    <3>2. CASE token'[j] # token[j]
      BY <1>1, <1>2, <1>4, <1>6, <2>2, <3>2
    <3> QED
      BY <3>1, <3>2
  <2> QED
    BY <1>1, <1>11, <1>t, <2>1, <2>2 DEF Kept, NoRow
<1>13. th'[t] = Idle
  BY <1>1, <1>t DEF TypeOK, Become
<1>14. RequestOK(th[t])'
  <2>1. TypeOK'
    BY <1>1, <1>5, <1>7, <1>t, Constant DEF TypeOK, Become
  <2> QED
    BY <1>13, <2>1, Ended
<1>15. \A u \in Threads \ {t} : th[u].tok # k
  BY <1>2, <1>t DEF RequestOK, Entitled, OneLogin, k
<1>16. \A u \in Threads \ {t} :
          th[u].tok \in Tokens =>
              LET j == th[u].tok IN
              /\ token'[j].outdated => token[j].outdated
              /\ th[u].for = "login" => token'[j].state = "drawn"
              /\ th[u].for # "login" => token'[j].state \in {"held", "out"} /\ token'[j].pw = token[j].pw
  BY <1>6, <1>15, <1>t DEF RequestOK, Entitled
<1>17. auth' \in Auth /\ cache' \in [Workers -> Auth] /\ disturbed' \in BOOLEAN
  BY <1>1, <1>t DEF TypeOK
<1>18. Idle.pc \notin Reading \cup Writing /\ Idle \in Request /\ Idle.for # "login"
  BY Constant DEF Reading, Writing
<1> QED
  BY <1>1, <1>4, <1>5, <1>7, <1>8, <1>9, <1>10, <1>11, <1>12, <1>14, <1>16, <1>17, <1>18, Change

LEMMA AtomicDumpStep == ASSUME IInv, NEW t \in Threads, AtomicDump(t) PROVE IInv'
<1> DEFINE r == [Idle EXCEPT !.pc = "dumped", !.for = "save"]
<1>t. /\ TypeOK /\ RequestOK(th[t]) /\ Rows /\ Marks /\ Kept /\ Locks
      /\ \A u \in Threads : RequestOK(th[u])
  BY DEF IInv, RequestsOK
<1>1. /\ th[t].pc = "loaded" /\ UNCHANGED <<auth, sessions, cache, token, disturbed>> /\ Become(t, r)
      /\ file.sig < MaxSig /\ file' = [sig |-> file.sig + 1, pw |-> th[t].pw]
  BY DEF AtomicDump, database
<1>2. r \in Request /\ r.pc = "dumped" /\ r.for = "save" /\ r.tok = "none" /\ r.sig = 0
  BY Constant DEF Idle, Request, PC, Purpose, Writing
<1> HIDE DEF r
<1>3. file' \in File /\ file'.sig = file.sig + 1 /\ file'.pw = th[t].pw /\ file.sig \in Nat
  BY <1>1, <1>t, Kinds, Constant DEF File, Sig, Request
<1>4. /\ th' \in [Threads -> Request] /\ th'[t] = r
      /\ \A u \in Threads : u # t => th'[u] = th[u]
      /\ Locks' /\ OneLogin'
  BY <1>1, <1>2, Turn DEF Reading, Writing
<1>5. TypeOK'
  BY <1>1, <1>3, <1>4, <1>t DEF TypeOK
<1>6. disturbed' <=> disturbed
  <2>1. disturbed' = disturbed
    BY <1>1
  <2> QED
    BY ONLY <2>1, Zenon
<1>7. ASSUME NEW u \in Threads PROVE RequestOK(th[u])'
  <2>1. CASE u = t
    <3>1. Timely(th[u])'
      BY <1>2, <1>3, <1>4, <2>1 DEF Timely, Reading
    <3>3. Judged(th[u])' /\ Informed(th[u])'
      BY <1>2, <1>4, <2>1 DEF Judged, Informed, Reading
    <3>2. Entitled(th[u])' /\ OwnRow(th[u])'
      BY <1>2, <1>4, <2>1, TokensAssumption DEF Entitled, OwnRow
    <3> QED
      BY <3>1, <3>2, <3>3 DEF RequestOK
  <2>2. CASE u # t
    <3>1. th'[u] = th[u] /\ th[u].pc \notin Reading \cup Writing
      BY <1>1, <1>4, <1>t, <2>2 DEF Locks, Writing
    <3>2. RequestOK(th[u]) /\ th[u].sig \in Nat
      BY <1>t, Kinds, Constant DEF Request
    <3>3. Timely(th[u])'
      BY <1>3, <3>1, <3>2 DEF RequestOK, Timely
    <3>4. Entitled(th[u])' /\ OwnRow(th[u])'
      BY <1>1, <3>1, <3>2 DEF RequestOK, Entitled, OwnRow, Reading
    <3>5. Judged(th[u])' /\ Informed(th[u])'
      BY <3>1 DEF Judged, Informed, Reading, Writing
    <3> QED
      BY <3>3, <3>4, <3>5 DEF RequestOK
  <2> QED
    BY <2>1, <2>2
<1>8. OutdatedRow' => OutdatedRow
  BY <1>1 DEF OutdatedRow
<1>9. auth.sig \in Nat /\ \A w \in Workers : cache[w].sig \in Nat
  BY <1>t, Constant DEF TypeOK, Auth
<1>10. Rows'
  BY <1>1, <1>3, <1>9, <1>t DEF Rows, NoRow
<1>11. Marks'
  BY <1>1, <1>3, <1>8, <1>9, <1>t DEF Marks, Rows
<1>12. Kept'
  <2>1. Replaced'
    BY <1>2, <1>4 DEF Replaced
  <2>2. ~disturbed => file'.pw = file.pw
    BY <1>1, <1>3, <1>t DEF RequestOK, Informed
  <2> QED
    BY <1>1, <1>6, <1>t, <2>1, <2>2 DEF Kept, NoRow
<1>13. RequestsOK'
  BY <1>7 DEF RequestsOK
<1> QED
  BY <1>4, <1>5, <1>10, <1>11, <1>12, <1>13 DEF IInv

LEMMA AcknowledgeStep == ASSUME IInv, NEW t \in Threads, Acknowledge(t) PROVE IInv'
<1> DEFINE r == [th[t] EXCEPT !.pc = "acknowledged"]
           N == NewGeneration(th[t].pw, file.sig, TRUE)
<1>t. /\ TypeOK /\ RequestOK(th[t]) /\ Rows /\ Marks /\ Kept /\ Locks
      /\ \A u \in Threads : RequestOK(th[u])
  BY DEF IInv, RequestsOK
<1>1. /\ th[t].pc = "read back" /\ UNCHANGED <<file, disturbed>> /\ Goto(t, "acknowledged")
      /\ auth' = [pw |-> th[t].pw, sig |-> file.sig]
      /\ sessions' = SessionsAfter(th[t].pw, file.sig, TRUE)
      /\ cache' = [CacheAfter(th[t].pw, file.sig, TRUE) EXCEPT ![WorkerOf[t]] = auth']
      /\ token' = [k \in Tokens |-> [token[k] EXCEPT !.outdated = FALSE]]
  BY DEF Acknowledge
<1>2. /\ Become(t, r) /\ r \in Request /\ r.pc = "acknowledged" /\ r.for = th[t].for
      /\ r.tok = th[t].tok /\ r.pw = th[t].pw /\ r.sig = th[t].sig
  BY <1>1, <1>t, GotoIsBecome DEF PC, Writing
<1> HIDE DEF r
<1>3. auth' \in Auth /\ auth'.sig = file.sig /\ auth'.pw = th[t].pw /\ file.sig \in Nat \ {0}
  BY <1>1, <1>t, Kinds DEF Auth, Request
<1>4. sessions' \subseteq sessions /\ (~N => sessions' = sessions)
  BY <1>1 DEF SessionsAfter
<1>5. \/ CacheAfter(th[t].pw, file.sig, TRUE) = cache
      \/ CacheAfter(th[t].pw, file.sig, TRUE) = [w \in Workers |-> NoRow]
  BY DEF CacheAfter
<1>6. cache' \in [Workers -> Auth] /\ \A w \in Workers : cache'[w].sig <= file.sig
  <2> DEFINE C == CacheAfter(th[t].pw, file.sig, TRUE)
  <2>1. cache' = [C EXCEPT ![WorkerOf[t]] = auth'] /\ (C = cache \/ C = [w \in Workers |-> NoRow])
    BY <1>1, <1>5
  <2> HIDE DEF C
  <2>2. C \in [Workers -> Auth] /\ \A w \in Workers : C[w].sig <= file.sig
    <3>1. CASE C = cache
      BY <1>t, <3>1 DEF TypeOK, Rows
    <3>2. CASE C = [w \in Workers |-> NoRow]
      BY <1>3, <3>2, Constant
    <3> QED
      BY <2>1, <3>1, <3>2
  <2>3. \A w \in Workers : cache'[w] = C[w] \/ cache'[w] = auth'
    BY <2>1, <2>2
  <2>4. cache' \in [Workers -> Auth]
    BY <1>3, <2>1, <2>2
  <2> QED
    BY <1>3, <2>2, <2>3, <2>4
<1>7. token' \in [Tokens -> [state: {"undrawn", "drawn", "held", "out"}, pw: Passwords, outdated: BOOLEAN]]
  BY <1>1, <1>t DEF TypeOK
<1>8. \A j \in Tokens :
        ~token'[j].outdated /\ token'[j].state = token[j].state /\ token'[j].pw = token[j].pw
  BY <1>1, <1>t DEF TypeOK
<1>9. sessions' \subseteq [tok: Tokens, pw: Passwords]
  BY <1>4, <1>t DEF TypeOK
<1>10. ~OutdatedRow'
  BY <1>8, <1>9 DEF OutdatedRow
<1>11. disturbed' <=> disturbed
  <2>1. disturbed' = disturbed
    BY <1>1
  <2> QED
    BY ONLY <2>1, Zenon
<1>12. ~disturbed => sessions' = sessions /\ th[t].pw = file.pw
  <2> SUFFICES ASSUME ~disturbed PROVE sessions' = sessions /\ th[t].pw = file.pw
    OBVIOUS
  <2>1. th[t].pw = file.pw
    BY <1>1, <1>t DEF RequestOK, Informed
  <2>2. CASE auth = NoRow
    <3>1. sessions = {}
      BY <1>t, <2>2 DEF Rows
    <3> QED
      BY <1>4, <2>1, <3>1
  <2>3. CASE auth # NoRow
    <3>1. auth.pw = th[t].pw
      BY <1>t, <2>1, <2>3 DEF Kept
    <3>2. ~N
      BY <2>3, <3>1 DEF NewGeneration
    <3> QED
      BY <1>4, <2>1, <3>2
  <2> QED
    BY <2>2, <2>3
<1> HIDE DEF N
<1>13. auth' # NoRow'
  BY <1>3, Constant DEF NoRow
<1>14. Rows'
  <2>1. \A s \in sessions' :
          /\ token'[s.tok].state # "undrawn"
          /\ token'[s.tok].state \in {"held", "out"} => token'[s.tok].pw = s.pw
    BY <1>4, <1>8, <1>9, <1>t DEF Rows
  <2>2. auth'.sig <= file'.sig /\ \A w \in Workers : cache'[w].sig <= file'.sig
    <3>1. file' = file
      BY <1>1
    <3> QED
      BY <1>3, <1>6, <3>1
  <2> QED
    BY <1>13, <2>1, <2>2 DEF Rows
<1>15. Marks'
  BY <1>8, <1>10 DEF Marks
<1>16. Kept'
  BY <1>1, <1>3, <1>8, <1>11, <1>12, <1>t DEF Kept
<1>17. th'[t] = r
  BY <1>2, <1>t DEF TypeOK, Become
<1>18. RequestOK(th[t])'
  <2>1. Timely(th[t])' /\ Judged(th[t])' /\ Informed(th[t])'
    BY <1>1, <1>2, <1>17, <1>t DEF RequestOK, Timely, Judged, Informed, Reading
  <2>2. Entitled(th[t])' /\ OwnRow(th[t])'
    BY <1>1, <1>2, <1>4, <1>8, <1>17, <1>t DEF RequestOK, Entitled, OwnRow
  <2> QED
    BY <2>1, <2>2 DEF RequestOK
<1>19. \A u \in Threads :
          th[u].tok \in Tokens =>
              LET j == th[u].tok IN
              /\ token'[j].outdated => token[j].outdated
              /\ th[u].for = "login" => token'[j].state = "drawn"
              /\ th[u].for # "login" => token'[j].state \in {"held", "out"} /\ token'[j].pw = token[j].pw
  BY <1>8, <1>t DEF RequestOK, Entitled
<1>20. \A u \in Threads :
          th[u].pc = "confirm" /\ ~disturbed' /\ [tok |-> th[u].tok, pw |-> th[u].pw] \in sessions =>
              [tok |-> th[u].tok, pw |-> th[u].pw] \in sessions'
  BY <1>11, <1>12
<1>21. th[t].pc \in Writing /\ r.pc \notin Reading /\ r.for # "login" /\ disturbed' \in BOOLEAN
  BY <1>1, <1>2, <1>t DEF TypeOK, Reading, Writing, RequestOK, Entitled
<1> QED
  BY <1>1, <1>2, <1>3, <1>4, <1>6, <1>7, <1>9, <1>10, <1>11, <1>14, <1>15, <1>16, <1>18, <1>19, <1>20, <1>21,
     Change

LEMMA AcknowledgeFailsStep == ASSUME IInv, NEW t \in Threads, AcknowledgeFails(t) PROVE IInv'
<1> DEFINE r == [th[t] EXCEPT !.pc = "acknowledged"]
<1>t. TypeOK /\ RequestOK(th[t]) /\ Rows /\ Marks
  BY DEF IInv, RequestsOK
<1>1. /\ th[t].pc = "read back" /\ UNCHANGED <<file, auth, sessions, cache, token>>
      /\ Goto(t, "acknowledged") /\ disturbed' = TRUE
  BY DEF AcknowledgeFails, database
<1>2. /\ Become(t, r) /\ r \in Request /\ r.pc = "acknowledged" /\ r.for = th[t].for
      /\ r.tok = th[t].tok /\ r.pw = th[t].pw /\ r.sig = th[t].sig
  BY <1>1, <1>t, GotoIsBecome DEF PC, Writing
<1> HIDE DEF r
<1>3. OutdatedRow' => OutdatedRow
  BY <1>1 DEF OutdatedRow
<1>4. Rows' /\ Marks' /\ Kept'
  BY <1>1, <1>3, <1>t DEF Rows, Marks, Kept, NoRow
<1>5. th'[t] = r
  BY <1>2, <1>t DEF TypeOK, Become
<1>6. RequestOK(th[t])'
  <2>1. Timely(th[t])' /\ Judged(th[t])' /\ Informed(th[t])'
    BY <1>1, <1>2, <1>5, <1>t DEF RequestOK, Timely, Judged, Informed, Reading
  <2>2. Entitled(th[t])' /\ OwnRow(th[t])'
    BY <1>1, <1>2, <1>5, <1>t DEF RequestOK, Entitled, OwnRow
  <2> QED
    BY <2>1, <2>2 DEF RequestOK
<1>7. /\ auth' \in Auth /\ cache' \in [Workers -> Auth] /\ disturbed' \in BOOLEAN
      /\ sessions' \subseteq [tok: Tokens, pw: Passwords]
  BY <1>1, <1>t DEF TypeOK
<1>8. th[t].pc \in Writing /\ r.pc \notin Reading /\ r.for # "login"
  BY <1>1, <1>2, <1>t DEF Reading, Writing, RequestOK, Entitled
<1> QED
  BY <1>1, <1>2, <1>3, <1>4, <1>6, <1>7, <1>8, SameTokens, Change

LEMMA EditStep == ASSUME IInv, Edit PROVE IInv'
<1>t. TypeOK /\ Rows /\ Marks /\ Locks /\ OneLogin /\ \A u \in Threads : RequestOK(th[u])
  BY DEF IInv, RequestsOK
<1>1. /\ UNCHANGED <<auth, sessions, cache, th>> /\ disturbed' = TRUE /\ file.sig < MaxSig
      /\ token' = [k \in Tokens |-> [token[k] EXCEPT !.outdated = @ \/ token[k].state = "held"]]
  BY DEF Edit, database
<1>2. file' \in File /\ file'.sig = file.sig + 1 /\ file.sig \in Nat
  <2>1. PICK p \in Passwords : file' = [file EXCEPT !.sig = file.sig + 1, !.pw = p]
    BY DEF Edit
  <2>2. file \in File /\ file.sig \in Nat /\ file.sig + 1 \in Sig
    BY <1>1, <1>t, Constant DEF TypeOK, File, Sig
  <2> QED
    BY <2>1, <2>2 DEF File
<1>3. token' \in [Tokens -> [state: {"undrawn", "drawn", "held", "out"}, pw: Passwords, outdated: BOOLEAN]]
  BY <1>1, <1>t DEF TypeOK
<1>4. \A j \in Tokens :
        /\ token'[j].state = token[j].state /\ token'[j].pw = token[j].pw
        /\ token'[j].outdated => token[j].outdated \/ token[j].state = "held"
  BY <1>1, <1>t DEF TypeOK
<1>5. TypeOK'
  BY <1>1, <1>2, <1>3, <1>t DEF TypeOK
<1>6. auth.sig \in Nat /\ \A w \in Workers : cache[w].sig \in Nat
  BY <1>t, Constant DEF TypeOK, Auth
<1>7. \A s \in sessions : s.tok \in Tokens
  BY <1>t DEF TypeOK
<1>8. Rows'
  BY <1>1, <1>2, <1>4, <1>6, <1>7, <1>t DEF Rows, NoRow
<1>9. Marks'
  <2>1. \A j \in Tokens : token'[j].outdated => token'[j].state \in {"held", "out"}
    BY <1>4, <1>t DEF Marks
  <2>2. auth'.sig # file'.sig /\ \A w \in Workers : cache'[w].sig # file'.sig
    BY <1>1, <1>2, <1>6, <1>t DEF Rows
  <2> QED
    BY <2>1, <2>2 DEF Marks
<1>10. Kept'
  BY <1>1 DEF Kept
<1>11. ASSUME NEW u \in Threads PROVE RequestOK(th[u])'
  <2>1. RequestOK(th[u]) /\ th'[u] = th[u] /\ th[u].sig \in Nat
    BY <1>1, <1>t, Kinds, Constant DEF Request
  <2>2. Timely(th[u])' /\ th[u].sig # file'.sig
    BY <1>2, <2>1 DEF RequestOK, Timely
  <2>3. Entitled(th[u])'
    BY <1>4, <2>1 DEF RequestOK, Entitled
  <2>4. OwnRow(th[u])'
    BY <1>1, <2>1 DEF RequestOK, OwnRow
  <2>5. Judged(th[u])'
    BY <1>4, <2>1, <2>2 DEF RequestOK, Judged, Entitled
  <2>6. Informed(th[u])'
    BY <1>1 DEF Informed
  <2> QED
    BY <2>2, <2>3, <2>4, <2>5, <2>6 DEF RequestOK
<1>12. RequestsOK'
  BY <1>11 DEF RequestsOK
<1>13. Locks' /\ OneLogin'
  BY <1>1, <1>t DEF Locks, OneLogin
<1> QED
  BY <1>5, <1>8, <1>9, <1>10, <1>12, <1>13 DEF IInv

LEMMA DieStep == ASSUME IInv, NEW w \in Workers, Die(w) PROVE IInv'
<1> DEFINE mine == {t \in Threads : WorkerOf[t] = w}
<1>t. TypeOK /\ Rows /\ Marks /\ Kept /\ Locks /\ OneLogin /\ \A u \in Threads : RequestOK(th[u])
  BY DEF IInv, RequestsOK
<1>1. /\ UNCHANGED <<file, auth, sessions, token>>
      /\ cache' = [cache EXCEPT ![w] = NoRow]
      /\ th' = [t \in Threads |-> IF t \in mine THEN Idle ELSE th[t]]
      /\ disturbed' = (disturbed \/ \E t \in mine : th[t].pc \in {"dumped", "read back"})
  BY DEF Die
<1>2. th' \in [Threads -> Request] /\ \A u \in Threads : th'[u] = IF u \in mine THEN Idle ELSE th[u]
  BY <1>1, <1>t, Constant DEF TypeOK
<1>3. cache' \in [Workers -> Auth] /\ \A v \in Workers : cache'[v] = cache[v] \/ cache'[v] = NoRow
  BY <1>1, <1>t, Constant DEF TypeOK
<1>4. disturbed => disturbed'
  BY <1>1
<1>5. disturbed' \in BOOLEAN
  BY <1>1
<1>6. TypeOK'
  BY <1>1, <1>2, <1>3, <1>5, <1>t DEF TypeOK
<1>7. OutdatedRow' => OutdatedRow
  BY <1>1 DEF OutdatedRow
<1>8. file.sig \in Nat \ {0}
  BY <1>t, Constant DEF TypeOK, File, Sig
<1>9. Rows'
  <2>1. \A v \in Workers : cache'[v].sig <= file'.sig
    <3>1. file' = file /\ \A v \in Workers : cache[v].sig <= file.sig
      BY <1>1, <1>t DEF Rows
    <3>2. NoRow.sig = 0
      BY Constant
    <3> QED
      BY <1>3, <1>8, <3>1, <3>2
  <2> QED
    BY <1>1, <1>t, <2>1 DEF Rows, NoRow
<1>10. Marks'
  BY <1>1, <1>3, <1>7, <1>8, <1>t, Constant DEF Marks
<1>11. Kept'
  <2> SUFFICES ASSUME ~disturbed' PROVE Kept'
    BY DEF Kept
  <2>1. ~disturbed /\ ~\E t \in mine : th[t].pc \in {"dumped", "read back"}
    BY <1>1
  <2>2. Replaced => Replaced'
    BY <1>2, <2>1 DEF Replaced
  <2> QED
    BY <1>1, <1>t, <2>1, <2>2 DEF Kept, NoRow
<1>12. Locks'
  BY <1>2, <1>t, Constant DEF Locks, Reading, Writing
<1>13. OneLogin'
  <2> SUFFICES ASSUME NEW u \in Threads, NEW v \in Threads,
                      th'[u].for = "login", th'[v].for = "login", th'[u].tok = th'[v].tok
               PROVE  u = v
    BY DEF OneLogin
  <2>1. th'[u] = th[u] /\ th'[v] = th[v]
    BY <1>2, Constant
  <2> QED
    BY <1>t, <2>1 DEF OneLogin
<1>14. ASSUME NEW u \in Threads PROVE RequestOK(th[u])'
  <2>1. CASE u \in mine
    BY <1>2, <1>6, <2>1, Ended
  <2>2. CASE u \notin mine
    <3>1. th'[u] = th[u]
      BY <1>2, <2>2
    <3> QED
      BY <1>1, <1>4, <1>7, <3>1, SameTokens, Others
  <2> QED
    BY <2>1, <2>2
<1>15. RequestsOK'
  BY <1>14 DEF RequestsOK
<1> QED
  BY <1>6, <1>9, <1>10, <1>11, <1>12, <1>13, <1>15 DEF IInv

-----------------------------------------------------------------------------
LEMMA Stutter == ASSUME IInv, UNCHANGED vars PROVE IInv'
<1>1. UNCHANGED <<file, auth, sessions, cache, th, token, disturbed>>
  BY DEF vars, database
<1>2. disturbed' <=> disturbed
  <2>1. disturbed' = disturbed
    BY <1>1
  <2> QED
    BY ONLY <2>1, Zenon
<1>3. TypeOK' /\ Locks' /\ OneLogin'
  BY <1>1 DEF IInv, TypeOK, Locks, OneLogin
<1>4. Rows' /\ Marks'
  BY <1>1 DEF IInv, Rows, Marks, OutdatedRow, NoRow
<1>5. Kept'
  BY <1>1, <1>2 DEF IInv, Kept, Replaced, NoRow
<1>6. OutdatedRow' => OutdatedRow
  BY <1>1 DEF OutdatedRow
<1>7. ASSUME NEW u \in Threads PROVE RequestOK(th[u])'
  BY <1>1, <1>2, <1>6, SameTokens, Others
<1>8. RequestsOK'
  BY <1>7 DEF RequestsOK
<1> QED
  BY <1>3, <1>4, <1>5, <1>8 DEF IInv

LEMMA Step == IInv /\ [Next]_vars => IInv'
<1> SUFFICES ASSUME IInv, [Next]_vars PROVE IInv'
  OBVIOUS
<1>1. CASE UNCHANGED vars
  BY <1>1, Stutter
<1>2. ASSUME NEW t \in Threads, Check(t) PROVE IInv'
  BY <1>2, EnterStep, SyncStep, RememberStep, LookupStep, AnswerStep, UnavailableStep DEF Check
<1>3. ASSUME NEW t \in Threads, LoginStep(t) PROVE IInv'
  BY <1>3, EnterLoginStep, CreateSessionStep, ConfirmSessionStep DEF LoginStep
<1>4. ASSUME NEW t \in Threads, Save(t) PROVE IInv'
  BY <1>4, LoadDocumentStep, WriteFailsStep, AtomicDumpStep, ReadBackStep, AcknowledgeStep,
     AcknowledgeFailsStep, UnlockStep DEF Save
<1>5. ASSUME NEW t \in Threads, Begin(t) \/ BeginUnknown(t) \/ Login(t) \/ Logout(t) \/ Stream(t) PROVE IInv'
  BY <1>5, BeginStep, LoginBegins, ReadPasswordStep, RevokeStep, RevalidateStep, StreamEndsStep DEF Logout, Stream
<1>6. CASE (\E w \in Workers : Die(w)) \/ Edit
  BY <1>6, DieStep, EditStep
<1> QED
  BY <1>1, <1>2, <1>3, <1>4, <1>5, <1>6 DEF Next

LEMMA Invariance == Spec => []IInv
BY Initially, Step, PTL DEF Spec

(* The rows, the requests and what is remembered of the rows keep their    *)
(* kinds (TypeOK).                                                         *)
THEOREM TypeCorrect == Spec => []TypeOK
<1>1. IInv => TypeOK
  BY DEF IInv
<1> QED
  BY Invariance, <1>1, PTL

(* A save from the dashboard closes no session, with any number of workers *)
(* and requests (_acknowledge_config_save).                                *)
THEOREM SavesKeep == Spec => []SavesKeepSessions
<1>1. IInv => SavesKeepSessions
  BY DEF IInv, Kept, SavesKeepSessions, Valid
<1> QED
  BY Invariance, <1>1, PTL

(* Only Answer lets anyone in.                                             *)
LEMMA OnlyAnswer ==
    ASSUME IInv, Next, NEW t \in Threads, th[t].pc = "answer",
           th'[t].pc \in {"saving", "revoking", "streaming"}
    PROVE  Answer(t)
<1>t. TypeOK
  BY DEF IInv
<1>1. ASSUME NEW u \in Threads, u # t,
             Begin(u) \/ BeginUnknown(u) \/ Login(u) \/ Check(u) \/ LoginStep(u) \/ Save(u) \/ Logout(u) \/ Stream(u)
      PROVE  th'[t] = th[t]
  BY <1>t, <1>1
     DEF TypeOK, Begin, BeginUnknown, Login, Check, LoginStep, Save, Logout, ReadPassword, Revoke, Stream, Enter, Sync, Remember, Lookup,
         Answer, Unavailable, EnterLogin, CreateSession, ConfirmSession, LoadDocument, WriteFails, AtomicDump,
         ReadBack, Acknowledge, AcknowledgeFails, Unlock, Revalidate, StreamEnds, Become, Goto
<1>2. ASSUME Unavailable(t) PROVE FALSE
  BY <1>t, <1>2, Constant DEF Unavailable, TypeOK, Become
<1>3. ASSUME Begin(t) \/ BeginUnknown(t) \/ Login(t) \/ Check(t) \/ LoginStep(t) \/ Save(t) \/ Logout(t) \/ Stream(t)
      PROVE  Answer(t)
  BY <1>2, <1>3
     DEF Begin, BeginUnknown, Login, Check, LoginStep, Save, Logout, ReadPassword, Revoke, Stream, Enter, Sync, Remember, Lookup,
         EnterLogin, CreateSession, ConfirmSession, LoadDocument, WriteFails, AtomicDump,
         ReadBack, Acknowledge, AcknowledgeFails, Unlock, Revalidate, StreamEnds
<1>4. ASSUME NEW w \in Workers, Die(w) PROVE FALSE
  BY <1>4, Constant DEF Die
<1>5. ~Edit
  BY DEF Edit
<1> QED
  BY <1>1, <1>3, <1>4, <1>5 DEF Next

(* Whoever is let in logged in with the password the file holds, and after *)
(* the last edit nobody vouched for (_session_valid).                      *)
THEOREM Current == Spec => AcceptedIsCurrent
<1> DEFINE A == \A t \in Threads :
                  th[t].pc = "answer" /\ th'[t].pc \in {"saving", "revoking", "streaming"} =>
                      LET k == token[th[t].tok]
                      IN  k.pw = file.pw /\ ~k.outdated
<1>1. IInv /\ [Next]_vars => [A]_vars
  <2> SUFFICES ASSUME IInv, Next, NEW t \in Threads, th[t].pc = "answer",
                      th'[t].pc \in {"saving", "revoking", "streaming"}
               PROVE  token[th[t].tok].pw = file.pw /\ ~token[th[t].tok].outdated
    OBVIOUS
  <2>1. Answer(t)
    BY OnlyAnswer
  <2>2. RequestOK(th[t]) /\ TypeOK
    BY DEF IInv, RequestsOK
  <2>3. SnapshotHolds(t)
    <3> SUFFICES ASSUME ~SnapshotHolds(t) PROVE FALSE
      OBVIOUS
    <3>1. Become(t, [th[t] EXCEPT !.pc = "sync", !.pw = file.pw, !.sig = file.sig,
                                  !.valid = FALSE, !.answered = TRUE])
      BY <2>1 DEF Answer
    <3>2. th'[t].pc = "sync"
      BY <2>2, <3>1 DEF Become, TypeOK, Request
    <3> QED
      BY <3>2
  <2>4. th[t].valid
    <3> SUFFICES ASSUME ~th[t].valid PROVE FALSE
      OBVIOUS
    <3>1. th'[t] = Idle
      BY <2>1, <2>2, <2>3 DEF Answer, Become, TypeOK
    <3> QED
      BY <3>1, Constant
  <2> QED
    BY <2>2, <2>3, <2>4 DEF SnapshotHolds, RequestOK, Judged
<1> QED
  BY Invariance, <1>1, PTL DEF Spec, AcceptedIsCurrent

-----------------------------------------------------------------------------
(* What a logout settles: the row of the token is gone, no later step makes*)
(* one for it, and a request finds the session only in a row.              *)

RevokedIsGone == \A s \in sessions : token[s.tok].state # "out"
Gone == IInv /\ RevokedIsGone

(* A request that found its session, or is past the check of it.           *)
LetIn(r) == r.pc \in {"saving", "revoking", "hashed", "streaming"} \/ (r.pc = "answer" /\ r.valid)

LogoutHolds ==
    /\ \A k \in Tokens : token[k].state = "out" => token'[k].state = "out"
    /\ \A t \in Threads :
        th[t].tok \in Tokens /\ token[th[t].tok].state = "out" /\ ~LetIn(th[t]) => ~LetIn(th'[t])

(* The steps that touch neither a row nor a token.                         *)
Aside(t) ==
    \/ Begin(t) \/ BeginUnknown(t) \/ Enter(t) \/ Remember(t) \/ Lookup(t) \/ Answer(t)
    \/ Unavailable(t) \/ EnterLogin(t) \/ LoadDocument(t) \/ WriteFails(t) \/ AtomicDump(t)
    \/ ReadBack(t) \/ AcknowledgeFails(t) \/ Unlock(t) \/ ReadPassword(t) \/ Stream(t)

LEMMA AsideKeeps == ASSUME NEW t \in Threads, Aside(t) PROVE sessions' = sessions /\ token' = token
BY DEF Aside, Begin, BeginUnknown, Enter, Remember, Lookup, Answer, Unavailable, EnterLogin,
       LoadDocument, WriteFails, AtomicDump, ReadBack, AcknowledgeFails, Unlock, ReadPassword,
       Stream, Revalidate, StreamEnds, database

(* A new row is that of a login's token, and a token is logged out only    *)
(* when its row was found: every row of it goes.                           *)
LEMMA RowsAndTokens ==
    ASSUME IInv, Next
    PROVE  /\ \A s \in sessions' : s \in sessions \/ token'[s.tok].state = "drawn"
           /\ \A k \in Tokens :
                /\ token[k].state = "out" => token'[k].state = "out"
                /\ token'[k].state = "out" => token[k].state = "out" \/ \A s \in sessions' : s.tok # k
<1> DEFINE Goal ==
            /\ \A s \in sessions' : s \in sessions \/ token'[s.tok].state = "drawn"
            /\ \A k \in Tokens :
                /\ token[k].state = "out" => token'[k].state = "out"
                /\ token'[k].state = "out" => token[k].state = "out" \/ \A s \in sessions' : s.tok # k
<1>t. TypeOK /\ Rows /\ \A u \in Threads : RequestOK(th[u])
  BY DEF IInv, RequestsOK
<1>0. ASSUME sessions' \subseteq sessions, \A k \in Tokens : token'[k].state = token[k].state
      PROVE  Goal
  BY <1>0
<1>1. ASSUME NEW t \in Threads, Aside(t) PROVE Goal
  BY <1>1, AsideKeeps
<1>2. ASSUME NEW t \in Threads, Sync(t) PROVE Goal
  BY <1>0, <1>2 DEF Sync, SessionsAfter, database
<1>3. ASSUME NEW t \in Threads, Acknowledge(t) PROVE Goal
  <2>1. sessions' \subseteq sessions
    BY <1>3 DEF Acknowledge, SessionsAfter
  <2>2. \A k \in Tokens : token'[k].state = token[k].state
    BY <1>3, <1>t DEF Acknowledge, TypeOK
  <2> QED
    BY <1>0, <2>1, <2>2
<1>4. ASSUME NEW t \in Threads, Login(t) PROVE Goal
  <2> PICK k \in Tokens : token[k].state = "undrawn" /\ token' = [token EXCEPT ![k].state = "drawn"]
    BY <1>4 DEF Login
  <2>1. sessions' = sessions
    BY <1>4 DEF Login, database
  <2>2. \A j \in Tokens : token'[j].state = token[j].state \/ (j = k /\ token'[j].state = "drawn")
    BY <1>t DEF TypeOK
  <2> QED
    BY <2>1, <2>2
<1>5. ASSUME NEW t \in Threads, CreateSession(t) PROVE Goal
  <2> DEFINE own == [tok |-> th[t].tok, pw |-> th[t].pw]
  <2>1. sessions' \subseteq sessions \cup {own} /\ token' = token
    BY <1>5 DEF CreateSession, SessionsAfter
  <2>2. own.tok = th[t].tok /\ token[th[t].tok].state = "drawn"
    BY <1>5, <1>t DEF CreateSession, RequestOK, Entitled
  <2> HIDE DEF own
  <2> QED
    BY <2>1, <2>2
<1>6. ASSUME NEW t \in Threads, ConfirmSession(t) PROVE Goal
  <2>1. th[t].tok \in Tokens /\ token[th[t].tok].state = "drawn"
    BY <1>6, <1>t DEF ConfirmSession, RequestOK, Entitled
  <2>2. sessions' \subseteq sessions
    BY <1>6 DEF ConfirmSession
  <2>3. \/ token' = token
        \/ token' = [token EXCEPT ![th[t].tok] = [state |-> "held", pw |-> th[t].pw, outdated |-> FALSE]]
    BY <1>6 DEF ConfirmSession
  <2>4. \A j \in Tokens : token'[j].state = token[j].state \/ (j = th[t].tok /\ token'[j].state = "held")
    BY <1>t, <2>1, <2>3 DEF TypeOK
  <2> QED
    BY <2>1, <2>2, <2>4
<1>7. ASSUME NEW t \in Threads, Revoke(t) PROVE Goal
  <2> DEFINE k == th[t].tok
             rows == {s \in sessions : s.tok = k /\ s.pw = th[t].pw}
  <2>1. k \in Tokens /\ token[k].state \in {"held", "out"}
    BY <1>7, <1>t DEF Revoke, RequestOK, Entitled
  <2>2. sessions' = sessions \ rows /\ token' = IF rows = {} THEN token ELSE [token EXCEPT ![k].state = "out"]
    BY <1>7 DEF Revoke
  <2>3. \A j \in Tokens :
            token'[j].state = token[j].state \/ (j = k /\ rows # {} /\ token'[j].state = "out")
    BY <1>t, <2>1, <2>2 DEF TypeOK
  <2>4. ASSUME rows # {}, NEW s \in sessions, s.tok = k PROVE s \notin sessions'
    <3>1. token[k].pw = s.pw
      BY <1>t, <2>1, <2>4 DEF Rows
    <3> PICK o \in rows : TRUE
      BY <2>4
    <3>2. token[k].pw = o.pw /\ o.pw = th[t].pw
      BY <1>t, <2>1 DEF Rows
    <3> QED
      BY <2>2, <2>4, <3>1, <3>2
  <2>5. sessions' \subseteq sessions
    BY <2>2
  <2> HIDE DEF k, rows
  <2> QED
    BY <2>3, <2>4, <2>5
<1>8. ASSUME NEW w \in Workers, Die(w) PROVE Goal
  BY <1>0, <1>8 DEF Die
<1>9. ASSUME Edit PROVE Goal
  <2>1. sessions' = sessions
    BY <1>9 DEF Edit, database
  <2>2. \A k \in Tokens : token'[k].state = token[k].state
    BY <1>9, <1>t DEF Edit, TypeOK
  <2> QED
    BY <1>0, <2>1, <2>2
<1> HIDE DEF Goal
<1>10. Goal
  BY <1>1, <1>2, <1>3, <1>4, <1>5, <1>6, <1>7, <1>8, <1>9
     DEF Next, Check, LoginStep, Save, Logout, Aside
<1> QED
  BY <1>10 DEF Goal

LEMMA GoneStep == Gone /\ [Next]_vars => Gone'
<1> SUFFICES ASSUME Gone, [Next]_vars PROVE Gone'
  OBVIOUS
<1>1. IInv'
  BY Step DEF Gone
<1>2. CASE UNCHANGED vars
  BY <1>1, <1>2 DEF Gone, RevokedIsGone, vars, database
<1>3. CASE Next
  <2> SUFFICES ASSUME NEW s \in sessions', token'[s.tok].state = "out" PROVE FALSE
    BY <1>1 DEF Gone, RevokedIsGone
  <2>1. s.tok \in Tokens
    BY <1>1 DEF IInv, TypeOK
  <2>2. s \in sessions /\ token[s.tok].state = "out"
    BY <1>3, <2>1, RowsAndTokens DEF Gone
  <2> QED
    BY <2>2 DEF Gone, RevokedIsGone
<1> QED
  BY <1>2, <1>3

(* The step of a request that is not let in yet: only finding the session  *)
(* and a snapshot that holds let it in.                                    *)
LEMMA Admission ==
    ASSUME IInv, Next, NEW t \in Threads, ~LetIn(th[t]), LetIn(th'[t])
    PROVE  th[t].pc = "lookup" /\ Valid(th[t].tok, th[t].pw)
<1>t. TypeOK /\ th[t] \in Request
  BY DEF IInv, TypeOK
<1>i. ~LetIn(Idle)
  BY Constant DEF LetIn
<1>1. ASSUME NEW u \in Threads, u # t,
             Begin(u) \/ BeginUnknown(u) \/ Login(u) \/ Check(u) \/ LoginStep(u) \/ Save(u) \/ Logout(u) \/ Stream(u)
      PROVE  th'[t] = th[t]
  BY <1>t, <1>1
     DEF TypeOK, Begin, BeginUnknown, Login, Check, LoginStep, Save, Logout, ReadPassword, Revoke, Stream, Enter, Sync, Remember, Lookup,
         Answer, Unavailable, EnterLogin, CreateSession, ConfirmSession, LoadDocument, WriteFails, AtomicDump,
         ReadBack, Acknowledge, AcknowledgeFails, Unlock, Revalidate, StreamEnds, Become, Goto
<1>a. /\ \A r : Become(t, r) => th'[t] = r
      /\ \A pc : Goto(t, pc) => th'[t].pc = pc
  BY <1>t DEF TypeOK, Request, Become, Goto
<1>b. \A pc : [th[t] EXCEPT !.pc = pc].pc = pc
  BY <1>t DEF Request
<1>c. ~LetIn(AfterSync(t))
  <2>1. AfterSync(t) = Idle \/ AfterSync(t).pc = "lookup"
    BY <1>b DEF AfterSync
  <2> QED
    BY <1>i, <2>1 DEF LetIn
<1>2. ASSUME Enter(t) \/ EnterLogin(t) \/ Begin(t) \/ BeginUnknown(t) \/ Login(t) PROVE ~LetIn(th'[t])
  <2>1. Enter(t) => th'[t].pc = "sync"
    BY <1>t DEF Enter, TypeOK, Request
  <2>2. EnterLogin(t) => th'[t] = Idle \/ th'[t] = [th[t] EXCEPT !.pc = "create", !.sig = file.sig]
    BY <1>a DEF EnterLogin
  <2>3. [th[t] EXCEPT !.pc = "create", !.sig = file.sig].pc = "create"
    BY <1>t DEF Request
  <2>4. Begin(t) \/ BeginUnknown(t) \/ Login(t) => th'[t].pc = "entering"
    BY <1>a DEF Begin, BeginUnknown, Login, Idle
  <2> QED
    BY <1>2, <1>i, <2>1, <2>2, <2>3, <2>4 DEF LetIn
<1>3. ASSUME Sync(t) \/ Remember(t) \/ Unavailable(t) \/ CreateSession(t) \/ ConfirmSession(t) PROVE ~LetIn(th'[t])
  <2>1. Sync(t) => th'[t] = AfterSync(t) \/ th'[t].pc = "remember"
    BY <1>a DEF Sync
  <2>2. Remember(t) => th'[t] = AfterSync(t)
    BY <1>a DEF Remember
  <2>3. Unavailable(t) \/ ConfirmSession(t) => th'[t] = Idle
    BY <1>a DEF Unavailable, ConfirmSession
  <2>4. CreateSession(t) => th'[t].pc = "confirm"
    BY <1>a DEF CreateSession
  <2> QED
    BY <1>3, <1>i, <1>c, <2>1, <2>2, <2>3, <2>4 DEF LetIn
<1>4. ASSUME Save(t) \/ Logout(t) \/ Stream(t) PROVE ~LetIn(th'[t])
  <2>1. th[t].pc \notin {"saving", "revoking", "hashed", "streaming"}
    BY DEF LetIn
  <2>2. ~LoadDocument(t) /\ ~Logout(t) /\ ~Stream(t)
    BY <2>1 DEF LoadDocument, Logout, ReadPassword, Revoke, Stream, Revalidate, StreamEnds
  <2>3. WriteFails(t) \/ Unlock(t) => th'[t] = Idle
    BY <1>a DEF WriteFails, Unlock
  <2>4. AtomicDump(t) => th'[t].pc = "dumped"
    BY <1>a DEF AtomicDump, Idle
  <2>5. ReadBack(t) => th'[t].pc = "read back"
    BY <1>t DEF ReadBack, TypeOK, Request
  <2>6. Acknowledge(t) \/ AcknowledgeFails(t) => th'[t].pc = "acknowledged"
    BY <1>a DEF Acknowledge, AcknowledgeFails
  <2> QED
    BY <1>4, <1>i, <2>2, <2>3, <2>4, <2>5, <2>6 DEF LetIn, Save
<1>5. ASSUME Answer(t) PROVE ~LetIn(th'[t])
  <2> DEFINE r == [th[t] EXCEPT !.pc = "sync", !.pw = file.pw, !.sig = file.sig,
                                !.valid = FALSE, !.answered = TRUE]
  <2>1. th[t].pc = "answer" /\ ~th[t].valid
    BY <1>5 DEF Answer, LetIn
  <2>2. r.pc = "sync"
    BY <1>t DEF Request
  <2> HIDE DEF r
  <2>3. th'[t] = Idle \/ th'[t] = r
    BY <1>5, <1>a, <2>1 DEF Answer, r
  <2> QED
    BY <1>i, <2>2, <2>3 DEF LetIn
<1>6. ASSUME Lookup(t) PROVE th[t].pc = "lookup" /\ Valid(th[t].tok, th[t].pw)
  <2>1. th[t].pc = "lookup" /\ th'[t].pc = "answer" /\ th'[t].valid = Valid(th[t].tok, th[t].pw)
    BY <1>t, <1>6 DEF Lookup, TypeOK, Request
  <2> QED
    BY <2>1 DEF LetIn
<1>7. ASSUME NEW w \in Workers, Die(w) PROVE ~LetIn(th'[t])
  <2>1. th'[t] = Idle \/ th'[t] = th[t]
    BY <1>7 DEF Die
  <2> QED
    BY <1>i, <2>1
<1>8. ASSUME Edit PROVE th'[t] = th[t]
  BY <1>8 DEF Edit
<1> QED
  BY <1>1, <1>2, <1>3, <1>4, <1>5, <1>6, <1>7, <1>8 DEF Next, Check, LoginStep

(* A session that was logged out has no row, whatever is edited, saved or  *)
(* crashes meanwhile (delete_session).                                     *)
THEOREM LoggedOutHasNoRow == Spec => []RevokedIsGone
<1>1. Init => Gone
  BY Initially DEF Gone, RevokedIsGone, Init
<1>2. Gone => RevokedIsGone
  BY DEF Gone
<1> QED
  BY <1>1, <1>2, GoneStep, PTL DEF Spec

(* A logout is final: no later step revives the token, and a request that  *)
(* had not found its session by then is not let in, a stream that comes to *)
(* its revalidation included (_session_valid, _generate).                  *)
THEOREM LogoutIsFinal == Spec => [][LogoutHolds]_vars
<1>1. Init => Gone
  BY Initially DEF Gone, RevokedIsGone, Init
<1>2. Gone /\ [Next]_vars => [LogoutHolds]_vars
  <2> SUFFICES ASSUME Gone, Next PROVE LogoutHolds
    OBVIOUS
  <2>1. \A k \in Tokens : token[k].state = "out" => token'[k].state = "out"
    BY RowsAndTokens DEF Gone
  <2>2. ASSUME NEW t \in Threads, token[th[t].tok].state = "out", ~LetIn(th[t]), LetIn(th'[t])
        PROVE  FALSE
    <3> DEFINE s == [tok |-> th[t].tok, pw |-> th[t].pw]
    <3>1. s \in sessions
      BY <2>2, Admission DEF Gone, Valid
    <3> QED
      BY <2>2, <3>1 DEF Gone, RevokedIsGone
  <2> QED
    BY <2>1, <2>2 DEF LogoutHolds
<1> QED
  BY <1>1, <1>2, GoneStep, PTL DEF Spec

=============================================================================
