------------------------ MODULE SettingsFile_proofs ------------------------
(***************************************************************************)
(* What holds of the settings file for any number of workers, threads and  *)
(* settings.  The write lock makes the save that holds it the only one     *)
(* (Exclusive); as long as nobody edits the file, what it loaded is what   *)
(* the file holds (Current), and what it backed up too (BackedUp).  A      *)
(* signature is noted only after it was taken (Stamped), and so not after  *)
(* what the worker serves (Ordered), which was whole if it parsed (AsRead).*)
(***************************************************************************)
EXTENDS SettingsFile, TLAPS

Exclusive == \A t, u \in Threads : th[t].pc \in Holding /\ th[u].pc \in Holding => t = u
Current ==
    \A t \in Threads :
        th[t].pc \in {"loaded", "backed up"} /\ Untouched => th[t].doc = file.doc
BackedUp ==
    \A t \in Threads :
        th[t].pc = "backed up" /\ Untouched => backups # <<>> /\ backups[Len(backups)] = file.sig
Stamped ==
    /\ \A t \in Threads : th[t].pc \in {"signed", "applied"} => th[t].sig \in Sig
    /\ \A w \in Workers : reload[w].pc # "idle" => reload[w].sig \in Sig
IInv == TypeOK /\ Exclusive /\ Current /\ BackedUp /\ Stamped

(* A new backup is the last one whatever is pruned (_backup).              *)
LEMMA NewestKeepsTheLast ==
    ASSUME NEW s \in Seq(Sig), Len(s) <= MAX_BACKUPS, NEW x \in Sig
    PROVE  LET n == Newest(Append(s, x)) IN
           /\ n \in Seq(Sig) /\ Len(n) <= MAX_BACKUPS
           /\ n # <<>> /\ n[Len(n)] = x
<1> DEFINE a == Append(s, x)
<1>1. a \in Seq(Sig) /\ Len(a) = Len(s) + 1 /\ a[Len(a)] = x
  OBVIOUS
<1>2. MAX_BACKUPS \in Nat \ {0}
  BY BoundsAssumption
<1>3. CASE Len(a) > MAX_BACKUPS
  <2>1. Newest(a) = Tail(a)
    BY <1>3 DEF Newest
  <2>2. Tail(a) \in Seq(Sig) /\ Len(Tail(a)) = Len(s) /\ Len(s) = MAX_BACKUPS
    BY <1>1, <1>2, <1>3
  <2>3. Tail(a)[Len(s)] = a[Len(s) + 1]
    BY <1>1, <1>2, <2>2
  <2> QED
    BY <1>1, <1>2, <2>1, <2>2, <2>3
<1>4. CASE ~(Len(a) > MAX_BACKUPS)
  BY <1>1, <1>2, <1>4 DEF Newest
<1> QED
  BY <1>3, <1>4


(* The records and documents that actions write have their types.          *)
LEMMA Written ==
    /\ Unset \in Doc
    /\ \A d \in Doc, f \in Fields, s \in Sig : [d EXCEPT ![f] = s] \in Doc
    /\ Idle \in [pc: PC, doc: Doc, sig: 0..MaxSig]
BY BoundsAssumption DEF Unset, Doc, Idle, PC, Sig

LEMMA Initially == Init => IInv
<1> SUFFICES ASSUME Init PROVE IInv
  OBVIOUS
<1>0. 1 \in Sig /\ MaxCrashes \in Nat /\ MAX_BACKUPS \in Nat /\ MaxSig \in Nat
  BY BoundsAssumption DEF Sig
<1>1. file \in [sig: Sig, doc: Doc, ok: BOOLEAN]
  BY <1>0, Written DEF Init
<1>2. backups \in Seq(Sig) /\ Len(backups) <= MAX_BACKUPS
  BY <1>0 DEF Init
<1>3. reload \in [Workers -> [pc: {"idle", "changed", "parsed", "applied"}, sig: 0..MaxSig]]
  BY <1>0 DEF Init, NoReload
<1>4. th \in [Threads -> [pc: PC, doc: Doc, sig: 0..MaxSig]]
  BY Written DEF Init
<1>5. TypeOK
  BY <1>0, <1>1, <1>2, <1>3, <1>4 DEF Init, TypeOK
<1>6. Exclusive /\ Current /\ BackedUp /\ Stamped
  BY DEF Init, Exclusive, Current, BackedUp, Stamped, Holding, Idle, NoReload
<1> QED
  BY <1>5, <1>6 DEF IInv

(* What th becomes when one request moves.                                 *)
Requests == [pc: PC, doc: Doc, sig: 0..MaxSig]

LEMMA Becoming ==
    ASSUME TypeOK, NEW t \in Threads, NEW r \in Requests, Become(t, r)
    PROVE  /\ th' \in [Threads -> Requests]
           /\ th'[t] = r
           /\ \A u \in Threads \ {t} : th'[u] = th[u]
BY DEF TypeOK, Become, Requests

LEMMA Going ==
    ASSUME TypeOK, NEW t \in Threads, NEW pc \in PC, Goto(t, pc)
    PROVE  /\ th' \in [Threads -> Requests]
           /\ th'[t].pc = pc /\ th'[t].doc = th[t].doc /\ th'[t].sig = th[t].sig
           /\ \A u \in Threads \ {t} : th'[u] = th[u]
<1>1. th[t] \in Requests /\ th' = [th EXCEPT ![t] = [th[t] EXCEPT !.pc = pc]]
  BY DEF TypeOK, Goto, Requests
<1>2. [th[t] EXCEPT !.pc = pc] \in Requests
  BY <1>1 DEF Requests
<1> QED
  BY <1>1, <1>2 DEF TypeOK, Requests

(* A step that leaves the file and its backups alone and starts no save    *)
(* disturbs none of the three.                                             *)
LEMMA Quiet ==
    ASSUME Exclusive, Current, BackedUp, UNCHANGED <<file, backups, edited>>,
           \A u \in Threads :
               \/ th'[u] = th[u]
               \/ /\ th'[u].pc \notin {"loaded", "backed up"}
                  /\ th'[u].pc \in Holding => th[u].pc \in Holding
    PROVE  Exclusive' /\ Current' /\ BackedUp'
<1>1. Exclusive'
  BY DEF Exclusive
<1>2. Current'
  BY DEF Current, Untouched
<1>3. BackedUp'
  BY DEF BackedUp, Untouched
<1> QED
  BY <1>1, <1>2, <1>3

(* Stamped holds on while the middleware rests and a request takes its     *)
(* signature from the file.                                                *)
LEMMA StillStamped ==
    ASSUME Stamped, UNCHANGED reload,
           \A u \in Threads :
               \/ th'[u] = th[u]
               \/ th'[u].pc \in {"signed", "applied"} => th'[u].sig \in Sig
    PROVE  Stamped'
BY DEF Stamped

(* A worker that rebuilds its settings serves the file as it is then.      *)
LEMMA Rebuilding ==
    ASSUME TypeOK, NEW w \in Workers, Rebuild(w)
    PROVE  /\ served' \in [Workers -> Sig] /\ stripped' \in SUBSET Workers
           /\ served'[w] = file.sig /\ (w \in stripped' <=> ~file.ok)
           /\ \A v \in Workers \ {w} :
                  served'[v] = served[v] /\ (v \in stripped' <=> v \in stripped)
<1>1. file.sig \in Sig /\ served \in [Workers -> Sig] /\ stripped \in SUBSET Workers
  BY DEF TypeOK
<1>2. CASE file.ok
  BY <1>1, <1>2 DEF Rebuild
<1>3. CASE ~file.ok
  BY <1>1, <1>3 DEF Rebuild
<1> QED
  BY <1>2, <1>3

(* An edit is a new content.                                               *)
LEMMA EditAdvances ==
    ASSUME TypeOK, Edit
    PROVE  file'.sig = file.sig + 1
<1>1. ASSUME NEW f \in Fields,
             file' = [sig |-> file.sig + 1, doc |-> [file.doc EXCEPT ![f] = file.sig + 1], ok |-> TRUE]
      PROVE  file'.sig = file.sig + 1
  BY <1>1
<1>2. CASE file' = [file EXCEPT !.sig = @ + 1, !.ok = FALSE]
  BY <1>2 DEF TypeOK
<1> QED
  BY <1>1, <1>2 DEF Edit

(* The inductive step, one case per action.                                *)
LEMMA Step == IInv /\ [Next]_vars => IInv'
<1> SUFFICES ASSUME IInv, [Next]_vars PROVE IInv'
  OBVIOUS
<1> USE DEF copies
<1>t. TypeOK /\ Exclusive /\ Current /\ BackedUp /\ Stamped
  BY DEF IInv
<1>s. file.sig \in Sig /\ file.doc \in Doc /\ MaxSig \in Nat /\ Sig \subseteq 0..MaxSig /\ 1 \in Sig
  BY <1>t, BoundsAssumption DEF TypeOK, Sig
<1>i. Idle \in Requests /\ Idle.pc = "idle"
  BY Written DEF Requests, Idle
<1>p. Holding \subseteq PC /\ "idle" \in PC /\ "waiting" \in PC /\ "idle" \notin Holding /\ "waiting" \notin Holding
  BY DEF PC, Holding
<1>1. ASSUME NEW t \in Threads, Request(t) PROVE IInv'
  <2>1. /\ th' \in [Threads -> Requests]
        /\ th'[t].pc = "waiting"
        /\ \A u \in Threads \ {t} : th'[u] = th[u]
    BY <1>1, <1>t, <1>i, <1>p, Becoming, Going DEF Request, Holding
  <2>2. TypeOK'
    BY <1>1, <1>t, <2>1 DEF Request, TypeOK, Requests
  <2>3. Exclusive' /\ Current' /\ BackedUp'
    BY <1>1, <1>t, <1>p, <2>1, Quiet DEF Request, Holding
  <2>4. Stamped'
    BY <1>1, <1>t, <2>1, StillStamped DEF Request
  <2> QED
    BY <2>2, <2>3, <2>4 DEF IInv
<1>2. ASSUME NEW t \in Threads, LoadDocument(t) PROVE IInv'
  <2> DEFINE r == [Idle EXCEPT !.pc = "loaded", !.doc = file.doc]
  <2>0. r \in Requests /\ r.pc = "loaded" /\ r.doc = file.doc
    BY <1>s, <1>i DEF Requests, Idle, PC, Holding
  <2>1. CASE file.ok
    <3>1. /\ th' \in [Threads -> Requests] /\ th'[t] = r
          /\ \A u \in Threads \ {t} : th'[u] = th[u]
      BY <1>2, <1>t, <2>0, <2>1, Becoming DEF LoadDocument
    <3>2. TypeOK'
      BY <1>2, <1>t, <3>1 DEF LoadDocument, TypeOK, Requests
    <3>3. \A u \in Threads : th[u].pc \notin Holding
      BY <1>2 DEF LoadDocument
    <3>4. Exclusive'
      BY <3>1, <3>3 DEF Exclusive
    <3>5. Current' /\ BackedUp'
      BY <1>2, <1>t, <2>0, <3>1 DEF LoadDocument, Current, BackedUp, Untouched
    <3>6. Stamped'
      BY <1>2, <1>t, <2>0, <3>1, StillStamped DEF LoadDocument
    <3> QED
      BY <3>2, <3>4, <3>5, <3>6 DEF IInv
  <2>2. CASE ~file.ok
    <3>1. /\ th' \in [Threads -> Requests] /\ th'[t] = Idle
          /\ \A u \in Threads \ {t} : th'[u] = th[u]
      BY <1>2, <1>t, <1>i, <2>2, Becoming DEF LoadDocument
    <3>2. TypeOK'
      BY <1>2, <1>t, <3>1 DEF LoadDocument, TypeOK, Requests
    <3>3. Exclusive' /\ Current' /\ BackedUp'
      BY <1>2, <1>t, <1>i, <1>p, <3>1, Quiet DEF LoadDocument
    <3>4. Stamped'
      BY <1>2, <1>t, <1>i, <3>1, StillStamped DEF LoadDocument
    <3> QED
      BY <3>2, <3>3, <3>4 DEF IInv
  <2> QED
    BY <2>1, <2>2
<1>3. ASSUME NEW t \in Threads, Backup(t) PROVE IInv'
  <2>0. /\ backups' \in Seq(Sig) /\ Len(backups') <= MAX_BACKUPS
        /\ backups' # <<>> /\ backups'[Len(backups')] = file.sig
    BY <1>3, <1>t, <1>s, NewestKeepsTheLast DEF Backup, Goto, TypeOK
  <2>1. TypeOK'
    BY <1>3, <1>t, <2>0 DEF Backup, Goto, TypeOK, PC, Holding
  <2>2. Exclusive'
    BY <1>3, <1>t DEF Backup, Goto, TypeOK, Exclusive, Holding
  <2>3. Current'
    BY <1>3, <1>t DEF Backup, Goto, TypeOK, Current, Untouched
  <2>4. BackedUp'
    BY <1>3, <1>t, <2>0 DEF Backup, Goto, TypeOK, BackedUp, Untouched, Exclusive, Holding
  <2>5. Stamped'
    BY <1>3, <1>t DEF Backup, Goto, TypeOK, Stamped
  <2> QED
    BY <2>1, <2>2, <2>3, <2>4, <2>5 DEF IInv
<1>4. ASSUME NEW t \in Threads, WriteFails(t) PROVE IInv'
  <2>1. /\ th' \in [Threads -> Requests]
        /\ th'[t].pc = "idle"
        /\ \A u \in Threads \ {t} : th'[u] = th[u]
    BY <1>4, <1>t, <1>i, <1>p, Becoming, Going DEF WriteFails, Holding
  <2>2. TypeOK'
    BY <1>4, <1>t, <2>1 DEF WriteFails, TypeOK, Requests
  <2>3. Exclusive' /\ Current' /\ BackedUp'
    BY <1>4, <1>t, <1>p, <2>1, Quiet DEF WriteFails, Holding
  <2>4. Stamped'
    BY <1>4, <1>t, <2>1, StillStamped DEF WriteFails
  <2> QED
    BY <2>2, <2>3, <2>4 DEF IInv
<1>5. ASSUME NEW t \in Threads, AtomicDump(t) PROVE IInv'
  <2>1. TypeOK'
    <3>1. PICK f \in Fields :
            file' = [sig |-> file.sig + 1, doc |-> [th[t].doc EXCEPT ![f] = file.sig + 1], ok |-> TRUE]
      BY <1>5 DEF AtomicDump
    <3>2. file.sig < MaxSig
      BY <1>5 DEF AtomicDump
    <3>4. file.sig + 1 \in Sig
      BY <3>2, <1>s DEF Sig
    <3>3. file' \in [sig: Sig, doc: Doc, ok: BOOLEAN]
      BY <1>t, <3>1, <3>4, Written DEF TypeOK
    <3> QED
      BY <1>5, <1>t, <3>3, Written DEF AtomicDump, Become, TypeOK, PC, Holding, Idle
  <2>2. Exclusive'
    BY <1>5, <1>t DEF AtomicDump, Become, TypeOK, Exclusive, Holding, Idle
  <2>3. \A u \in Threads : th'[u].pc \notin {"loaded", "backed up"}
    BY <1>5, <1>t DEF AtomicDump, Become, TypeOK, Exclusive, Holding, Idle
  <2>4. Stamped'
    BY <1>5, <1>t DEF AtomicDump, Become, TypeOK, Stamped, Idle
  <2> QED
    BY <2>1, <2>2, <2>3, <2>4 DEF IInv, Current, BackedUp
<1>6. ASSUME NEW t \in Threads, ReadBack(t) PROVE IInv'
  <2>1. /\ th' \in [Threads -> Requests]
        /\ th'[t].pc \in {"read back", "idle"}
        /\ \A u \in Threads \ {t} : th'[u] = th[u]
    BY <1>6, <1>t, <1>i, <1>p, Becoming, Going DEF ReadBack, Holding
  <2>2. TypeOK'
    BY <1>6, <1>t, <2>1 DEF ReadBack, TypeOK, Requests
  <2>3. Exclusive' /\ Current' /\ BackedUp'
    BY <1>6, <1>t, <1>p, <2>1, Quiet DEF ReadBack, Holding
  <2>4. Stamped'
    BY <1>6, <1>t, <2>1, StillStamped DEF ReadBack
  <2> QED
    BY <2>2, <2>3, <2>4 DEF IInv
<1>7. ASSUME NEW t \in Threads, TakeSignature(t) PROVE IInv'
  <2>1. /\ th' \in [Threads -> Requests]
        /\ th'[t].pc = "signed" /\ th'[t].sig = file.sig
        /\ \A u \in Threads \ {t} : th'[u] = th[u]
    <3>1. th[t] \in Requests /\ th' = [th EXCEPT ![t] = [th[t] EXCEPT !.pc = "signed", !.sig = file.sig]]
      BY <1>7, <1>t DEF TakeSignature, TypeOK, Requests
    <3>2. [th[t] EXCEPT !.pc = "signed", !.sig = file.sig] \in Requests
      BY <3>1, <1>s, <1>p DEF Requests, Holding
    <3>3. th \in [Threads -> Requests]
      BY <1>t DEF TypeOK, Requests
    <3> QED
      BY <3>1, <3>2, <3>3 DEF Requests
  <2>2. TypeOK'
    BY <1>7, <1>t, <2>1 DEF TakeSignature, TypeOK, Requests
  <2>3. Exclusive' /\ Current' /\ BackedUp'
    BY <1>7, <1>t, <1>p, <2>1, Quiet DEF TakeSignature, Holding
  <2>4. Stamped'
    BY <1>7, <1>t, <1>s, <2>1, StillStamped DEF TakeSignature
  <2> QED
    BY <2>2, <2>3, <2>4 DEF IInv
<1>8. ASSUME NEW t \in Threads, HotReload(t) PROVE IInv'
  <2>0. served' \in [Workers -> Sig] /\ stripped' \in SUBSET Workers
    BY <1>8, <1>t, <1>s, WorkersAssumption, Rebuilding DEF HotReload
  <2>1. /\ th' \in [Threads -> Requests]
        /\ th'[t].pc = "applied" /\ th'[t].sig = th[t].sig
        /\ \A u \in Threads \ {t} : th'[u] = th[u]
    BY <1>8, <1>t, <1>p, Going DEF HotReload, Holding
  <2>2. TypeOK'
    BY <1>8, <1>t, <2>1, <2>0 DEF HotReload, TypeOK, Requests
  <2>3. Exclusive' /\ Current' /\ BackedUp'
    BY <1>8, <1>t, <1>p, <2>1, Quiet DEF HotReload, Holding
  <2>4. th[t].sig \in Sig
    BY <1>8, <1>t DEF HotReload, Stamped
  <2>5. Stamped'
    BY <1>8, <1>t, <2>1, <2>4, StillStamped DEF HotReload
  <2> QED
    BY <2>2, <2>3, <2>5 DEF IInv
<1>9. ASSUME NEW t \in Threads, FinishSave(t) PROVE IInv'
  <2>0. th[t].sig \in Sig
    BY <1>9, <1>t DEF FinishSave, Stamped
  <2>1. loaded' \in [Workers -> Sig]
    BY <1>9, <1>t, <2>0 DEF FinishSave, TypeOK
  <2>2. /\ th' \in [Threads -> Requests]
        /\ th'[t].pc = "idle"
        /\ \A u \in Threads \ {t} : th'[u] = th[u]
    BY <1>9, <1>t, <1>i, Becoming DEF FinishSave
  <2>3. TypeOK'
    BY <1>9, <1>t, <2>1, <2>2 DEF FinishSave, TypeOK, Requests
  <2>4. Exclusive' /\ Current' /\ BackedUp'
    BY <1>9, <1>t, <1>p, <2>2, Quiet DEF FinishSave
  <2>5. Stamped'
    BY <1>9, <1>t, <2>2, StillStamped DEF FinishSave
  <2> QED
    BY <2>3, <2>4, <2>5 DEF IInv
<1>10. ASSUME NEW w \in Workers, Refresh(w) PROVE IInv'
  <2> DEFINE Reloads == [pc: {"idle", "changed", "parsed", "applied"}, sig: 0..MaxSig]
  <2>0. UNCHANGED <<file, backups, th, edited, crashes>>
    BY <1>10 DEF Refresh, SeeChange, ParseChange, ApplyChange, NoteChange
  <2>r. reload[w] \in Reloads /\ (reload[w].pc # "idle" => reload[w].sig \in Sig)
    BY <1>t DEF TypeOK, Stamped
  <2>1. PICK x \in Reloads : reload' = [reload EXCEPT ![w] = x] /\ (x.pc # "idle" => x.sig \in Sig)
    <3>1. CASE SeeChange(w)
      <4>1. [pc |-> "changed", sig |-> file.sig] \in Reloads
        BY <1>s
      <4> QED
        BY <3>1, <4>1, <1>s DEF SeeChange
    <3>2. CASE ParseChange(w)
      <4>1. NoReload \in Reloads /\ NoReload.pc = "idle"
        BY <1>s DEF NoReload
      <4>2. [reload[w] EXCEPT !.pc = "parsed"] \in Reloads
        BY <2>r
      <4>3. [reload[w] EXCEPT !.pc = "parsed"].sig = reload[w].sig /\ reload[w].sig \in Sig
        BY <2>r, <3>2 DEF ParseChange
      <4>4. CASE file.ok
        <5>1. reload' = [reload EXCEPT ![w] = [reload[w] EXCEPT !.pc = "parsed"]]
          BY <3>2, <4>4, <1>t DEF ParseChange, TypeOK
        <5> QED
          BY <4>2, <4>3, <5>1
      <4>5. CASE ~file.ok
        BY <3>2, <4>1, <4>5 DEF ParseChange
      <4> QED
        BY <4>4, <4>5
    <3>4. CASE ApplyChange(w)
      <4>1. [reload[w] EXCEPT !.pc = "applied"] \in Reloads
        BY <2>r
      <4>2. [reload[w] EXCEPT !.pc = "applied"].sig = reload[w].sig /\ reload[w].sig \in Sig
        BY <2>r, <3>4 DEF ApplyChange
      <4>3. reload' = [reload EXCEPT ![w] = [reload[w] EXCEPT !.pc = "applied"]]
        BY <3>4, <1>t DEF ApplyChange, TypeOK
      <4> QED
        BY <4>1, <4>2, <4>3
    <3>3. CASE NoteChange(w)
      <4>1. NoReload \in Reloads /\ NoReload.pc = "idle"
        BY <1>s DEF NoReload
      <4> QED
        BY <3>3, <4>1 DEF NoteChange
    <3> QED
      BY <1>10, <3>1, <3>2, <3>3, <3>4 DEF Refresh
  <2>2. served' \in [Workers -> Sig] /\ stripped' \in SUBSET Workers
    <3>1. CASE ApplyChange(w)
      BY <3>1, <1>t, Rebuilding DEF ApplyChange
    <3>2. CASE SeeChange(w) \/ ParseChange(w) \/ NoteChange(w)
      BY <3>2, <1>t DEF SeeChange, ParseChange, NoteChange, TypeOK
    <3> QED
      BY <1>10, <3>1, <3>2 DEF Refresh
  <2>3. loaded' \in [Workers -> Sig]
    BY <1>10, <1>t, <2>r DEF Refresh, SeeChange, ParseChange, ApplyChange, NoteChange, TypeOK
  <2>4. TypeOK'
    BY <1>t, <2>0, <2>1, <2>2, <2>3 DEF TypeOK
  <2>5. Exclusive' /\ Current' /\ BackedUp'
    BY <1>t, <2>0, Quiet
  <2>6. Stamped'
    BY <1>t, <2>0, <2>1 DEF Stamped, TypeOK
  <2> QED
    BY <2>4, <2>5, <2>6 DEF IInv
<1>11. ASSUME Edit PROVE IInv'
  <2>2. file.sig + 1 \in Sig /\ edited' = file.sig + 1
    BY <1>11, <1>s DEF Edit, Sig
  <2>1. file' \in [sig: Sig, doc: Doc, ok: BOOLEAN] /\ file'.sig = file.sig + 1
    <3>1. ASSUME NEW f \in Fields,
                 file' = [sig |-> file.sig + 1, doc |-> [file.doc EXCEPT ![f] = file.sig + 1], ok |-> TRUE]
          PROVE  file' \in [sig: Sig, doc: Doc, ok: BOOLEAN] /\ file'.sig = file.sig + 1
      BY <3>1, <1>s, <2>2, Written
    <3>2. CASE file' = [file EXCEPT !.sig = @ + 1, !.ok = FALSE]
      BY <3>2, <1>t, <2>2 DEF TypeOK
    <3> QED
      BY <1>11, <3>1, <3>2 DEF Edit
  <2>3. edited' \in 0..MaxSig /\ ~Untouched'
    BY <1>s, <2>1, <2>2 DEF Untouched, Sig
  <2> QED
    BY <1>11, <1>t, <2>1, <2>3 DEF Edit, IInv, TypeOK, Exclusive, Current, BackedUp, Stamped
<1>12. ASSUME NEW w \in Workers, Die(w) PROVE IInv'
  <2>1. th' \in [Threads -> Requests] /\ \A u \in Threads : th'[u] = th[u] \/ th'[u] = Idle
    BY <1>12, <1>t, <1>i DEF Die, TypeOK, Requests
  <2>2. /\ served' \in [Workers -> Sig] /\ loaded' \in [Workers -> Sig]
        /\ stripped' \in SUBSET Workers
        /\ reload' \in [Workers -> [pc: {"idle", "changed", "parsed", "applied"}, sig: 0..MaxSig]]
    BY <1>12, <1>t, <1>s DEF Die, TypeOK, NoReload
  <2>3. crashes' \in 0..MaxCrashes
    BY <1>12, <1>t, BoundsAssumption DEF Die, TypeOK
  <2>4. TypeOK'
    BY <1>12, <1>t, <2>1, <2>2, <2>3 DEF Die, TypeOK, Requests
  <2>5. Exclusive' /\ Current' /\ BackedUp'
    BY <1>12, <1>t, <1>i, <1>p, <2>1, Quiet DEF Die
  <2>6. Stamped'
    BY <1>12, <1>t, <1>i, <2>1 DEF Die, Stamped, TypeOK, NoReload
  <2> QED
    BY <2>4, <2>5, <2>6 DEF IInv
<1>13. CASE UNCHANGED vars
  BY <1>13, <1>t DEF vars, IInv, TypeOK, Exclusive, Current, BackedUp, Stamped, Untouched
<1> QED
  BY <1>1, <1>2, <1>3, <1>4, <1>5, <1>6, <1>7, <1>8, <1>9, <1>10, <1>11, <1>12, <1>13 DEF Next, Save

(* Only AtomicDump replaces the file for a save.                           *)
LEMMA OnlyTheDump ==
    ASSUME IInv, Next, NEW t \in Threads, Saves(t)
    PROVE  AtomicDump(t)
<1>t. TypeOK /\ th[t].pc = "backed up" /\ th'[t].pc = "dumped" /\ th'[t] # th[t]
  BY DEF IInv, Saves
<1>a. ASSUME NEW u \in Threads, Goto(u, "waiting") PROVE FALSE
  BY <1>a, <1>t DEF Goto, TypeOK
<1>b. ASSUME NEW u \in Threads, Become(u, Idle) PROVE FALSE
  <2>1. Idle.pc # "dumped" /\ th' = [th EXCEPT ![u] = Idle]
    BY <1>b DEF Become, Idle
  <2> QED
    BY <1>t, <2>1 DEF TypeOK
<1>1. ASSUME NEW u \in Threads, Goto(u, "waiting") \/ Become(u, Idle) PROVE FALSE
  BY <1>1, <1>a, <1>b
<1>2. ASSUME NEW u \in Threads, NEW pc \in PC \ {"dumped"}, Goto(u, pc) PROVE FALSE
  BY <1>2, <1>t DEF Goto, TypeOK
<1>3. ASSUME NEW u \in Threads, Request(u) PROVE FALSE
  BY <1>1, <1>3 DEF Request
<1>4. ASSUME NEW u \in Threads, LoadDocument(u) PROVE FALSE
  BY <1>4, <1>t DEF LoadDocument, Become, Idle, TypeOK
<1>5. ASSUME NEW u \in Threads, Backup(u) PROVE FALSE
  BY <1>2, <1>5 DEF Backup, PC, Holding
<1>6. ASSUME NEW u \in Threads, WriteFails(u) PROVE FALSE
  BY <1>1, <1>6 DEF WriteFails
<1>7. ASSUME NEW u \in Threads, AtomicDump(u) PROVE AtomicDump(t)
  BY <1>7, <1>t DEF AtomicDump, Become, TypeOK
<1>8. ASSUME NEW u \in Threads, ReadBack(u) PROVE FALSE
  BY <1>1, <1>2, <1>8 DEF ReadBack, PC, Holding
<1>9. ASSUME NEW u \in Threads, TakeSignature(u) PROVE FALSE
  BY <1>9, <1>t DEF TakeSignature, TypeOK
<1>10. ASSUME NEW u \in Threads, HotReload(u) PROVE FALSE
  BY <1>2, <1>10 DEF HotReload, PC, Holding
<1>11. ASSUME NEW u \in Threads, FinishSave(u) PROVE FALSE
  BY <1>1, <1>11 DEF FinishSave
<1>12. ASSUME NEW w \in Workers, Refresh(w) PROVE FALSE
  BY <1>12, <1>t DEF Refresh, SeeChange, ParseChange, ApplyChange, NoteChange
<1>13. ASSUME NEW w \in Workers, Die(w) PROVE FALSE
  BY <1>13, <1>t DEF Die, Idle
<1>14. ~Edit
  BY <1>t DEF Edit
<1> QED
  BY <1>3, <1>4, <1>5, <1>6, <1>7, <1>8, <1>9, <1>10, <1>11, <1>12, <1>13, <1>14 DEF Next, Save

LEMMA Invariance == Spec => []IInv
BY Initially, Step, PTL DEF Spec

(* Every state of the file, the copies and the saves has its type.         *)
THEOREM TypeCorrect == Spec => []TypeOK
<1>1. IInv => TypeOK
  BY DEF IInv
<1> QED
  BY Invariance, <1>1, PTL

(* No save undoes another, however many workers save at once               *)
(* (_config_write_lock).                                                   *)
THEOREM NoSaveIsUndone == Spec => SaveUndoesNoSave
<1>1. IInv /\ [Next]_vars =>
        [\A t \in Threads : Saves(t) /\ Untouched =>
            \E f \in Fields : file'.doc = [file.doc EXCEPT ![f] = file'.sig]]_vars
  <2> SUFFICES ASSUME IInv, Next, NEW t \in Threads, Saves(t), Untouched
               PROVE  \E f \in Fields : file'.doc = [file.doc EXCEPT ![f] = file'.sig]
    BY DEF Saves, vars
  <2>1. th[t].doc = file.doc
    BY DEF IInv, Current, Saves
  <2>2. PICK f \in Fields :
          file' = [sig |-> file.sig + 1, doc |-> [th[t].doc EXCEPT ![f] = file.sig + 1], ok |-> TRUE]
    BY OnlyTheDump DEF AtomicDump
  <2> QED
    BY <2>1, <2>2
<1> QED
  BY Invariance, <1>1, PTL DEF Spec, SaveUndoesNoSave

(* What a save replaces can be had back: it is the newest backup (_backup).*)
THEOREM NothingIsLost == Spec => ReplacedIsBackedUp
<1>1. IInv /\ [Next]_vars =>
        [\A t \in Threads : Saves(t) /\ Untouched =>
            backups # <<>> /\ backups[Len(backups)] = file.sig]_vars
  BY DEF IInv, BackedUp, Saves
<1> QED
  BY Invariance, <1>1, PTL DEF Spec, ReplacedIsBackedUp

-----------------------------------------------------------------------------
(***************************************************************************)
(* Contents only get newer, and so does what a worker serves while it      *)
(* lives.  So a signature that was taken before the file was applied is    *)
(* never newer than what was applied, whoever else of the same worker      *)
(* applies or notes something in between.                                  *)
(***************************************************************************)
Behind(w) ==
    /\ loaded[w] <= served[w] /\ served[w] <= file.sig
    /\ reload[w].pc # "idle" => reload[w].sig <= file.sig
    /\ reload[w].pc = "applied" => reload[w].sig <= served[w]
SaveBehind(t) ==
    /\ th[t].pc \in {"signed", "applied"} => th[t].sig <= file.sig
    /\ th[t].pc = "applied" => th[t].sig <= served[WorkerOf[t]]
Ordered == (\A w \in Workers : Behind(w)) /\ (\A t \in Threads : SaveBehind(t))

(* What one worker notes or applies cannot be seen by the rest.            *)
LEMMA OthersStayBehind ==
    ASSUME TypeOK, Ordered, file.sig <= file'.sig, file'.sig \in Sig,
           served' \in [Workers -> Sig],
           \A w \in Workers : served[w] <= served'[w] /\ served'[w] <= file'.sig
    PROVE  /\ \A w \in Workers :
                  UNCHANGED <<loaded[w], reload[w]>> => Behind(w)'
           /\ \A t \in Threads : UNCHANGED th[t] => SaveBehind(t)'
<1>0. /\ file.sig \in Nat /\ file'.sig \in Nat
      /\ \A w \in Workers : served[w] \in Nat /\ served'[w] \in Nat
      /\ \A w \in Workers : loaded[w] \in Nat /\ reload[w].sig \in Nat
      /\ \A t \in Threads : th[t].sig \in Nat /\ WorkerOf[t] \in Workers
  BY BoundsAssumption, WorkersAssumption DEF TypeOK, Sig
<1>1. ASSUME NEW w \in Workers, UNCHANGED <<loaded[w], reload[w]>> PROVE Behind(w)'
  <2>1. Behind(w)
    BY DEF Ordered
  <2> QED
    BY <1>0, <1>1, <2>1 DEF Behind
<1>2. ASSUME NEW t \in Threads, UNCHANGED th[t] PROVE SaveBehind(t)'
  <2>1. SaveBehind(t)
    BY DEF Ordered
  <2>2. served[WorkerOf[t]] <= served'[WorkerOf[t]]
    BY <1>0
  <2> QED
    BY <1>0, <1>2, <2>1, <2>2 DEF SaveBehind
<1> QED
  BY <1>1, <1>2

LEMMA OrderedInitially == Init => Ordered
BY BoundsAssumption, WorkersAssumption
   DEF Init, Ordered, Behind, SaveBehind, Idle, NoReload, Sig

LEMMA OrderedStep == IInv /\ Ordered /\ [Next]_vars => Ordered'
<1> SUFFICES ASSUME IInv, Ordered, [Next]_vars PROVE Ordered'
  OBVIOUS
<1> USE DEF copies
<1>t. TypeOK /\ TypeOK' /\ Stamped
  BY Step DEF IInv
<1>s. /\ file.sig \in Sig /\ file'.sig \in Sig /\ Sig \subseteq Nat
      /\ served \in [Workers -> Sig] /\ loaded \in [Workers -> Sig]
      /\ served' \in [Workers -> Sig]
      /\ \A w \in Workers : Behind(w)
      /\ \A t \in Threads : WorkerOf[t] \in Workers
  BY <1>t, BoundsAssumption, WorkersAssumption DEF TypeOK, Sig, Ordered
<1>n. /\ file.sig \in Nat /\ file'.sig \in Nat
      /\ \A w \in Workers : served[w] \in Nat /\ served'[w] \in Nat /\ served[w] <= file.sig
  BY <1>s DEF Behind
<1>i. Idle.pc = "idle" /\ NoReload.pc = "idle"
  BY DEF Idle, NoReload
(* Only the thread t moves, and neither the file nor a copy with it.       *)
<1>q. ASSUME NEW t \in Threads, UNCHANGED <<file, copies>>,
             \A u \in Threads \ {t} : th'[u] = th[u],
             th'[t].pc \notin {"signed", "applied"}
      PROVE  Ordered'
  <2>1. SaveBehind(t)'
    BY <1>q DEF SaveBehind
  <2>2. \A w \in Workers : served[w] <= served'[w] /\ served'[w] <= file'.sig
    BY <1>q, <1>n
  <2>3. file.sig <= file'.sig /\ UNCHANGED <<loaded, reload>>
    BY <1>q, <1>n
  <2>4. \A w \in Workers : Behind(w)'
    BY <1>t, <1>s, <2>2, <2>3, OthersStayBehind
  <2>5. \A u \in Threads \ {t} : SaveBehind(u)'
    BY <1>q, <1>t, <1>s, <2>2, <2>3, OthersStayBehind
  <2> QED
    BY <2>1, <2>4, <2>5 DEF Ordered
<1>1. ASSUME NEW t \in Threads, Request(t) PROVE Ordered'
  BY <1>1, <1>q, <1>t DEF Request, Goto, TypeOK
<1>2. ASSUME NEW t \in Threads, LoadDocument(t) PROVE Ordered'
  BY <1>2, <1>q, <1>t DEF LoadDocument, Become, Idle, TypeOK
<1>3. ASSUME NEW t \in Threads, Backup(t) PROVE Ordered'
  BY <1>3, <1>q, <1>t DEF Backup, Goto, TypeOK
<1>4. ASSUME NEW t \in Threads, WriteFails(t) PROVE Ordered'
  BY <1>4, <1>q, <1>t DEF WriteFails, Become, Idle, TypeOK
<1>5. ASSUME NEW t \in Threads, AtomicDump(t) PROVE Ordered'
  <2>1. file'.sig = file.sig + 1 /\ UNCHANGED copies
    <3>1. PICK f \in Fields :
            file' = [sig |-> file.sig + 1, doc |-> [th[t].doc EXCEPT ![f] = file.sig + 1], ok |-> TRUE]
      BY <1>5 DEF AtomicDump
    <3> QED
      BY <1>5, <3>1 DEF AtomicDump
  <2>2. th'[t].pc = "dumped" /\ \A u \in Threads \ {t} : th'[u] = th[u]
    BY <1>5, <1>t DEF AtomicDump, Become, Idle, TypeOK
  <2>3. SaveBehind(t)'
    BY <2>2 DEF SaveBehind
  <2>4. /\ file.sig <= file'.sig
        /\ \A w \in Workers : served[w] <= served'[w] /\ served'[w] <= file'.sig
    BY <1>n, <2>1
  <2> QED
    BY <1>t, <1>s, <2>1, <2>2, <2>3, <2>4, OthersStayBehind DEF Ordered
<1>6. ASSUME NEW t \in Threads, ReadBack(t) PROVE Ordered'
  <2>1. th'[t].pc \in {"read back", "idle"} /\ \A u \in Threads \ {t} : th'[u] = th[u]
    <3>1. CASE file.ok
      BY <1>6, <1>t, <3>1, Going DEF ReadBack, PC, Holding
    <3>2. CASE ~file.ok
      BY <1>6, <1>t, <1>i, <3>2 DEF ReadBack, Become, TypeOK
    <3> QED
      BY <3>1, <3>2
  <2> QED
    BY <1>6, <1>q, <2>1 DEF ReadBack
<1>7. ASSUME NEW t \in Threads, TakeSignature(t) PROVE Ordered'
  <2>1. /\ UNCHANGED <<file, copies>>
        /\ th'[t].pc = "signed" /\ th'[t].sig = file.sig
        /\ \A u \in Threads \ {t} : th'[u] = th[u]
    BY <1>7, <1>t DEF TakeSignature, TypeOK
  <2>2. SaveBehind(t)'
    BY <1>n, <2>1 DEF SaveBehind
  <2>3. /\ file.sig <= file'.sig
        /\ \A w \in Workers : served[w] <= served'[w] /\ served'[w] <= file'.sig
    BY <1>n, <2>1
  <2> QED
    BY <1>t, <1>s, <2>1, <2>2, <2>3, OthersStayBehind DEF Ordered
<1>8. ASSUME NEW t \in Threads, HotReload(t) PROVE Ordered'
  <2>0. UNCHANGED <<file, loaded, reload>> /\ th[t].sig <= file.sig
    BY <1>8 DEF HotReload, Ordered, SaveBehind
  <2>1. /\ file.sig <= file'.sig
        /\ \A w \in Workers : served[w] <= served'[w] /\ served'[w] <= file'.sig
    BY <1>8, <1>t, <1>s, <1>n, <2>0, Rebuilding DEF HotReload
  <2>2. \A u \in Threads \ {t} : th'[u] = th[u]
    BY <1>8, <1>t DEF HotReload, Become, Goto, TypeOK
  <2>3. SaveBehind(t)'
    <3>1. th'[t].pc = "applied" /\ th'[t].sig = th[t].sig
      BY <1>8, <1>t, Going DEF HotReload, PC, Holding
    <3>2. served'[WorkerOf[t]] = file.sig
      BY <1>8, <1>t, <1>s, Rebuilding DEF HotReload
    <3> QED
      BY <2>0, <3>1, <3>2 DEF SaveBehind
  <2> QED
    BY <1>t, <1>s, <2>0, <2>1, <2>2, <2>3, OthersStayBehind DEF Ordered
<1>9. ASSUME NEW t \in Threads, FinishSave(t) PROVE Ordered'
  <2> DEFINE w == WorkerOf[t]
  <2>0. UNCHANGED <<file, served, reload>> /\ th[t].sig <= served[w]
    BY <1>9 DEF FinishSave, Ordered, SaveBehind
  <2>1. /\ loaded'[w] = th[t].sig
        /\ \A v \in Workers \ {w} : loaded'[v] = loaded[v]
    BY <1>9, <1>s DEF FinishSave
  <2>2. th'[t].pc = "idle" /\ \A u \in Threads \ {t} : th'[u] = th[u]
    BY <1>9, <1>t, <1>i DEF FinishSave, Become, TypeOK
  <2>3. /\ file.sig <= file'.sig
        /\ \A v \in Workers : served[v] <= served'[v] /\ served'[v] <= file'.sig
    BY <1>n, <2>0
  <2>4. Behind(w)'
    BY <1>s, <2>0, <2>1 DEF Behind
  <2>5. SaveBehind(t)'
    BY <2>2 DEF SaveBehind
  <2> QED
    BY <1>t, <1>s, <2>0, <2>1, <2>2, <2>3, <2>4, <2>5, OthersStayBehind DEF Ordered
<1>10. ASSUME NEW w \in Workers, Refresh(w) PROVE Ordered'
  <2>0. /\ UNCHANGED <<file, th>>
        /\ \A v \in Workers \ {w} :
               loaded'[v] = loaded[v] /\ reload'[v] = reload[v] /\ served'[v] = served[v]
    <3>1. CASE ApplyChange(w)
      <4>1. \A v \in Workers \ {w} : served'[v] = served[v]
        BY <3>1, <1>t, Rebuilding DEF ApplyChange
      <4> QED
        BY <3>1, <4>1, <1>t DEF ApplyChange, TypeOK
    <3>2. CASE SeeChange(w) \/ ParseChange(w) \/ NoteChange(w)
      BY <3>2, <1>t DEF SeeChange, ParseChange, NoteChange, TypeOK
    <3> QED
      BY <1>10, <3>1, <3>2 DEF Refresh
  <2>1. Behind(w)' /\ served[w] <= served'[w] /\ served'[w] <= file'.sig
    <3>0. /\ Behind(w) /\ reload \in [Workers -> [pc: {"idle", "changed", "parsed", "applied"}, sig: 0..MaxSig]]
          /\ served[w] \in Nat /\ loaded[w] \in Nat /\ file.sig \in Nat
      BY <1>t, <1>s DEF TypeOK
    <3>1. CASE SeeChange(w)
      BY <1>s, <3>0, <3>1 DEF SeeChange, Behind
    <3>2. CASE ParseChange(w)
      <4>1. /\ served' = served /\ loaded' = loaded /\ file' = file
            /\ reload'[w].pc \in {"parsed", "idle"}
            /\ reload'[w].pc # "idle" => reload'[w].sig = reload[w].sig /\ reload[w].pc # "idle"
        BY <1>i, <3>0, <3>2 DEF ParseChange
      <4> QED
        BY <3>0, <4>1 DEF Behind
    <3>4. CASE ApplyChange(w)
      <4>1. served'[w] = file.sig
        BY <1>t, <3>4, Rebuilding DEF ApplyChange
      <4>2. /\ reload'[w].pc = "applied" /\ reload'[w].sig = reload[w].sig
            /\ loaded' = loaded /\ file' = file
        BY <3>0, <3>4 DEF ApplyChange
      <4> QED
        BY <3>0, <3>4, <4>1, <4>2 DEF ApplyChange, Behind
    <3>3. CASE NoteChange(w)
      <4>1. /\ served' = served /\ reload'[w].pc = "idle" /\ file' = file
            /\ loaded'[w] = reload[w].sig
        BY <1>i, <1>s, <3>0, <3>3 DEF NoteChange
      <4> QED
        BY <3>0, <3>3, <4>1 DEF NoteChange, Behind
    <3> QED
      BY <1>10, <3>1, <3>2, <3>3, <3>4 DEF Refresh
  <2>2. /\ file.sig <= file'.sig
        /\ \A v \in Workers : served[v] <= served'[v] /\ served'[v] <= file'.sig
    BY <1>n, <2>0, <2>1
  <2> QED
    BY <1>t, <1>s, <2>0, <2>1, <2>2, OthersStayBehind DEF Ordered
<1>11. ASSUME Edit PROVE Ordered'
  <2>1. file'.sig = file.sig + 1 /\ UNCHANGED <<copies, th>>
    BY <1>11, <1>t, EditAdvances DEF Edit
  <2>2. /\ file.sig <= file'.sig
        /\ \A w \in Workers : served[w] <= served'[w] /\ served'[w] <= file'.sig
    BY <1>n, <2>1
  <2> QED
    BY <1>t, <1>s, <2>1, <2>2, OthersStayBehind DEF Ordered
<1>12. ASSUME NEW w \in Workers, Die(w) PROVE Ordered'
  <2>1. ASSUME NEW v \in Workers PROVE Behind(v)'
    <3>1. CASE v = w
      <4>1. served'[v] = 1 /\ loaded'[v] = 1 /\ reload'[v].pc = "idle" /\ file' = file
        BY <1>12, <1>t, <1>i, <3>1 DEF Die, TypeOK
      <4>2. 1 <= file.sig
        BY <1>s DEF Sig
      <4> QED
        BY <4>1, <4>2 DEF Behind
    <3>2. CASE v # w
      <4>1. UNCHANGED <<served[v], loaded[v], reload[v], file>>
        BY <1>12, <1>t, <3>2 DEF Die, TypeOK
      <4> QED
        BY <1>s, <4>1 DEF Behind
    <3> QED
      BY <3>1, <3>2
  <2>2. ASSUME NEW t \in Threads PROVE SaveBehind(t)'
    <3>1. CASE WorkerOf[t] = w
      <4>1. th'[t].pc = "idle"
        BY <1>12, <1>i, <3>1 DEF Die
      <4> QED
        BY <4>1 DEF SaveBehind
    <3>2. CASE WorkerOf[t] # w
      <4>1. th'[t] = th[t] /\ file' = file /\ served'[WorkerOf[t]] = served[WorkerOf[t]]
        BY <1>12, <1>s, <3>2 DEF Die
      <4> QED
        BY <4>1 DEF SaveBehind, Ordered
    <3> QED
      BY <3>1, <3>2
  <2> QED
    BY <2>1, <2>2 DEF Ordered
<1>13. CASE UNCHANGED vars
  BY <1>13 DEF vars, Ordered, Behind, SaveBehind
<1> QED
  BY <1>1, <1>2, <1>3, <1>4, <1>5, <1>6, <1>7, <1>8, <1>9, <1>10, <1>11, <1>12, <1>13 DEF Next, Save

(***************************************************************************)
(* What a worker runs on depends on whether the file parsed when it was    *)
(* read; contents do not come back, so that is known from the signature.   *)
(***************************************************************************)
AsRead ==
    /\ file.sig = 1 => file.ok
    /\ \A w \in Workers : served[w] = file.sig => (w \in stripped <=> ~file.ok)

(* A new content is one that no worker serves yet.                         *)
LEMMA NewContent ==
    ASSUME TypeOK, Ordered, file'.sig = file.sig + 1, UNCHANGED <<served, stripped>>
    PROVE  AsRead'
<1>1. /\ file.sig \in Nat \ {0}
      /\ \A w \in Workers : served[w] \in Nat /\ served[w] <= file.sig
  BY BoundsAssumption DEF TypeOK, Sig, Ordered, Behind
<1> QED
  BY <1>1 DEF AsRead

LEMMA RebuiltAsRead ==
    ASSUME TypeOK, AsRead, UNCHANGED file, NEW w \in Workers, Rebuild(w)
    PROVE  AsRead'
<1>1. /\ w \in stripped' <=> ~file.ok
      /\ \A v \in Workers \ {w} :
             served'[v] = served[v] /\ (v \in stripped' <=> v \in stripped)
  BY Rebuilding
<1> QED
  BY <1>1 DEF AsRead

LEMMA AsReadStep == IInv /\ Ordered /\ AsRead /\ [Next]_vars => AsRead'
<1> SUFFICES ASSUME IInv, Ordered, AsRead, [Next]_vars PROVE AsRead'
  OBVIOUS
<1>t. TypeOK
  BY DEF IInv
<1>1. CASE UNCHANGED <<file, served, stripped>>
  BY <1>1 DEF AsRead
<1>2. ASSUME NEW t \in Threads, Request(t) \/ Save(t) PROVE AsRead'
  <2>1. CASE AtomicDump(t)
    <3>1. PICK f \in Fields :
            file' = [sig |-> file.sig + 1, doc |-> [th[t].doc EXCEPT ![f] = file.sig + 1], ok |-> TRUE]
      BY <2>1 DEF AtomicDump
    <3> QED
      BY <2>1, <3>1, <1>t, NewContent DEF AtomicDump, copies
  <2>2. CASE HotReload(t)
    BY <2>2, <1>t, WorkersAssumption, RebuiltAsRead DEF HotReload
  <2>3. CASE Request(t) \/ LoadDocument(t) \/ Backup(t) \/ WriteFails(t) \/ ReadBack(t)
              \/ TakeSignature(t) \/ FinishSave(t)
    BY <2>3, <1>1 DEF Request, LoadDocument, Backup, WriteFails, ReadBack, TakeSignature,
                      FinishSave, copies
  <2> QED
    BY <1>2, <2>1, <2>2, <2>3 DEF Save
<1>3. ASSUME NEW w \in Workers, Refresh(w) PROVE AsRead'
  <2>1. CASE ApplyChange(w)
    BY <2>1, <1>t, RebuiltAsRead DEF ApplyChange
  <2>2. CASE SeeChange(w) \/ ParseChange(w) \/ NoteChange(w)
    BY <2>2, <1>1 DEF SeeChange, ParseChange, NoteChange
  <2> QED
    BY <1>3, <2>1, <2>2 DEF Refresh
<1>4. ASSUME NEW w \in Workers, Die(w) PROVE AsRead'
  <2>1. /\ file' = file /\ served'[w] = 1 /\ w \notin stripped'
        /\ \A v \in Workers \ {w} :
               served'[v] = served[v] /\ (v \in stripped' <=> v \in stripped)
    BY <1>4, <1>t DEF Die, TypeOK
  <2> QED
    BY <2>1 DEF AsRead
<1>5. ASSUME Edit PROVE AsRead'
  <2>1. file'.sig = file.sig + 1
    BY <1>5, <1>t, EditAdvances
  <2> QED
    BY <1>5, <2>1, <1>t, NewContent DEF Edit, copies
<1>6. CASE UNCHANGED vars
  BY <1>6, <1>1 DEF vars, copies
<1> QED
  BY <1>2, <1>3, <1>4, <1>5, <1>6 DEF Next

(* A worker that takes the file for loaded serves all of it, and none of a *)
(* file that does not parse, for any number of workers and saves beside    *)
(* each other, edits and deaths (reload_if_changed).  This is the safety   *)
(* half of WorkersConverge: the refresh of a worker has nothing left to do *)
(* only when nothing is left to be done.                                   *)
THEOREM NoCopyIsStale == Spec => []LoadedIsServed
<1>1. IInv /\ Ordered /\ AsRead => LoadedIsServed
  <2> SUFFICES ASSUME IInv, Ordered, AsRead, NEW w \in Workers, loaded[w] = file.sig
               PROVE  served[w] = file.sig /\ (w \in stripped <=> ~file.ok)
    BY DEF LoadedIsServed
  <2>1. served[w] \in Nat /\ file.sig \in Nat
    BY BoundsAssumption DEF IInv, TypeOK, Sig
  <2>2. served[w] = file.sig
    BY <2>1 DEF Ordered, Behind
  <2> QED
    BY <2>2 DEF AsRead
<1>2. Spec => []Ordered
  BY Invariance, OrderedInitially, OrderedStep, PTL DEF Spec
<1>3. Init => AsRead
  BY DEF Init, AsRead
<1>4. Spec => []AsRead
  BY Invariance, <1>2, <1>3, AsReadStep, PTL DEF Spec
<1> QED
  BY Invariance, <1>1, <1>2, <1>4, PTL

=============================================================================
