----------------------------- MODULE VerdictLog -----------------------------
(***************************************************************************)
(* What publishing reviews promises, without locks, reads or retries: the  *)
(* log of verdicts of one pull request as the people on it see it.  A      *)
(* request remembers how much of the log existed when it was taken up.  It *)
(* is then closed in ONE step, by a new entry, by silence, or by giving up;*)
(* the entry must not be redundant and the silence must have a reason.     *)
(***************************************************************************)
EXTENDS Naturals, Sequences

CONSTANTS Runs, Commits, Verdicts

VARIABLES
    log,       \* the verdicts: [sha, run, verdict, dismissed]
    request    \* request[r]: [status, manual, sha, seen]

logVars == <<log, request>>

NoRequest == [status |-> "none", manual |-> FALSE, sha |-> 0, seen |-> 0]

Init ==
    /\ log = <<>>
    /\ request = [r \in Runs |-> NoRequest]

Close(r, how) == request' = [request EXCEPT ![r].status = how]

(* The request is taken up, knowing the first `seen' entries of the log.   *)
TakeUp(r, manual, sha, seen) ==
    /\ request[r].status = "none"
    /\ seen \in 0..Len(log)
    /\ request' = [request EXCEPT ![r] =
          [status |-> "open", manual |-> manual, sha |-> sha, seen |-> seen]]
    /\ UNCHANGED log

(* The last word on this request's commit is an undismissed entry that the *)
(* request does not know of; an automatic request need not even ask that.  *)
Redundant(r) ==
    \E i \in DOMAIN log :
        /\ ~log[i].dismissed
        /\ \A k \in DOMAIN log : k >= i => log[k].sha = request[r].sha
        /\ request[r].manual => i > request[r].seen

Answer(r, verdict) ==
    /\ request[r].status = "open"
    /\ ~Redundant(r)
    /\ log' = Append(log, [sha |-> request[r].sha, run |-> r,
                           verdict |-> verdict, dismissed |-> FALSE])
    /\ Close(r, "answered")

(* An entry is the answer: one for the same commit, which a manual request *)
(* must not have known of.  An automatic request may also be content with  *)
(* an entry whose verdict it would only repeat, whatever its commit.       *)
Silence(r) ==
    /\ request[r].status = "open"
    /\ \E i \in DOMAIN log :
         \/ log[i].sha = request[r].sha /\ (request[r].manual => i > request[r].seen)
         \/ ~request[r].manual
    /\ Close(r, "silent")
    /\ UNCHANGED log

GiveUp(r) ==
    /\ request[r].status \in {"none", "open"}
    /\ request' = [request EXCEPT ![r] = [NoRequest EXCEPT !.status = "gaveup"]]
    /\ UNCHANGED log

Dismiss(i) ==
    /\ log' = [log EXCEPT ![i].dismissed = TRUE]
    /\ UNCHANGED request

Next ==
    \/ \E r \in Runs :
         \/ \E manual \in BOOLEAN, sha \in Commits, seen \in 0..Len(log) :
                TakeUp(r, manual, sha, seen)
         \/ \E verdict \in Verdicts : Answer(r, verdict)
         \/ Silence(r)
         \/ GiveUp(r)
    \/ \E i \in DOMAIN log : Dismiss(i)

Spec == Init /\ [][Next]_logVars

=============================================================================
