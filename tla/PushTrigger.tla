---------------------------- MODULE PushTrigger ----------------------------
(***************************************************************************)
(* The gate in front of automatic reviews on push, as the GitHub app keeps *)
(* it in one worker (servers/github_app.py).  The first push to a pull     *)
(* request is processed, the second waits for it as a delegate of the      *)
(* commits to come, the others are discarded.  The gate is two dictionaries*)
(* with a time-to-live: how many tasks are active on a pull request, and   *)
(* the condition variable its delegate waits on.                           *)
(*                                                                         *)
(* The event loop runs a handler up to its next await, so an action is what*)
(* happens between two awaits.  A condition is modelled by the queue of the*)
(* tasks that wait on it.                                                  *)
(***************************************************************************)
EXTENDS Naturals, Sequences, TimedDict

CONSTANTS
    PullRequests,
    Tasks,          \* the webhook deliveries of pushes, over all pull requests
    Backlog,        \* github_app.push_trigger_pending_tasks_backlog
    Filtered,       \* deliveries whose payload is refused past the gate: a draft, a title, a sender
    Faults          \* "overrun": processing outlives the time-to-live

ASSUME BacklogAssumption == Backlog \in BOOLEAN

VARIABLES
    counters,       \* _duplicate_push_triggers
    conditions,     \* _pending_task_duplicate_push_conditions
    head,           \* the newest commit of each pull request
    opened,         \* the head that each delivery's provider was built on
    named,          \* the commit the last review of each pull request names
    seen,           \* the newest commit whose patches a review is made of
    muted,          \* the same of the processings that have to stay silent
    task            \* task[t]: [pc, pr, commit]

gate == <<counters, conditions>>
readings == <<named, seen, muted>>
vars == <<gate, head, opened, readings, task>>

NoTask == [pc |-> "unborn"]
PC == {"delivered", "ignored", "waiting", "ready", "processing", "discarded", "done"}
Task == {NoTask} \cup [pc: PC, pr: PullRequests, commit: Nat]

At(p, pcs) == {t \in Tasks : task[t].pc \in pcs /\ task[t].pr = p}
Running(p) == At(p, {"ready", "processing"})
Waiting(p) == At(p, {"waiting"})
Active(p) == Running(p) \cup Waiting(p)

Count(p) == Value(counters, p, 0)
Queue(p) == Value(conditions, p, <<>>)

(* Mutant: the backlog switch is read the wrong way round.                  *)
MaxActiveInverted == IF Backlog THEN 1 ELSE 2

MaxActive == IF Backlog THEN 2 ELSE 1

(* Mutant: one task too many is let in.                                     *)
OverFull(active) == active > MaxActive

Full(active) == active >= MaxActive

(* Mutant: the second task waits for nobody.                                *)
NeverWaits(active) == FALSE

MustWait(active) == active = 1

TypeOK ==
    /\ DictOver(counters, PullRequests)
    /\ DictOver(conditions, PullRequests)
    /\ \A p \in PullRequests : Count(p) \in 0..MaxActive /\ Queue(p) \in Seq(Tasks)
    /\ head \in [PullRequests -> Nat]
    /\ opened \in [Tasks -> Nat]
    /\ named \in [PullRequests -> Nat]
    /\ seen \in [PullRequests -> Nat]
    /\ muted \in [PullRequests -> Nat]
    /\ task \in [Tasks -> Task]

Init ==
    /\ counters = Empty
    /\ conditions = Empty
    /\ head = [p \in PullRequests |-> 0]
    /\ opened = [t \in Tasks |-> 0]
    /\ named = [p \in PullRequests |-> 0]
    /\ seen = [p \in PullRequests |-> 0]
    /\ muted = [p \in PullRequests |-> 0]
    /\ task = [t \in Tasks |-> NoTask]

Goto(t, pc) == task' = [task EXCEPT ![t].pc = pc]

(* A push reaches GitHub and its delivery the worker.  Handlers run in any *)
(* order: what they do before the gate takes its time.                     *)
Push(t, p) ==
    /\ task[t] = NoTask
    /\ head' = [head EXCEPT ![p] = @ + 1]
    /\ task' = [task EXCEPT ![t] = [pc |-> "delivered", pr |-> p, commit |-> head[p] + 1]]
    /\ UNCHANGED <<gate, opened, readings>>

(* A key outlives its TTL.  Every task touches its pull request's keys when*)
(* it comes and when it ends, so a key in use ages only if one processing  *)
(* takes longer than the TTL.                                              *)
AgeKey(p) ==
    /\ "overrun" \in Faults \/ Active(p) = {}
    /\ \/ /\ p \in Keys(counters) \ counters.old
          /\ counters' = Age(counters, p)
          /\ UNCHANGED conditions
       \/ /\ p \in Keys(conditions) \ conditions.old
          /\ conditions' = Age(conditions, p)
          /\ UNCHANGED counters
    /\ UNCHANGED <<head, opened, readings, task>>

-----------------------------------------------------------------------------
(* handle_push_trigger_for_new_commits.                                    *)

(* The payload names no new commit, a merge, or pushes are not reviewed.   *)
Ignore(t) ==
    /\ task[t].pc = "delivered"
    /\ Goto(t, "ignored")
    /\ UNCHANGED <<gate, head, opened, readings>>

(* Mutant: what is processed is the commit the payload names.               *)
ProcessPayload(t) ==
    LET p == task[t].pr
    IN  /\ named' = [named EXCEPT ![p] = task[t].commit]
        /\ seen' = [seen EXCEPT ![p] = task[t].commit]
        /\ UNCHANGED muted

(* The patches are read now.  But the provider was built, and kept, when   *)
(* the delivery came, and with it the commit that the review will name: if *)
(* an earlier review names it already, an automatic one stays silent.      *)
(* Whether to process at all is read from the payload of the delivery.     *)
Process(t) ==
    LET p    == task[t].pr
        mute == opened[t] = named[p]
    IN  IF t \in Filtered THEN UNCHANGED readings
        ELSE /\ named' = [named EXCEPT ![p] = opened[t]]
             /\ seen' = IF mute THEN seen ELSE [seen EXCEPT ![p] = head[p]]
             /\ muted' = IF mute THEN [muted EXCEPT ![p] = head[p]] ELSE muted

(* Up to the first await: build the provider, count the task in, and wait  *)
(* or go on at once.                                                       *)
Arrive(t) ==
    LET p == task[t].pr
    IN  /\ task[t].pc = "delivered"
        /\ opened' = [opened EXCEPT ![t] = head[p]]
        /\ \E c \in BeforeSetDefault(counters), q \in BeforeGet(conditions, p) :
             LET active == Value(c, p, 0)
                 queue  == Value(q, p, <<>>)
             IN  \/ /\ Full(active)
                    /\ Goto(t, "discarded")
                    /\ counters' = Put(c, p, active)
                    /\ UNCHANGED conditions
                 \/ /\ ~Full(active)
                    /\ MustWait(active)
                    /\ Goto(t, "waiting")
                    /\ counters' = Put(c, p, active + 1)
                    /\ conditions' = Put(q, p, Append(queue, t))
                 \/ /\ ~Full(active)
                    /\ ~MustWait(active)
                    /\ Goto(t, "ready")
                    /\ counters' = Put(c, p, active + 1)
                    /\ conditions' = Put(q, p, queue)
        /\ UNCHANGED <<head, readings>>

(* The task is let through at once, or its wait as a delegate is over.     *)
Start(t) ==
    /\ task[t].pc = "ready"
    /\ Goto(t, "processing")
    /\ Process(t)
    /\ UNCHANGED <<gate, head, opened>>

(* Mutant: the task counts itself out but notifies nobody.                  *)
FinishInSilence(t) ==
    LET p == task[t].pr
    IN  /\ task[t].pc = "processing"
        /\ \E c \in BeforeGet(counters, p) :
             counters' = Put(c, p, IF Value(c, p, 0) = 0 THEN 0 ELSE Value(c, p, 0) - 1)
        /\ Goto(t, "done")
        /\ UNCHANGED <<conditions, head, opened, readings>>

(* The finally clause, however the processing ended: wake the delegate and *)
(* count the task out.                                                     *)
Finish(t) ==
    LET p == task[t].pr
    IN  /\ task[t].pc = "processing"
        /\ \E c \in BeforeGet(counters, p), q \in BeforeGet(conditions, p) :
             LET active == Value(c, p, 0)
                 queue  == Value(q, p, <<>>)
             IN  /\ counters' = Put(c, p, IF active = 0 THEN 0 ELSE active - 1)
                 /\ IF queue = <<>>
                    THEN conditions' = Put(q, p, queue) /\ Goto(t, "done")
                    ELSE /\ conditions' = Put(q, p, Tail(queue))
                         /\ task' = [task EXCEPT ![t].pc = "done", ![Head(queue)].pc = "ready"]
        /\ UNCHANGED <<head, opened, readings>>

-----------------------------------------------------------------------------
Step(t) == Ignore(t) \/ Arrive(t) \/ Start(t) \/ Finish(t)

Quiescent ==
    /\ \A t \in Tasks : task[t].pc \in {"ignored", "waiting", "discarded", "done"}
    /\ UNCHANGED vars

Next ==
    \/ \E t \in Tasks : Step(t) \/ \E p \in PullRequests : Push(t, p)
    \/ \E p \in PullRequests : AgeKey(p)
    \/ Quiescent

Spec == Init /\ [][Next]_vars

(* The event loop runs every task that can run, and every processing ends. *)
FairSpec == Spec /\ \A t \in Tasks : WF_vars(Step(t))

-----------------------------------------------------------------------------
(***************************************************************************)
(* The gate: at most one task works on a pull request and at most one waits*)
(* behind it, in the queue of the condition that task will notify.         *)
(***************************************************************************)
OneWorks == \A p \in PullRequests : \A t, u \in Running(p) : t = u
OneWaits == \A p \in PullRequests : \A t, u \in Waiting(p) : t = u
NobodyWaitsForNothing == \A p \in PullRequests : Waiting(p) # {} => Running(p) # {}

GateIsTight == OneWorks /\ OneWaits /\ NobodyWaitsForNothing

(***************************************************************************)
(* "they will all trigger the exact same processing on the PR" (github_app *)
(* .py:254): a discarded push loses nothing, for the delegate that is to   *)
(* read its commit's patches would do what the discarded one would have    *)
(* done.  The exception the code makes: of two deliveries whose providers  *)
(* were built on one commit the second stays silent, although it has read  *)
(* newer patches; then some delivery was late, handled after a later push  *)
(* (github_app.py:239, git_providers/__init__.py:58, pr_reviewer.py:724).  *)
(***************************************************************************)
Late(p) == \E t \in Tasks : task[t] # NoTask /\ task[t].pr = p /\ opened[t] > task[t].commit

IsRead(p, commit) == seen[p] >= commit \/ (Late(p) /\ muted[p] >= commit)

DelegateDoesTheSame ==
    \A t \in Tasks : task[t].pc = "discarded" /\ t \notin Filtered =>
        LET p == task[t].pr
        IN  \/ IsRead(p, task[t].commit)
            \/ At(p, {"waiting", "ready"}) \ Filtered # {}

(***************************************************************************)
(* The commit of a discarded push is read in the end, by a processing that *)
(* starts after it, and reviewed unless the above exception silences it.   *)
(***************************************************************************)
DiscardedIsSeen ==
    \A t \in Tasks :
        (task[t].pc = "discarded")
            ~> (task[t].pc = "discarded" /\ IsRead(task[t].pr, task[t].commit))

(***************************************************************************)
(* "it will wait [...] to trigger the processing for the new commits when  *)
(* done waiting" (github_app.py:253-257): no delegate waits for ever.      *)
(***************************************************************************)
DelegateProceeds ==
    \A t \in Tasks : (task[t].pc = "waiting") ~> (task[t].pc = "processing")

=============================================================================
