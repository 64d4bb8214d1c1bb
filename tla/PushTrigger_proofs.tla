------------------------- MODULE PushTrigger_proofs -------------------------
(***************************************************************************)
(* Proofs about PushTrigger, for any number of pull requests and pushes.   *)
(*                                                                         *)
(* The gate of a pull request is in one of three situations (Gate): nobody *)
(* is active; one task works; one works and one waits in the queue of the  *)
(* condition.  While somebody is active both keys are young (InUse), which *)
(* is what the time-to-live has to be long enough for.                     *)
(***************************************************************************)
EXTENDS PushTrigger, SequenceTheorems, TLAPS

Idle(p) == Running(p) = {} /\ Waiting(p) = {} /\ Count(p) = 0 /\ Queue(p) = <<>>

Working(p, t) ==
    Running(p) = {t} /\ Waiting(p) = {} /\ Count(p) = 1 /\ Queue(p) = <<>>

Delegated(p, t, u) ==
    Running(p) = {t} /\ Waiting(p) = {u} /\ Count(p) = 2 /\ Queue(p) = <<u>>

GateAt(p) ==
    \/ Idle(p)
    \/ \E t \in Tasks : Working(p, t)
    \/ \E t, u \in Tasks : Delegated(p, t, u)

Gate == \A p \in PullRequests : GateAt(p)

InUse ==
    \A p \in PullRequests :
        Active(p) # {} => /\ p \in Keys(counters) \ counters.old
                          /\ p \in Keys(conditions) \ conditions.old

Known == \A t \in Tasks : task[t] # NoTask => task[t].commit <= head[task[t].pr]

-----------------------------------------------------------------------------
(* What the dictionary's operations do to the items of a key.              *)
LEMMA RefreshedValue ==
  ASSUME NEW d, NEW touched, NEW c \in Refreshed(d, touched), NEW x, NEW default,
         NEW K, DictOver(d, K)
  PROVE  /\ DictOver(c, K)
         /\ c.old \subseteq d.old
         /\ x \in Keys(d) \ d.old => x \in Keys(c)
         /\ \/ Value(c, x, default) = Value(d, x, default)
            \/ x \in d.old \ touched /\ Value(c, x, default) = default
  BY DEF Refreshed, Keys, Value, DictOver

LEMMA AgeValue ==
  ASSUME NEW d, NEW K, DictOver(d, K), NEW k \in Keys(d), NEW x, NEW default
  PROVE  /\ DictOver(Age(d, k), K)
         /\ Keys(Age(d, k)) = Keys(d)
         /\ Age(d, k).old = d.old \cup {k}
         /\ Value(Age(d, k), x, default) = Value(d, x, default)
  BY DEF Age, Keys, Value, DictOver

-----------------------------------------------------------------------------
(* Tasks.                                                                  *)
LEMMA TaskShape ==
  ASSUME TypeOK, NEW t \in Tasks, task[t].pc # "unborn"
  PROVE  /\ task[t] \in [pc: PC, pr: PullRequests, commit: Nat]
         /\ task[t].pc \in PC /\ task[t].pr \in PullRequests /\ task[t].commit \in Nat
  <1>1. task[t] \in Task
    BY DEF TypeOK
  <1>2. task[t] \in [pc: PC, pr: PullRequests, commit: Nat]
    BY <1>1 DEF Task, NoTask
  <1> QED
    BY <1>2

LEMMA GotoTask ==
  ASSUME TypeOK, NEW t \in Tasks, task[t].pc # "unborn", NEW pc \in PC, Goto(t, pc)
  PROVE  /\ task' \in [Tasks -> Task]
         /\ task'[t].pc = pc /\ task'[t].pr = task[t].pr /\ task'[t].commit = task[t].commit
         /\ \A u \in Tasks \ {t} : task'[u] = task[u]
  <1>1. task[t] \in [pc: PC, pr: PullRequests, commit: Nat] /\ task \in [Tasks -> Task]
    BY TaskShape DEF TypeOK
  <1>2. [task[t] EXCEPT !.pc = pc] \in [pc: PC, pr: PullRequests, commit: Nat]
    BY <1>1
  <1>3. task' = [task EXCEPT ![t] = [task[t] EXCEPT !.pc = pc]]
    BY DEF Goto
  <1> QED
    BY <1>1, <1>2, <1>3 DEF Task

LEMMA PushTask ==
  ASSUME TypeOK, NEW t \in Tasks, NEW p \in PullRequests, Push(t, p)
  PROVE  /\ task' \in [Tasks -> Task]
         /\ task'[t] = [pc |-> "delivered", pr |-> p, commit |-> head[p] + 1]
         /\ \A u \in Tasks \ {t} : task'[u] = task[u]
  BY DEF Push, TypeOK, Task, PC

(* The finally clause with a delegate to wake moves two tasks at once.     *)
LEMMA WakeTask ==
  ASSUME TypeOK, NEW t \in Tasks, NEW u \in Tasks, t # u,
         task[t].pc # "unborn", task[u].pc # "unborn",
         task' = [task EXCEPT ![t].pc = "done", ![u].pc = "ready"]
  PROVE  /\ task' \in [Tasks -> Task]
         /\ task'[t].pc = "done" /\ task'[t].pr = task[t].pr /\ task'[t].commit = task[t].commit
         /\ task'[u].pc = "ready" /\ task'[u].pr = task[u].pr /\ task'[u].commit = task[u].commit
         /\ \A v \in Tasks \ {t, u} : task'[v] = task[v]
  <1>1. /\ task[t] \in [pc: PC, pr: PullRequests, commit: Nat]
        /\ task[u] \in [pc: PC, pr: PullRequests, commit: Nat]
        /\ task \in [Tasks -> Task]
    BY TaskShape DEF TypeOK
  <1>2. /\ [task[t] EXCEPT !.pc = "done"] \in [pc: PC, pr: PullRequests, commit: Nat]
        /\ [task[u] EXCEPT !.pc = "ready"] \in [pc: PC, pr: PullRequests, commit: Nat]
    BY <1>1 DEF PC
  <1>3. task' = [task EXCEPT ![t] = [task[t] EXCEPT !.pc = "done"],
                             ![u] = [task[u] EXCEPT !.pc = "ready"]]
    OBVIOUS
  <1> QED
    BY <1>1, <1>2, <1>3 DEF Task

(* What the tasks' own steps do to what is known of the pull requests.     *)
ReadingTypes ==
    /\ opened \in [Tasks -> Nat]
    /\ named \in [PullRequests -> Nat]
    /\ seen \in [PullRequests -> Nat]
    /\ muted \in [PullRequests -> Nat]

LEMMA StepReadings ==
  ASSUME TypeOK, NEW t \in Tasks, Step(t)
  PROVE  ReadingTypes'
  <1>1. ReadingTypes /\ head \in [PullRequests -> Nat]
    BY DEF TypeOK, ReadingTypes
  <1>2. task[t].pc # "unborn"
    BY DEF Step, Ignore, Arrive, Start, Finish
  <1>3. task[t].pr \in PullRequests
    BY <1>2, TaskShape
  <1>4. CASE Ignore(t) \/ Finish(t)
    BY <1>1, <1>4 DEF Ignore, Finish, readings, ReadingTypes
  <1>5. CASE Arrive(t)
    <2>1. opened' = [opened EXCEPT ![t] = head[task[t].pr]] /\ UNCHANGED readings
      BY <1>5 DEF Arrive
    <2> QED
      BY <1>1, <1>3, <2>1 DEF readings, ReadingTypes
  <1>6. CASE Start(t)
    <2>1. Process(t) /\ UNCHANGED opened
      BY <1>6 DEF Start
    <2> QED
      BY <1>1, <1>3, <2>1 DEF Process, readings, ReadingTypes
  <1> QED
    BY <1>4, <1>5, <1>6 DEF Step

-----------------------------------------------------------------------------
Inv == TypeOK /\ Gate /\ InUse /\ Known
NoOverrun == "overrun" \notin Faults

(* A refresh cannot be seen: what it forgets was idle.                     *)
LEMMA CountersKept ==
  ASSUME Inv, NEW k, NEW c \in Refreshed(counters, k), NEW x \in PullRequests
  PROVE  /\ DictOver(c, PullRequests)
         /\ Value(c, x, 0) = Count(x)
         /\ Active(x) # {} => x \in Keys(c) \ c.old
  <1>1. /\ DictOver(c, PullRequests)
        /\ c.old \subseteq counters.old
        /\ x \in Keys(counters) \ counters.old => x \in Keys(c)
        /\ \/ Value(c, x, 0) = Value(counters, x, 0)
           \/ x \in counters.old /\ Value(c, x, 0) = 0
    BY RefreshedValue DEF Inv, TypeOK
  <1>2. x \in counters.old => Count(x) = 0
    BY DEF Inv, InUse, Gate, GateAt, Idle, Working, Delegated, Active
  <1> QED
    BY <1>1, <1>2 DEF Inv, InUse, Count

LEMMA ConditionsKept ==
  ASSUME Inv, NEW k, NEW q \in Refreshed(conditions, k), NEW x \in PullRequests
  PROVE  /\ DictOver(q, PullRequests)
         /\ Value(q, x, <<>>) = Queue(x)
         /\ Active(x) # {} => x \in Keys(q) \ q.old
  <1>1. /\ DictOver(q, PullRequests)
        /\ q.old \subseteq conditions.old
        /\ x \in Keys(conditions) \ conditions.old => x \in Keys(q)
        /\ \/ Value(q, x, <<>>) = Value(conditions, x, <<>>)
           \/ x \in conditions.old /\ Value(q, x, <<>>) = <<>>
    BY RefreshedValue DEF Inv, TypeOK
  <1>2. x \in conditions.old => Queue(x) = <<>>
    BY DEF Inv, InUse, Gate, GateAt, Idle, Working, Delegated, Active
  <1> QED
    BY <1>1, <1>2 DEF Inv, InUse, Queue

LEMMA InvInit == Init => Inv
  BY DEF Init, Inv, TypeOK, Empty, DictOver, Keys, Count, Queue, Value, MaxActive, Task, NoTask,
         Gate, GateAt, Idle, Running, Waiting, At, InUse, Active, Known

(* A step that leaves the gate and the pull request's active tasks alone.  *)
LEMMA GateSame ==
  ASSUME Inv, UNCHANGED gate,
         \A x \in PullRequests : Running(x)' = Running(x) /\ Waiting(x)' = Waiting(x)
  PROVE  Gate' /\ InUse'
  <1>1. \A x \in PullRequests : Count(x)' = Count(x) /\ Queue(x)' = Queue(x)
    BY DEF gate, Count, Queue
  <1>2. \A x \in PullRequests : Active(x)' = Active(x)
    BY DEF Active
  <1>3. Gate'
    BY <1>1 DEF Inv, Gate, GateAt, Idle, Working, Delegated
  <1>4. InUse'
    BY <1>2 DEF Inv, InUse, gate
  <1> QED
    BY <1>3, <1>4

LEMMA InvIgnoreStart ==
  ASSUME Inv, NEW t \in Tasks, Ignore(t) \/ Start(t)
  PROVE  Inv'
  <1>1. /\ task[t].pc \in {"delivered", "ready"} /\ UNCHANGED <<gate, head>>
        /\ \E pc \in {"ignored", "processing"} :
             Goto(t, pc) /\ (pc = "processing" <=> task[t].pc = "ready")
    BY DEF Ignore, Start
  <1>2. PICK pc \in {"ignored", "processing"} :
             Goto(t, pc) /\ (pc = "processing" <=> task[t].pc = "ready")
    BY <1>1
  <1>3. pc \in PC /\ task[t].pc # "unborn"
    BY <1>1 DEF PC
  <1>4. /\ task' \in [Tasks -> Task]
        /\ task'[t].pc = pc /\ task'[t].pr = task[t].pr /\ task'[t].commit = task[t].commit
        /\ \A u \in Tasks \ {t} : task'[u] = task[u]
    BY <1>2, <1>3, GotoTask DEF Inv
  <1>5. task[t].pr \in PullRequests /\ task[t].commit \in Nat /\ task[t] # NoTask
    BY <1>3, TaskShape DEF Inv, NoTask
  <1>6. TypeOK'
    <2>1. ReadingTypes'
      BY StepReadings DEF Inv, Step
    <2> QED
      BY <1>1, <1>4, <2>1 DEF Inv, TypeOK, ReadingTypes, gate, Count, Queue
  <1>7. \A x \in PullRequests : Running(x)' = Running(x) /\ Waiting(x)' = Waiting(x)
    BY <1>1, <1>2, <1>4 DEF Running, Waiting, At
  <1>8. Known'
    <2> SUFFICES ASSUME NEW u \in Tasks, task'[u] # NoTask
                 PROVE  task'[u].commit <= head'[task'[u].pr]
      BY DEF Known
    <2> QED
      BY <1>1, <1>4, <1>5 DEF Inv, Known
  <1> QED
    BY <1>1, <1>6, <1>7, <1>8, GateSame DEF Inv

LEMMA InvPush ==
  ASSUME Inv, NEW t \in Tasks, NEW p \in PullRequests, Push(t, p)
  PROVE  Inv'
  <1>1. /\ task' \in [Tasks -> Task]
        /\ task'[t] = [pc |-> "delivered", pr |-> p, commit |-> head[p] + 1]
        /\ \A u \in Tasks \ {t} : task'[u] = task[u]
    BY PushTask DEF Inv
  <1>2. /\ task[t] = NoTask /\ head' = [head EXCEPT ![p] = @ + 1] /\ UNCHANGED <<gate, opened, readings>>
        /\ head \in [PullRequests -> Nat]
    BY DEF Push, Inv, TypeOK
  <1>3. TypeOK'
    BY <1>1, <1>2 DEF Inv, TypeOK, readings, gate, Count, Queue
  <1>4. \A x \in PullRequests : Running(x)' = Running(x) /\ Waiting(x)' = Waiting(x)
    BY <1>1, <1>2 DEF Running, Waiting, At, NoTask
  <1>5. Known'
    <2> SUFFICES ASSUME NEW u \in Tasks, task'[u] # NoTask
                 PROVE  task'[u].commit <= head'[task'[u].pr]
      BY DEF Known
    <2>1. CASE u = t
      BY <1>1, <1>2, <2>1
    <2>2. CASE u # t
      <3>1. task[u] # NoTask /\ task[u].pr \in PullRequests /\ task[u].commit \in Nat
        BY <1>1, <2>2 DEF Inv, TypeOK, Task
      <3>2. task[u].commit <= head[task[u].pr] /\ head[task[u].pr] \in Nat
        BY <1>2, <3>1 DEF Inv, Known
      <3>3. head'[task[u].pr] \in {head[task[u].pr], head[task[u].pr] + 1}
        BY <1>2, <3>1
      <3> QED
        BY <1>1, <2>2, <3>1, <3>2, <3>3
    <2> QED
      BY <2>1, <2>2
  <1> QED
    BY <1>2, <1>3, <1>4, <1>5, GateSame DEF Inv

LEMMA InvAge ==
  ASSUME Inv, NoOverrun, NEW p \in PullRequests, AgeKey(p)
  PROVE  Inv'
  <1>1. Active(p) = {} /\ UNCHANGED <<head, opened, readings, task>>
    BY DEF AgeKey, NoOverrun
  <1>2. /\ \A x \in PullRequests : Count(x)' = Count(x)
        /\ DictOver(counters, PullRequests)'
        /\ Keys(counters)' = Keys(counters) /\ counters'.old \subseteq counters.old \cup {p}
    <2>1. CASE p \in Keys(counters) \ counters.old /\ counters' = Age(counters, p)
      BY <2>1, AgeValue DEF Inv, TypeOK, Count
    <2>2. CASE UNCHANGED counters
      BY <2>2 DEF Inv, TypeOK, Count
    <2> QED
      BY <2>1, <2>2 DEF AgeKey
  <1>3. /\ \A x \in PullRequests : Queue(x)' = Queue(x)
        /\ DictOver(conditions, PullRequests)'
        /\ Keys(conditions)' = Keys(conditions) /\ conditions'.old \subseteq conditions.old \cup {p}
    <2>1. CASE p \in Keys(conditions) \ conditions.old /\ conditions' = Age(conditions, p)
      BY <2>1, AgeValue DEF Inv, TypeOK, Queue
    <2>2. CASE UNCHANGED conditions
      BY <2>2 DEF Inv, TypeOK, Queue
    <2> QED
      BY <2>1, <2>2 DEF AgeKey
  <1>4. \A x \in PullRequests : Running(x)' = Running(x) /\ Waiting(x)' = Waiting(x)
    BY <1>1 DEF Running, Waiting, At
  <1>5. TypeOK' /\ Known'
    BY <1>1, <1>2, <1>3 DEF Inv, TypeOK, readings, Known
  <1>6. Gate'
    BY <1>2, <1>3, <1>4 DEF Inv, Gate, GateAt, Idle, Working, Delegated
  <1>7. InUse'
    BY <1>1, <1>2, <1>3, <1>4 DEF Inv, InUse, Active
  <1> QED
    BY <1>5, <1>6, <1>7 DEF Inv

(* The gate after one key of both dictionaries has been written, for the   *)
(* pull request p of a task that moved.                                    *)
LEMMA GateWritten ==
  ASSUME Inv, NEW p \in PullRequests, NEW k, NEW l,
         NEW c \in Refreshed(counters, k), NEW q \in Refreshed(conditions, l),
         NEW n \in 0..MaxActive, NEW queue \in Seq(Tasks),
         counters' = Put(c, p, n), conditions' = Put(q, p, queue),
         \A x \in PullRequests \ {p} : Running(x)' = Running(x) /\ Waiting(x)' = Waiting(x)
  PROVE  /\ DictOver(counters, PullRequests)' /\ DictOver(conditions, PullRequests)'
         /\ \A x \in PullRequests :
              /\ Count(x)' = IF x = p THEN n ELSE Count(x)
              /\ Queue(x)' = IF x = p THEN queue ELSE Queue(x)
         /\ \A x \in PullRequests : Count(x)' \in 0..MaxActive /\ Queue(x)' \in Seq(Tasks)
         /\ \A x \in PullRequests \ {p} : GateAt(x)'
         /\ InUse'
  <1>1. /\ DictOver(c, PullRequests)
        /\ \A x \in PullRequests :
             Value(c, x, 0) = Count(x) /\ (Active(x) # {} => x \in Keys(c) \ c.old)
    BY CountersKept
  <1>2. /\ DictOver(q, PullRequests)
        /\ \A x \in PullRequests :
             Value(q, x, <<>>) = Queue(x) /\ (Active(x) # {} => x \in Keys(q) \ q.old)
    BY ConditionsKept
  <1>3. /\ DictOver(counters', PullRequests)
        /\ Keys(counters') = Keys(c) \cup {p} /\ counters'.old = c.old \ {p}
        /\ \A x \in PullRequests : Value(counters', x, 0) = IF x = p THEN n ELSE Count(x)
    BY <1>1 DEF Put, Keys, Value, DictOver
  <1>4. /\ DictOver(conditions', PullRequests)
        /\ Keys(conditions') = Keys(q) \cup {p} /\ conditions'.old = q.old \ {p}
        /\ \A x \in PullRequests : Value(conditions', x, <<>>) = IF x = p THEN queue ELSE Queue(x)
    BY <1>2 DEF Put, Keys, Value, DictOver
  <1>5. \A x \in PullRequests : /\ Count(x)' = IF x = p THEN n ELSE Count(x)
                                /\ Queue(x)' = IF x = p THEN queue ELSE Queue(x)
    BY <1>3, <1>4 DEF Count, Queue
  <1>6. \A x \in PullRequests : Count(x)' \in 0..MaxActive /\ Queue(x)' \in Seq(Tasks)
    BY <1>5 DEF Inv, TypeOK
  <1>7. \A x \in PullRequests \ {p} : GateAt(x)'
    BY <1>5 DEF Inv, Gate, GateAt, Idle, Working, Delegated
  <1>8. InUse'
    <2> SUFFICES ASSUME NEW x \in PullRequests, Active(x)' # {}
                 PROVE  /\ x \in Keys(counters') \ counters'.old
                        /\ x \in Keys(conditions') \ conditions'.old
      BY DEF InUse
    <2>1. CASE x = p
      BY <1>3, <1>4, <2>1
    <2>2. CASE x # p
      <3>1. Active(x) # {}
        BY <2>2 DEF Active
      <3> QED
        BY <1>1, <1>2, <1>3, <1>4, <2>2, <3>1
    <2> QED
      BY <2>1, <2>2
  <1>9. DictOver(counters, PullRequests)' /\ DictOver(conditions, PullRequests)'
    BY <1>3, <1>4 DEF DictOver, Keys
  <1> QED
    BY <1>5, <1>6, <1>7, <1>8, <1>9

LEMMA InvArrive ==
  ASSUME Inv, NEW t \in Tasks, Arrive(t)
  PROVE  Inv'
  <1>0. task[t].pc = "delivered" /\ UNCHANGED head
    BY DEF Arrive, Full, MustWait
  <1> PICK p \in PullRequests : p = task[t].pr
    BY <1>0, TaskShape DEF Inv
  <1>1. p \in PullRequests /\ p = task[t].pr /\ task[t].commit \in Nat /\ task[t] # NoTask
    BY <1>0, TaskShape DEF Inv, NoTask
  <1>2. PICK c \in BeforeSetDefault(counters), q \in BeforeGet(conditions, p) :
          LET active == Value(c, p, 0)
              queue  == Value(q, p, <<>>)
          IN  \/ /\ active >= MaxActive
                 /\ Goto(t, "discarded")
                 /\ counters' = Put(c, p, active)
                 /\ UNCHANGED conditions
              \/ /\ ~(active >= MaxActive)
                 /\ active = 1
                 /\ Goto(t, "waiting")
                 /\ counters' = Put(c, p, active + 1)
                 /\ conditions' = Put(q, p, Append(queue, t))
              \/ /\ ~(active >= MaxActive)
                 /\ active # 1
                 /\ Goto(t, "ready")
                 /\ counters' = Put(c, p, active + 1)
                 /\ conditions' = Put(q, p, queue)
    BY DEF Arrive, Full, MustWait
  <1>3. /\ Value(c, p, 0) = Count(p) /\ DictOver(c, PullRequests)
        /\ \A x \in PullRequests :
             Value(c, x, 0) = Count(x) /\ (Active(x) # {} => x \in Keys(c) \ c.old)
    BY <1>1, CountersKept DEF BeforeSetDefault
  <1>4. Value(q, p, <<>>) = Queue(p)
    BY <1>1, ConditionsKept DEF BeforeGet
  <1>5. /\ c \in Refreshed(counters, {}) /\ q \in Refreshed(conditions, {p})
    BY DEF BeforeSetDefault, BeforeGet
  <1>6. PICK pc \in {"discarded", "waiting", "ready"} : Goto(t, pc)
    BY <1>2
  <1>7. /\ task' \in [Tasks -> Task]
        /\ task'[t].pc = pc /\ task'[t].pr = p /\ task'[t].commit = task[t].commit
        /\ \A u \in Tasks \ {t} : task'[u] = task[u]
    BY <1>0, <1>6, GotoTask DEF Inv, PC
  <1>8. /\ t \notin Running(p) /\ t \notin Waiting(p)
        /\ \A x \in PullRequests :
             /\ Running(x)' = IF x = p /\ pc = "ready" THEN Running(x) \cup {t} ELSE Running(x)
             /\ Waiting(x)' = IF x = p /\ pc = "waiting" THEN Waiting(x) \cup {t} ELSE Waiting(x)
    BY <1>0, <1>7 DEF Running, Waiting, At
  <1>9. GateAt(p) /\ Count(p) \in 0..MaxActive /\ Queue(p) \in Seq(Tasks) /\ MaxActive \in {1, 2}
    BY <1>1 DEF Inv, Gate, TypeOK, MaxActive
  <1>10. ReadingTypes'
    BY StepReadings DEF Inv, Step
  <1>11. Known'
    <2> SUFFICES ASSUME NEW u \in Tasks, task'[u] # NoTask
                 PROVE  task'[u].commit <= head'[task'[u].pr]
      BY DEF Known
    <2> QED
      BY <1>0, <1>1, <1>7 DEF Inv, Known
  <1>12. \A x \in PullRequests \ {p} : Running(x)' = Running(x) /\ Waiting(x)' = Waiting(x)
    BY <1>8
  <1>13. CASE /\ Count(p) >= MaxActive /\ Goto(t, "discarded")
              /\ counters' = Put(c, p, Count(p)) /\ UNCHANGED conditions
    <2>1. pc = "discarded"
      BY <1>7, <1>13, <1>0, GotoTask DEF Inv, PC
    <2>2. \A x \in PullRequests : Running(x)' = Running(x) /\ Waiting(x)' = Waiting(x)
      BY <1>8, <2>1
    <2>3. /\ DictOver(counters', PullRequests)
          /\ Keys(counters') = Keys(c) \cup {p} /\ counters'.old = c.old \ {p}
          /\ \A x \in PullRequests : Value(counters', x, 0) = IF x = p THEN Count(p) ELSE Value(c, x, 0)
      BY <1>1, <1>3, <1>13 DEF Put, Keys, Value, DictOver
    <2>4. \A x \in PullRequests : Count(x)' = Count(x) /\ Queue(x)' = Queue(x)
      BY <1>3, <1>13, <2>3 DEF Count, Queue
    <2>5. TypeOK'
      BY <1>0, <1>7, <1>10, <1>13, <2>3, <2>4 DEF Inv, TypeOK, ReadingTypes, DictOver, Keys
    <2>6. Gate'
      BY <2>2, <2>4 DEF Inv, Gate, GateAt, Idle, Working, Delegated
    <2>7. InUse'
      BY <1>3, <1>13, <2>2, <2>3 DEF Inv, InUse, Active
    <2> QED
      BY <1>11, <2>5, <2>6, <2>7 DEF Inv
  <1>14. CASE /\ Count(p) < MaxActive /\ Count(p) = 1 /\ Goto(t, "waiting")
              /\ counters' = Put(c, p, Count(p) + 1)
              /\ conditions' = Put(q, p, Append(Queue(p), t))
    <2>1. pc = "waiting"
      BY <1>7, <1>14, <1>0, GotoTask DEF Inv, PC
    <2>2. Count(p) + 1 \in 0..MaxActive /\ Append(Queue(p), t) \in Seq(Tasks)
      BY <1>9, <1>14
    <2>3. /\ DictOver(counters, PullRequests)' /\ DictOver(conditions, PullRequests)'
          /\ \A x \in PullRequests :
               /\ Count(x)' = IF x = p THEN Count(p) + 1 ELSE Count(x)
               /\ Queue(x)' = IF x = p THEN Append(Queue(p), t) ELSE Queue(x)
          /\ \A x \in PullRequests : Count(x)' \in 0..MaxActive /\ Queue(x)' \in Seq(Tasks)
          /\ \A x \in PullRequests \ {p} : GateAt(x)'
          /\ InUse'
      BY <1>1, <1>5, <1>12, <1>14, <2>2, GateWritten
    <2>4. PICK w \in Tasks : Working(p, w)
      BY <1>9, <1>14 DEF GateAt, Idle, Delegated
    <2>5. Delegated(p, w, t)'
      BY <1>1, <1>8, <1>14, <2>1, <2>3, <2>4 DEF Working, Delegated
    <2>6. Gate'
      BY <1>1, <2>3, <2>5 DEF Gate, GateAt
    <2> QED
      BY <1>0, <1>7, <1>10, <1>11, <2>3, <2>6 DEF Inv, TypeOK, ReadingTypes
  <1>15. CASE /\ Count(p) < MaxActive /\ Count(p) # 1 /\ Goto(t, "ready")
              /\ counters' = Put(c, p, Count(p) + 1) /\ conditions' = Put(q, p, Queue(p))
    <2>1. pc = "ready"
      BY <1>7, <1>15, <1>0, GotoTask DEF Inv, PC
    <2>2. Count(p) + 1 \in 0..MaxActive
      BY <1>9, <1>15
    <2>3. /\ DictOver(counters, PullRequests)' /\ DictOver(conditions, PullRequests)'
          /\ \A x \in PullRequests :
               /\ Count(x)' = IF x = p THEN Count(p) + 1 ELSE Count(x)
               /\ Queue(x)' = IF x = p THEN Queue(p) ELSE Queue(x)
          /\ \A x \in PullRequests : Count(x)' \in 0..MaxActive /\ Queue(x)' \in Seq(Tasks)
          /\ \A x \in PullRequests \ {p} : GateAt(x)'
          /\ InUse'
      BY <1>1, <1>5, <1>9, <1>12, <1>15, <2>2, GateWritten
    <2>4. Idle(p)
      BY <1>9, <1>15 DEF GateAt, Working, Delegated
    <2>5. Working(p, t)'
      BY <1>1, <1>8, <2>1, <2>3, <2>4 DEF Idle, Working
    <2>6. Gate'
      BY <1>1, <2>3, <2>5 DEF Gate, GateAt
    <2> QED
      BY <1>0, <1>7, <1>10, <1>11, <2>3, <2>6 DEF Inv, TypeOK, ReadingTypes
  <1>16. ~(Count(p) >= MaxActive) => Count(p) < MaxActive
    BY <1>9
  <1> QED
    BY <1>2, <1>3, <1>4, <1>13, <1>14, <1>15, <1>16

LEMMA InvFinish ==
  ASSUME Inv, NEW t \in Tasks, Finish(t)
  PROVE  Inv'
  <1>0. task[t].pc = "processing" /\ UNCHANGED <<head, opened, readings>>
    BY DEF Finish
  <1> PICK p \in PullRequests : p = task[t].pr
    BY <1>0, TaskShape DEF Inv
  <1>1. PICK c \in BeforeGet(counters, p), q \in BeforeGet(conditions, p) :
          LET active == Value(c, p, 0)
              queue  == Value(q, p, <<>>)
          IN  /\ counters' = Put(c, p, IF active = 0 THEN 0 ELSE active - 1)
              /\ IF queue = <<>>
                 THEN conditions' = Put(q, p, queue) /\ Goto(t, "done")
                 ELSE /\ conditions' = Put(q, p, Tail(queue))
                      /\ task' = [task EXCEPT ![t].pc = "done", ![Head(queue)].pc = "ready"]
    BY DEF Finish
  <1>2. Value(c, p, 0) = Count(p) /\ Value(q, p, <<>>) = Queue(p)
    BY CountersKept, ConditionsKept DEF BeforeGet
  <1>3. /\ c \in Refreshed(counters, {p}) /\ q \in Refreshed(conditions, {p})
    BY DEF BeforeGet
  <1>4. t \in Running(p) /\ GateAt(p) /\ MaxActive \in {1, 2} /\ Count(p) \in 0..MaxActive
    BY <1>0 DEF Running, At, Inv, Gate, TypeOK, MaxActive
  <1>5. CASE Working(p, t)
    <2>1. /\ Count(p) = 1 /\ Queue(p) = <<>> /\ Running(p) = {t} /\ Waiting(p) = {}
      BY <1>5 DEF Working
    <2>2. counters' = Put(c, p, 0) /\ conditions' = Put(q, p, <<>>) /\ Goto(t, "done")
      BY <1>1, <1>2, <2>1
    <2>3. /\ task' \in [Tasks -> Task]
          /\ task'[t].pc = "done" /\ task'[t].pr = p /\ task'[t].commit = task[t].commit
          /\ \A u \in Tasks \ {t} : task'[u] = task[u]
      BY <1>0, <2>2, GotoTask DEF Inv, PC
    <2>4. \A x \in PullRequests \ {p} : Running(x)' = Running(x) /\ Waiting(x)' = Waiting(x)
      BY <1>0, <2>3 DEF Running, Waiting, At
    <2>5. Running(p)' = {} /\ Waiting(p)' = {}
      BY <1>0, <2>1, <2>3 DEF Running, Waiting, At
    <2>6. PICK n \in 0..MaxActive, none \in Seq(Tasks) : n = 0 /\ none = <<>>
      <3>1. 0 \in 0..MaxActive
        BY <1>4
      <3>2. <<>> \in Seq(Tasks)
        OBVIOUS
      <3> QED
        BY <3>1, <3>2, Zenon
    <2>7. /\ DictOver(counters, PullRequests)' /\ DictOver(conditions, PullRequests)'
          /\ \A x \in PullRequests :
               /\ Count(x)' = IF x = p THEN n ELSE Count(x)
               /\ Queue(x)' = IF x = p THEN none ELSE Queue(x)
          /\ \A x \in PullRequests : Count(x)' \in 0..MaxActive /\ Queue(x)' \in Seq(Tasks)
          /\ \A x \in PullRequests \ {p} : GateAt(x)'
          /\ InUse'
      <3>1. counters' = Put(c, p, n) /\ conditions' = Put(q, p, none)
        BY <2>2, <2>6
      <3> QED
        BY <1>3, <2>4, <3>1, GateWritten
    <2>8. Gate'
      BY <2>5, <2>6, <2>7 DEF Gate, GateAt, Idle
    <2>9. Known'
      BY <1>0, <2>3 DEF Inv, Known, NoTask
    <2> QED
      BY <1>0, <2>3, <2>7, <2>8, <2>9 DEF Inv, TypeOK, readings
  <1>6. ASSUME NEW u \in Tasks, Delegated(p, t, u)
        PROVE  Inv'
    <2>1. /\ Count(p) = 2 /\ Queue(p) = <<u>> /\ Running(p) = {t} /\ Waiting(p) = {u}
      BY <1>6 DEF Delegated
    <2>2. /\ counters' = Put(c, p, 1) /\ conditions' = Put(q, p, <<>>)
          /\ task' = [task EXCEPT ![t].pc = "done", ![u].pc = "ready"]
      <3>1. <<u>> # <<>> /\ Tail(<<u>>) = <<>> /\ Head(<<u>>) = u
        OBVIOUS
      <3>2. (IF Count(p) = 0 THEN 0 ELSE Count(p) - 1) = 1
        BY <2>1
      <3>3. /\ conditions' = Put(q, p, Tail(Queue(p)))
            /\ task' = [task EXCEPT ![t].pc = "done", ![Head(Queue(p))].pc = "ready"]
        BY <1>1, <1>2, <2>1, <3>1
      <3>4. counters' = Put(c, p, 1)
        BY <1>1, <1>2, <3>2
      <3> QED
        BY <2>1, <3>1, <3>3, <3>4
    <2>3. task[u].pc = "waiting" /\ task[u].pr = p
      BY <2>1 DEF Waiting, At
    <2>4. /\ task' \in [Tasks -> Task]
          /\ task'[t].pc = "done" /\ task'[t].pr = p /\ task'[t].commit = task[t].commit
          /\ task'[u].pc = "ready" /\ task'[u].pr = p /\ task'[u].commit = task[u].commit
          /\ \A v \in Tasks \ {t, u} : task'[v] = task[v]
      BY <1>0, <2>2, <2>3, WakeTask DEF Inv
    <2>5. \A x \in PullRequests \ {p} : Running(x)' = Running(x) /\ Waiting(x)' = Waiting(x)
      BY <1>0, <2>3, <2>4 DEF Running, Waiting, At
    <2>6. Running(p)' = {u} /\ Waiting(p)' = {}
      BY <1>0, <2>1, <2>3, <2>4 DEF Running, Waiting, At
    <2>7. PICK n \in 0..MaxActive, none \in Seq(Tasks) : n = 1 /\ none = <<>>
      <3>1. 1 \in 0..MaxActive
        BY <1>4
      <3>2. <<>> \in Seq(Tasks)
        OBVIOUS
      <3> QED
        BY <3>1, <3>2, Zenon
    <2>8. /\ DictOver(counters, PullRequests)' /\ DictOver(conditions, PullRequests)'
          /\ \A x \in PullRequests :
               /\ Count(x)' = IF x = p THEN n ELSE Count(x)
               /\ Queue(x)' = IF x = p THEN none ELSE Queue(x)
          /\ \A x \in PullRequests : Count(x)' \in 0..MaxActive /\ Queue(x)' \in Seq(Tasks)
          /\ \A x \in PullRequests \ {p} : GateAt(x)'
          /\ InUse'
      <3>1. counters' = Put(c, p, n) /\ conditions' = Put(q, p, none)
        BY <2>2, <2>7
      <3> QED
        BY <1>3, <2>5, <3>1, GateWritten
    <2>9. Gate'
      BY <2>6, <2>7, <2>8 DEF Gate, GateAt, Working
    <2>10. Known'
      <3> SUFFICES ASSUME NEW v \in Tasks, task'[v] # NoTask
                   PROVE  task'[v].commit <= head'[task'[v].pr]
        BY DEF Known
      <3> QED
        BY <1>0, <2>3, <2>4 DEF Inv, Known, NoTask
    <2> QED
      BY <1>0, <2>4, <2>8, <2>9, <2>10 DEF Inv, TypeOK, readings
  <1> QED
    BY <1>4, <1>5, <1>6 DEF GateAt, Idle, Working, Delegated

LEMMA InvNext == NoOverrun /\ Inv /\ [Next]_vars => Inv'
  <1> SUFFICES ASSUME NoOverrun, Inv, [Next]_vars PROVE Inv'
    OBVIOUS
  <1>1. CASE UNCHANGED vars
    <2>1. TypeOK' /\ Known'
      BY <1>1 DEF vars, gate, readings, Inv, TypeOK, Known, Count, Queue
    <2>2. \A x \in PullRequests : Running(x)' = Running(x) /\ Waiting(x)' = Waiting(x)
      BY <1>1 DEF vars, Running, Waiting, At
    <2> QED
      BY <1>1, <2>1, <2>2, GateSame DEF vars, gate, Inv
  <1> QED
    BY <1>1, InvIgnoreStart, InvArrive, InvFinish, InvPush, InvAge DEF Next, Step, Quiescent

(***************************************************************************)
(* As long as no processing outlives the TTL, one task works on a pull     *)
(* request, one waits behind it, and nobody waits for a task that is gone. *)
(***************************************************************************)
THEOREM GateStaysTight ==
  ASSUME NoOverrun
  PROVE  Spec => []GateIsTight
  <1>1. Inv => GateIsTight
    BY DEF Inv, Gate, GateAt, Idle, Working, Delegated, GateIsTight, OneWorks, OneWaits,
           NobodyWaitsForNothing
  <1> QED
    BY InvInit, InvNext, <1>1, PTL DEF Spec

(* Every delegate stands in the queue the dictionary still holds, and the  *)
(* task whose end wakes the head of that queue is on its way.              *)
DelegatesAreQueued ==
    \A p \in PullRequests : \A u \in Waiting(p) :
        /\ p \in Keys(conditions) \ conditions.old /\ Queue(p) = <<u>>
        /\ \E t \in Running(p) : t # u

(***************************************************************************)
(* As long as no processing outlives the TTL, a delegate is never left out *)
(* of the queue that is notified, nor is the one to notify it gone.  This  *)
(* is the safety half of DelegateProceeds.                                 *)
(***************************************************************************)
THEOREM DelegatesWillBeWoken ==
  ASSUME NoOverrun
  PROVE  Spec => []DelegatesAreQueued
  <1>1. Inv => DelegatesAreQueued
    <2> SUFFICES ASSUME Inv, NEW p \in PullRequests, NEW u \in Waiting(p)
                 PROVE  /\ p \in Keys(conditions) \ conditions.old /\ Queue(p) = <<u>>
                        /\ \E t \in Running(p) : t # u
      BY DEF DelegatesAreQueued
    <2>1. PICK t, w \in Tasks : Delegated(p, t, w)
      BY DEF Inv, Gate, GateAt, Idle, Working
    <2>2. w = u /\ Queue(p) = <<u>> /\ t \in Running(p)
      BY <2>1 DEF Delegated
    <2>3. t # u
      BY <2>2 DEF Running, Waiting, At
    <2>4. p \in Keys(conditions) \ conditions.old
      BY DEF Inv, InUse, Active
    <2> QED
      BY <2>2, <2>3, <2>4
  <1> QED
    BY InvInit, InvNext, <1>1, PTL DEF Spec

-----------------------------------------------------------------------------
(***************************************************************************)
(* Whatever expires.  A key that is forgotten while tasks are active makes *)
(* the gate too wide, but a queue still lists only tasks that wait, each   *)
(* once, and a full count still stands for a delegate: the count is at two *)
(* only from a task's coming to wait until the next task ends.             *)
(***************************************************************************)
Lists(s, S) ==
    /\ s \in Seq(Tasks)
    /\ \A i \in 1..Len(s) : s[i] \in S
    /\ \A i, j \in 1..Len(s) : s[i] = s[j] => i = j

Loose ==
    /\ TypeOK
    /\ Known
    /\ \A p \in PullRequests : Lists(Queue(p), Waiting(p))
    /\ \A p \in PullRequests : Count(p) >= 2 => Waiting(p) # {}

LEMMA ListsNobody == \A S : Lists(<<>>, S)
  BY DEF Lists

LEMMA ListsOneMore ==
  ASSUME NEW S, NEW s, Lists(s, S), NEW t \in Tasks, t \notin S
  PROVE  Lists(Append(s, t), S \cup {t})
  <1>1. s \in Seq(Tasks) /\ \A i \in 1..Len(s) : s[i] \in S /\ s[i] # t
    BY DEF Lists
  <1>2. /\ Append(s, t) \in Seq(Tasks) /\ Len(Append(s, t)) = Len(s) + 1 /\ Len(s) \in Nat
        /\ \A i \in 1..Len(s) : Append(s, t)[i] = s[i]
        /\ Append(s, t)[Len(s) + 1] = t
    BY <1>1
  <1>3. \A i \in 1..Len(s) + 1 : i \in 1..Len(s) \/ i = Len(s) + 1
    BY <1>2
  <1> QED
    BY <1>1, <1>2, <1>3 DEF Lists

LEMMA ListsOneLess ==
  ASSUME NEW S, NEW s, Lists(s, S), s # <<>>
  PROVE  Head(s) \in S /\ Head(s) \in Tasks /\ Lists(Tail(s), S \ {Head(s)})
  <1>1. /\ s \in Seq(Tasks) /\ Len(s) \in Nat \ {0} /\ Head(s) = s[1]
        /\ Tail(s) \in Seq(Tasks) /\ Len(Tail(s)) = Len(s) - 1
        /\ \A i \in 1..Len(s) - 1 : Tail(s)[i] = s[i + 1]
    BY DEF Lists
  <1>2. \A i \in 1..Len(s) - 1 : i + 1 \in 1..Len(s) /\ i + 1 # 1
    BY <1>1
  <1>3. 1 \in 1..Len(s)
    BY <1>1
  <1>4. \A i \in 1..Len(s) - 1 : Tail(s)[i] \in S \ {Head(s)}
    BY <1>1, <1>2, <1>3 DEF Lists
  <1>5. \A i, j \in 1..Len(s) - 1 : Tail(s)[i] = Tail(s)[j] => i = j
    <2> SUFFICES ASSUME NEW i \in 1..Len(s) - 1, NEW j \in 1..Len(s) - 1, Tail(s)[i] = Tail(s)[j]
                 PROVE  i = j
      OBVIOUS
    <2>1. s[i + 1] = s[j + 1]
      BY <1>1
    <2>2. i + 1 = j + 1
      BY <1>2, <2>1 DEF Lists
    <2> QED
      BY <1>1, <2>2
  <1>6. Head(s) \in S /\ Head(s) \in Tasks
    BY <1>1, <1>3 DEF Lists
  <1> QED
    BY <1>1, <1>4, <1>5, <1>6 DEF Lists

(* What the dictionary's Put does to the items of a key.                   *)
LEMMA PutValue ==
  ASSUME NEW d, NEW K, DictOver(d, K), NEW k \in K, NEW v, NEW default
  PROVE  /\ DictOver(Put(d, k, v), K)
         /\ \A x : Value(Put(d, k, v), x, default) = IF x = k THEN v ELSE Value(d, x, default)
  BY DEF Put, Keys, Value, DictOver

(* Both dictionaries after an access has refreshed them and written p.     *)
LEMMA CountersWritten ==
  ASSUME TypeOK, NEW p \in PullRequests, NEW k, NEW c \in Refreshed(counters, k), NEW n,
         counters' = Put(c, p, n)
  PROVE  /\ DictOver(counters, PullRequests)'
         /\ Value(c, p, 0) \in {Count(p), 0}
         /\ Count(p)' = n
         /\ \A x \in PullRequests \ {p} : Count(x)' \in {Count(x), 0}
  <1>1. \A x : /\ DictOver(c, PullRequests)
               /\ Value(c, x, 0) \in {Value(counters, x, 0), 0}
    BY RefreshedValue DEF TypeOK
  <1>2. /\ DictOver(counters', PullRequests)
        /\ \A x : Value(counters', x, 0) = IF x = p THEN n ELSE Value(c, x, 0)
    BY <1>1, PutValue
  <1>3. DictOver(counters, PullRequests)'
    BY <1>2 DEF DictOver, Keys
  <1> QED
    BY <1>1, <1>2, <1>3 DEF Count

LEMMA ConditionsWritten ==
  ASSUME TypeOK, NEW p \in PullRequests, NEW k, NEW q \in Refreshed(conditions, k), NEW queue,
         conditions' = Put(q, p, queue)
  PROVE  /\ DictOver(conditions, PullRequests)'
         /\ Value(q, p, <<>>) \in {Queue(p), <<>>}
         /\ Queue(p)' = queue
         /\ \A x \in PullRequests \ {p} : Queue(x)' \in {Queue(x), <<>>}
  <1>1. \A x : /\ DictOver(q, PullRequests)
               /\ Value(q, x, <<>>) \in {Value(conditions, x, <<>>), <<>>}
    BY RefreshedValue DEF TypeOK
  <1>2. /\ DictOver(conditions', PullRequests)
        /\ \A x : Value(conditions', x, <<>>) = IF x = p THEN queue ELSE Value(q, x, <<>>)
    BY <1>1, PutValue
  <1>3. DictOver(conditions, PullRequests)'
    BY <1>2 DEF DictOver, Keys
  <1> QED
    BY <1>1, <1>2, <1>3 DEF Queue

(* A step moves its own task, and Finish also the delegate it wakes.       *)
Woken(u) == task[u].pc = "waiting" /\ task'[u].pc = "ready"

LEMMA StepTasks ==
  ASSUME Loose, NEW s \in Tasks, Step(s)
  PROVE  /\ task' \in [Tasks -> Task] /\ head' = head
         /\ task[s].pc \in {"delivered", "ready", "processing"}
         /\ task[s] # NoTask /\ task[s].pr \in PullRequests
         /\ \A u \in Tasks : task'[u].pr = task[u].pr /\ task'[u].commit = task[u].commit
         /\ \A u \in Tasks \ {s} : task'[u] = task[u] \/ Woken(u)
         /\ \/ Ignore(s) /\ task[s].pc = "delivered" /\ task'[s].pc = "ignored"
            \/ Arrive(s) /\ task[s].pc = "delivered"
                         /\ task'[s].pc \in {"discarded", "waiting", "ready"}
            \/ Start(s) /\ task[s].pc = "ready" /\ task'[s].pc = "processing"
            \/ Finish(s) /\ task[s].pc = "processing" /\ task'[s].pc = "done"
  <1>1. CASE Ignore(s) \/ Arrive(s) \/ Start(s)
    <2>1. /\ head' = head
          /\ \/ Ignore(s) /\ task[s].pc = "delivered" /\ Goto(s, "ignored")
             \/ Arrive(s) /\ task[s].pc = "delivered"
                          /\ \E pc \in {"discarded", "waiting", "ready"} : Goto(s, pc)
             \/ Start(s) /\ task[s].pc = "ready" /\ Goto(s, "processing")
      BY <1>1 DEF Ignore, Arrive, Start
    <2> QED
      BY <2>1, GotoTask, TaskShape DEF Loose, NoTask, PC
  <1>2. CASE Finish(s)
    <2>1. task[s].pc = "processing" /\ head' = head
      BY <1>2 DEF Finish
    <2> PICK p \in PullRequests : p = task[s].pr
      BY <2>1, TaskShape DEF Loose
    <2>2. PICK q \in BeforeGet(conditions, p) :
            LET queue == Value(q, p, <<>>)
            IN  IF queue = <<>>
                THEN Goto(s, "done")
                ELSE task' = [task EXCEPT ![s].pc = "done", ![Head(queue)].pc = "ready"]
      BY <1>2 DEF Finish
    <2>3. Value(q, p, <<>>) \in {Queue(p), <<>>}
      BY RefreshedValue DEF BeforeGet, Loose, TypeOK, Queue
    <2>4. CASE Goto(s, "done")
      BY <1>2, <2>1, <2>4, GotoTask, TaskShape DEF Loose, PC, NoTask
    <2>5. CASE ~Goto(s, "done")
      <3>1. /\ Queue(p) # <<>>
            /\ task' = [task EXCEPT ![s].pc = "done", ![Head(Queue(p))].pc = "ready"]
        BY <2>2, <2>3, <2>5
      <3> PICK u \in Tasks : u = Head(Queue(p)) /\ u \in Waiting(p)
        BY <3>1, ListsOneLess DEF Loose
      <3>2. task[u].pc = "waiting" /\ u # s
        BY <2>1 DEF Waiting, At
      <3>3. /\ task' \in [Tasks -> Task]
            /\ task'[s].pr = task[s].pr /\ task'[s].commit = task[s].commit
            /\ task'[s].pc = "done"
            /\ task'[u].pc = "ready" /\ task'[u].pr = task[u].pr /\ task'[u].commit = task[u].commit
            /\ \A v \in Tasks \ {s, u} : task'[v] = task[v]
        BY <2>1, <3>1, <3>2, WakeTask DEF Loose
      <3> QED
        BY <1>2, <2>1, <3>2, <3>3, TaskShape DEF Loose, NoTask, Woken
    <2> QED
      BY <2>4, <2>5
  <1> QED
    BY <1>1, <1>2 DEF Step

LEMMA LooseInit == Init => Loose
  <1>1. Init => TypeOK /\ Known
    BY InvInit DEF Inv
  <1>2. Init => \A p \in PullRequests : Count(p) = 0 /\ Queue(p) = <<>>
    BY DEF Init, Count, Queue, Value, Empty, Keys
  <1> QED
    BY <1>1, <1>2, ListsNobody DEF Loose

(* A step that leaves the gate and who waits alone.                        *)
LEMMA LooseSame ==
  ASSUME Loose, TypeOK', Known',
         \A x \in PullRequests : /\ Waiting(x)' = Waiting(x)
                                 /\ Count(x)' \in {Count(x), 0}
                                 /\ Queue(x)' \in {Queue(x), <<>>}
  PROVE  Loose'
  <1>1. ASSUME NEW x \in PullRequests PROVE Lists(Queue(x), Waiting(x))'
    <2>1. Lists(Queue(x)', Waiting(x)')
      BY ListsNobody DEF Loose
    <2> QED
      BY <2>1 DEF Lists
  <1>2. \A x \in PullRequests : Count(x)' >= 2 => Waiting(x)' # {}
    BY DEF Loose
  <1> QED
    BY <1>1, <1>2 DEF Loose

LEMMA StepKnown ==
  ASSUME Loose, NEW s \in Tasks, Step(s)
  PROVE  Known' /\ head' \in [PullRequests -> Nat] /\ ReadingTypes'
  <1>1. /\ task[s].pr \in PullRequests /\ task[s] # NoTask /\ head' = head
        /\ \A u \in Tasks : task'[u].pr = task[u].pr /\ task'[u].commit = task[u].commit
        /\ \A u \in Tasks \ {s} : task'[u] = task[u] \/ Woken(u)
    BY StepTasks
  <1>2. Known'
    <2> SUFFICES ASSUME NEW u \in Tasks, task'[u] # NoTask
                 PROVE  task'[u].commit <= head'[task'[u].pr]
      BY DEF Known
    <2>1. task[u] # NoTask
      BY <1>1 DEF Woken, NoTask
    <2> QED
      BY <1>1, <2>1 DEF Loose, Known
  <1>3. ReadingTypes'
    BY StepReadings DEF Loose
  <1> QED
    BY <1>1, <1>2, <1>3 DEF Loose, TypeOK

LEMMA LooseIgnoreStart ==
  ASSUME Loose, NEW t \in Tasks, Ignore(t) \/ Start(t)
  PROVE  Loose'
  <1>1. Step(t) /\ UNCHANGED gate
    BY DEF Step, Ignore, Start
  <1>2. \E pc \in {"ignored", "processing"} : Goto(t, pc)
    BY DEF Ignore, Start
  <1>3. task[t].pc \in {"delivered", "ready"}
    BY DEF Ignore, Start
  <1>4. /\ task'[t].pc \in {"ignored", "processing"} /\ task'[t].pr = task[t].pr
        /\ \A u \in Tasks \ {t} : task'[u] = task[u]
    BY <1>2, <1>3, GotoTask DEF Loose, PC
  <1>5. \A x \in PullRequests :
          Waiting(x)' = Waiting(x) /\ Count(x)' = Count(x) /\ Queue(x)' = Queue(x)
    BY <1>1, <1>3, <1>4 DEF Waiting, At, gate, Count, Queue
  <1>6. TypeOK'
    BY <1>1, <1>5, StepTasks, StepKnown DEF Loose, TypeOK, ReadingTypes, gate
  <1> QED
    BY <1>1, <1>5, <1>6, StepKnown, LooseSame

LEMMA LooseArrive ==
  ASSUME Loose, NEW t \in Tasks, Arrive(t)
  PROVE  Loose'
  <1>0. Step(t) /\ task[t].pc = "delivered"
    BY DEF Step, Arrive
  <1> PICK p \in PullRequests : p = task[t].pr
    BY <1>0, StepTasks
  <1>1. PICK c \in BeforeSetDefault(counters), q \in BeforeGet(conditions, p) :
          LET active == Value(c, p, 0)
              queue  == Value(q, p, <<>>)
          IN  \/ /\ Goto(t, "discarded")
                 /\ counters' = Put(c, p, active)
                 /\ UNCHANGED conditions
              \/ /\ ~(active >= MaxActive)
                 /\ Goto(t, "waiting")
                 /\ counters' = Put(c, p, active + 1)
                 /\ conditions' = Put(q, p, Append(queue, t))
              \/ /\ ~(active >= MaxActive)
                 /\ active # 1
                 /\ Goto(t, "ready")
                 /\ counters' = Put(c, p, active + 1)
                 /\ conditions' = Put(q, p, queue)
    BY DEF Arrive, Full, MustWait
  <1>2. /\ c \in Refreshed(counters, {}) /\ q \in Refreshed(conditions, {p})
        /\ Value(c, p, 0) \in {Count(p), 0} /\ Value(q, p, <<>>) \in {Queue(p), <<>>}
    BY RefreshedValue DEF BeforeSetDefault, BeforeGet, Loose, TypeOK, Count, Queue
  <1>3. /\ MaxActive \in {1, 2} /\ \A x \in PullRequests : Count(x) \in 0..MaxActive
        /\ Value(c, p, 0) \in 0..MaxActive
    BY <1>2 DEF Loose, TypeOK, MaxActive
  <1>4. Lists(Value(q, p, <<>>), Waiting(p)) /\ t \notin Waiting(p)
    BY <1>0, <1>2, ListsNobody DEF Loose, Waiting, At
  <1>5. TypeOK /\ Known' /\ head' \in [PullRequests -> Nat] /\ ReadingTypes'
        /\ task' \in [Tasks -> Task]
    BY <1>0, StepKnown, StepTasks DEF Loose
  <1>6. CASE /\ Goto(t, "discarded")
             /\ counters' = Put(c, p, Value(c, p, 0))
             /\ UNCHANGED conditions
    <2>1. /\ task'[t].pc = "discarded" /\ task'[t].pr = p
          /\ \A u \in Tasks \ {t} : task'[u] = task[u]
      BY <1>0, <1>6, GotoTask DEF Loose, PC
    <2>2. \A x \in PullRequests : Waiting(x)' = Waiting(x) /\ Queue(x)' = Queue(x)
      BY <1>0, <1>6, <2>1 DEF Waiting, At, Queue
    <2>3. /\ DictOver(counters, PullRequests)'
          /\ \A x \in PullRequests : Count(x)' \in {Count(x), 0}
      BY <1>2, <1>5, <1>6, CountersWritten
    <2>4. TypeOK'
      <3>1. \A x \in PullRequests : Count(x)' \in 0..MaxActive /\ Queue(x)' \in Seq(Tasks)
        <4>1. \A x \in PullRequests : Queue(x) \in Seq(Tasks)
          BY <1>5 DEF TypeOK
        <4>2. \A x \in PullRequests : Count(x)' \in 0..MaxActive
          BY <1>3, <2>3
        <4> QED
          BY <2>2, <4>1, <4>2
      <3>2. DictOver(conditions, PullRequests)'
        BY <1>5, <1>6 DEF TypeOK, DictOver, Keys
      <3> QED
        BY <1>5, <2>3, <3>1, <3>2 DEF TypeOK, ReadingTypes
    <2> QED
      BY <1>5, <2>2, <2>3, <2>4, LooseSame
  <1>7. CASE /\ Goto(t, "waiting")
             /\ ~(Value(c, p, 0) >= MaxActive)
             /\ counters' = Put(c, p, Value(c, p, 0) + 1)
             /\ conditions' = Put(q, p, Append(Value(q, p, <<>>), t))
    <2>1. /\ task'[t].pc = "waiting" /\ task'[t].pr = p
          /\ \A u \in Tasks \ {t} : task'[u] = task[u]
      BY <1>0, <1>7, GotoTask DEF Loose, PC
    <2>2. /\ Waiting(p)' = Waiting(p) \cup {t}
          /\ \A x \in PullRequests \ {p} : Waiting(x)' = Waiting(x)
      BY <1>0, <2>1 DEF Waiting, At
    <2>3. /\ DictOver(counters, PullRequests)'
          /\ Count(p)' = Value(c, p, 0) + 1
          /\ \A x \in PullRequests \ {p} : Count(x)' \in {Count(x), 0}
      BY <1>2, <1>5, <1>7, CountersWritten
    <2>4. /\ DictOver(conditions, PullRequests)'
          /\ Queue(p)' = Append(Value(q, p, <<>>), t)
          /\ \A x \in PullRequests \ {p} : Queue(x)' \in {Queue(x), <<>>}
      BY <1>2, <1>5, <1>7, ConditionsWritten
    <2>5. Lists(Append(Value(q, p, <<>>), t), Waiting(p) \cup {t})
      BY <1>4, ListsOneMore
    <2>6. \A x \in PullRequests \ {p} : Lists(Queue(x)', Waiting(x)')
      BY <2>2, <2>4, ListsNobody DEF Loose
    <2>7. \A x \in PullRequests : Lists(Queue(x)', Waiting(x)')
      BY <2>2, <2>4, <2>5, <2>6
    <2>8. \A x \in PullRequests : Count(x)' >= 2 => Waiting(x)' # {}
      BY <2>2, <2>3 DEF Loose
    <2>9. TypeOK'
      <3>1. \A x \in PullRequests : Queue(x)' \in Seq(Tasks)
        BY <2>7 DEF Lists
      <3>2. \A x \in PullRequests : Count(x)' \in 0..MaxActive
        BY <1>3, <1>7, <2>3
      <3> QED
        BY <1>5, <2>3, <2>4, <3>1, <3>2 DEF TypeOK, ReadingTypes
    <2>10. \A x \in PullRequests : Lists(Queue(x), Waiting(x))'
      BY <2>7 DEF Lists
    <2> QED
      BY <1>5, <2>8, <2>9, <2>10 DEF Loose
  <1>8. CASE /\ Goto(t, "ready")
             /\ ~(Value(c, p, 0) >= MaxActive) /\ Value(c, p, 0) # 1
             /\ counters' = Put(c, p, Value(c, p, 0) + 1)
             /\ conditions' = Put(q, p, Value(q, p, <<>>))
    <2>1. /\ task'[t].pc = "ready" /\ task'[t].pr = p
          /\ \A u \in Tasks \ {t} : task'[u] = task[u]
      BY <1>0, <1>8, GotoTask DEF Loose, PC
    <2>2. \A x \in PullRequests : Waiting(x)' = Waiting(x)
      BY <1>0, <2>1 DEF Waiting, At
    <2>3. /\ DictOver(counters, PullRequests)'
          /\ Count(p)' = Value(c, p, 0) + 1
          /\ \A x \in PullRequests \ {p} : Count(x)' \in {Count(x), 0}
      BY <1>2, <1>5, <1>8, CountersWritten
    <2>4. /\ DictOver(conditions, PullRequests)'
          /\ Queue(p)' = Value(q, p, <<>>)
          /\ \A x \in PullRequests \ {p} : Queue(x)' \in {Queue(x), <<>>}
      BY <1>2, <1>5, <1>8, ConditionsWritten
    <2>5. Count(p)' = 1
      BY <1>3, <1>8, <2>3
    <2>6. \A x \in PullRequests : Lists(Queue(x)', Waiting(x)')
      BY <1>4, <2>2, <2>4, ListsNobody DEF Loose
    <2>7. \A x \in PullRequests : Count(x)' >= 2 => Waiting(x)' # {}
      BY <2>2, <2>3, <2>5 DEF Loose
    <2>8. TypeOK'
      <3>1. \A x \in PullRequests : Queue(x)' \in Seq(Tasks)
        BY <2>6 DEF Lists
      <3>2. \A x \in PullRequests : Count(x)' \in 0..MaxActive
        BY <1>3, <2>3, <2>5
      <3> QED
        BY <1>5, <2>3, <2>4, <3>1, <3>2 DEF TypeOK, ReadingTypes
    <2>9. \A x \in PullRequests : Lists(Queue(x), Waiting(x))'
      BY <2>6 DEF Lists
    <2> QED
      BY <1>5, <2>7, <2>8, <2>9 DEF Loose
  <1> QED
    BY <1>1, <1>6, <1>7, <1>8

LEMMA LooseFinish ==
  ASSUME Loose, NEW t \in Tasks, Finish(t)
  PROVE  Loose'
  <1>0. Step(t) /\ task[t].pc = "processing"
    BY DEF Step, Finish
  <1> PICK p \in PullRequests : p = task[t].pr
    BY <1>0, StepTasks
  <1>1. PICK c \in BeforeGet(counters, p), q \in BeforeGet(conditions, p) :
          LET active == Value(c, p, 0)
              queue  == Value(q, p, <<>>)
          IN  /\ counters' = Put(c, p, IF active = 0 THEN 0 ELSE active - 1)
              /\ IF queue = <<>>
                 THEN conditions' = Put(q, p, queue) /\ Goto(t, "done")
                 ELSE /\ conditions' = Put(q, p, Tail(queue))
                      /\ task' = [task EXCEPT ![t].pc = "done", ![Head(queue)].pc = "ready"]
    BY DEF Finish
  <1>2. /\ c \in Refreshed(counters, {p}) /\ q \in Refreshed(conditions, {p})
        /\ Value(c, p, 0) \in {Count(p), 0} /\ Value(q, p, <<>>) \in {Queue(p), <<>>}
    BY RefreshedValue DEF BeforeGet, Loose, TypeOK, Count, Queue
  <1>3. /\ MaxActive \in {1, 2} /\ \A x \in PullRequests : Count(x) \in 0..MaxActive
        /\ Value(c, p, 0) \in 0..MaxActive
    BY <1>2 DEF Loose, TypeOK, MaxActive
  <1>4. Lists(Value(q, p, <<>>), Waiting(p)) /\ t \notin Waiting(p)
    BY <1>0, <1>2, ListsNobody DEF Loose, Waiting, At
  <1>5. TypeOK /\ Known' /\ head' \in [PullRequests -> Nat] /\ ReadingTypes'
        /\ task' \in [Tasks -> Task]
    BY <1>0, StepKnown, StepTasks DEF Loose
  <1> DEFINE n == IF Value(c, p, 0) = 0 THEN 0 ELSE Value(c, p, 0) - 1
  <1>6. /\ DictOver(counters, PullRequests)'
        /\ Count(p)' = n
        /\ \A x \in PullRequests \ {p} : Count(x)' \in {Count(x), 0}
    BY <1>1, <1>2, <1>5, CountersWritten
  <1>7. n \in {0, 1} /\ n \in 0..MaxActive
    BY <1>3
  <1>8. \A x \in PullRequests : Count(x)' \in 0..MaxActive
    BY <1>3, <1>6, <1>7
  <1>9. CASE Value(q, p, <<>>) = <<>>
    <2>1. Goto(t, "done") /\ conditions' = Put(q, p, <<>>)
      BY <1>1, <1>9
    <2>2. /\ task'[t].pc = "done" /\ task'[t].pr = p
          /\ \A u \in Tasks \ {t} : task'[u] = task[u]
      BY <1>0, <2>1, GotoTask DEF Loose, PC
    <2>3. \A x \in PullRequests : Waiting(x)' = Waiting(x)
      BY <1>0, <2>2 DEF Waiting, At
    <2>4. /\ DictOver(conditions, PullRequests)'
          /\ Queue(p)' = <<>>
          /\ \A x \in PullRequests \ {p} : Queue(x)' \in {Queue(x), <<>>}
      BY <1>2, <1>5, <2>1, ConditionsWritten
    <2>5. \A x \in PullRequests : Lists(Queue(x)', Waiting(x)')
      BY <2>3, <2>4, ListsNobody DEF Loose
    <2>6. \A x \in PullRequests : Count(x)' >= 2 => Waiting(x)' # {}
      BY <1>6, <1>7, <2>3 DEF Loose
    <2>7. \A x \in PullRequests : Queue(x)' \in Seq(Tasks)
      BY <2>5 DEF Lists
    <2>8. TypeOK'
      BY <1>5, <1>6, <1>8, <2>4, <2>7 DEF TypeOK, ReadingTypes
    <2>9. \A x \in PullRequests : Lists(Queue(x), Waiting(x))'
      BY <2>5 DEF Lists
    <2> QED
      BY <1>5, <2>6, <2>8, <2>9 DEF Loose
  <1>10. CASE Value(q, p, <<>>) # <<>>
    <2>1. /\ conditions' = Put(q, p, Tail(Value(q, p, <<>>)))
          /\ task' = [task EXCEPT ![t].pc = "done", ![Head(Value(q, p, <<>>))].pc = "ready"]
      BY <1>1, <1>10
    <2> PICK u \in Tasks : u = Head(Value(q, p, <<>>)) /\ u \in Waiting(p)
      BY <1>4, <1>10, ListsOneLess
    <2>2. task[u].pc = "waiting" /\ task[u].pr = p /\ u # t
      BY <1>0 DEF Waiting, At
    <2>3. /\ task'[t].pc = "done" /\ task'[t].pr = p /\ task'[u].pc = "ready"
          /\ task'[u].pr = p
          /\ \A v \in Tasks \ {t, u} : task'[v] = task[v]
      BY <1>0, <2>1, <2>2, WakeTask DEF Loose
    <2>4. /\ Waiting(p)' = Waiting(p) \ {u}
          /\ \A x \in PullRequests \ {p} : Waiting(x)' = Waiting(x)
      BY <1>0, <2>2, <2>3 DEF Waiting, At
    <2>5. /\ DictOver(conditions, PullRequests)'
          /\ Queue(p)' = Tail(Value(q, p, <<>>))
          /\ \A x \in PullRequests \ {p} : Queue(x)' \in {Queue(x), <<>>}
      BY <1>2, <1>5, <2>1, ConditionsWritten
    <2>6. Lists(Tail(Value(q, p, <<>>)), Waiting(p) \ {u})
      BY <1>4, <1>10, ListsOneLess
    <2>7. \A x \in PullRequests : Lists(Queue(x)', Waiting(x)')
      BY <2>4, <2>5, <2>6, ListsNobody DEF Loose
    <2>8. \A x \in PullRequests : Count(x)' >= 2 => Waiting(x)' # {}
      BY <1>6, <1>7, <2>4 DEF Loose
    <2>9. \A x \in PullRequests : Queue(x)' \in Seq(Tasks)
      BY <2>7 DEF Lists
    <2>10. TypeOK'
      BY <1>5, <1>6, <1>8, <2>5, <2>9 DEF TypeOK, ReadingTypes
    <2>11. \A x \in PullRequests : Lists(Queue(x), Waiting(x))'
      BY <2>7 DEF Lists
    <2> QED
      BY <1>5, <2>8, <2>10, <2>11 DEF Loose
  <1> QED
    BY <1>9, <1>10

LEMMA LoosePush ==
  ASSUME Loose, NEW t \in Tasks, NEW p \in PullRequests, Push(t, p)
  PROVE  Loose'
  <1>1. /\ task' \in [Tasks -> Task]
        /\ task'[t] = [pc |-> "delivered", pr |-> p, commit |-> head[p] + 1]
        /\ \A u \in Tasks \ {t} : task'[u] = task[u]
    BY PushTask DEF Loose
  <1>2. /\ task[t] = NoTask /\ head' = [head EXCEPT ![p] = @ + 1] /\ UNCHANGED <<gate, opened, readings>>
        /\ head \in [PullRequests -> Nat]
    BY DEF Push, Loose, TypeOK
  <1>3. \A x \in PullRequests :
          Waiting(x)' = Waiting(x) /\ Count(x)' = Count(x) /\ Queue(x)' = Queue(x)
    BY <1>1, <1>2 DEF Waiting, At, NoTask, gate, Count, Queue
  <1>4. TypeOK'
    BY <1>1, <1>2, <1>3 DEF Loose, TypeOK, readings, gate
  <1>5. Known'
    <2> SUFFICES ASSUME NEW u \in Tasks, task'[u] # NoTask
                 PROVE  task'[u].commit <= head'[task'[u].pr]
      BY DEF Known
    <2>1. CASE u = t
      BY <1>1, <1>2, <2>1
    <2>2. CASE u # t
      <3>1. task[u] # NoTask /\ task[u].pr \in PullRequests /\ task[u].commit \in Nat
        BY <1>1, <2>2 DEF Loose, TypeOK, Task
      <3>2. task[u].commit <= head[task[u].pr] /\ head[task[u].pr] \in Nat
        BY <1>2, <3>1 DEF Loose, Known
      <3>3. head'[task[u].pr] \in {head[task[u].pr], head[task[u].pr] + 1}
        BY <1>2, <3>1
      <3> QED
        BY <1>1, <2>2, <3>1, <3>2, <3>3
    <2> QED
      BY <2>1, <2>2
  <1> QED
    BY <1>3, <1>4, <1>5, LooseSame

LEMMA LooseAge ==
  ASSUME Loose, NEW p \in PullRequests, AgeKey(p)
  PROVE  Loose'
  <1>1. UNCHANGED <<head, opened, readings, task>>
    BY DEF AgeKey
  <1>2. (\A x \in PullRequests : Count(x)' = Count(x)) /\ DictOver(counters, PullRequests)'
    <2>1. CASE p \in Keys(counters) \ counters.old /\ counters' = Age(counters, p)
      BY <2>1, AgeValue DEF Loose, TypeOK, Count
    <2>2. CASE UNCHANGED counters
      BY <2>2 DEF Loose, TypeOK, Count
    <2> QED
      BY <2>1, <2>2 DEF AgeKey
  <1>3. (\A x \in PullRequests : Queue(x)' = Queue(x)) /\ DictOver(conditions, PullRequests)'
    <2>1. CASE p \in Keys(conditions) \ conditions.old /\ conditions' = Age(conditions, p)
      BY <2>1, AgeValue DEF Loose, TypeOK, Queue
    <2>2. CASE UNCHANGED conditions
      BY <2>2 DEF Loose, TypeOK, Queue
    <2> QED
      BY <2>1, <2>2 DEF AgeKey
  <1>4. TypeOK' /\ Known'
    BY <1>1, <1>2, <1>3 DEF Loose, TypeOK, readings, Known
  <1>5. \A x \in PullRequests : Waiting(x)' = Waiting(x)
    BY <1>1 DEF Waiting, At
  <1> QED
    BY <1>2, <1>3, <1>4, <1>5, LooseSame

LEMMA LooseNext == Loose /\ [Next]_vars => Loose'
  <1> SUFFICES ASSUME Loose, [Next]_vars PROVE Loose'
    OBVIOUS
  <1>1. CASE UNCHANGED vars
    <2>1. TypeOK' /\ Known'
      BY <1>1 DEF vars, gate, readings, Loose, TypeOK, Known, Count, Queue
    <2>2. \A x \in PullRequests :
            Waiting(x)' = Waiting(x) /\ Count(x)' = Count(x) /\ Queue(x)' = Queue(x)
      BY <1>1 DEF vars, gate, Waiting, At, Count, Queue
    <2> QED
      BY <2>1, <2>2, LooseSame
  <1> QED
    BY <1>1, LooseIgnoreStart, LooseArrive, LooseFinish, LoosePush, LooseAge
       DEF Next, Step, Quiescent

(***************************************************************************)
(* Every variable keeps its type and the counter of a pull request stays   *)
(* within its bound, whatever key is forgotten under the tasks that use it.*)
(***************************************************************************)
THEOREM GateTypes == Spec => []TypeOK
  <1>1. Loose => TypeOK
    BY DEF Loose
  <1> QED
    BY LooseInit, LooseNext, <1>1, PTL DEF Spec

-----------------------------------------------------------------------------
(* A delegate is a task that will start a processing when it goes on.      *)
Delegates(p) == At(p, {"waiting", "ready"})

(* Why a review that stays silent tells of a late delivery: the commits of *)
(* a pull request's pushes differ, a provider is built on a head no older  *)
(* than the push it is for, and the commit that a review names is the one  *)
(* that some task's provider was built on.                                 *)
Spaced ==
    \A t, u \in Tasks : task[t] # NoTask /\ task[u] # NoTask =>
        /\ task[t].commit >= 1
        /\ t # u /\ task[t].pr = task[u].pr => task[t].commit # task[u].commit

Built ==
    \A t \in Tasks :
        IF task[t].pc \in {"unborn", "delivered", "ignored"} THEN opened[t] = 0
        ELSE opened[t] >= task[t].commit

NamedByOne ==
    \A p \in PullRequests : named[p] # 0 =>
        \E u \in At(p, {"processing", "done"}) : opened[u] = named[p]

Told == Spaced /\ Built /\ NamedByOne

LEMMA SpacedKept == Loose /\ Spaced /\ [Next]_vars => Spaced'
  <1> SUFFICES ASSUME Loose, Spaced, [Next]_vars PROVE Spaced'
    OBVIOUS
  <1>1. CASE \E s \in Tasks : Step(s)
    <2>1. /\ \A u \in Tasks : task'[u].pr = task[u].pr /\ task'[u].commit = task[u].commit
          /\ \A u \in Tasks : task'[u] # NoTask => task[u] # NoTask
      BY <1>1, StepTasks DEF Woken, NoTask
    <2> QED
      BY <2>1 DEF Spaced
  <1>2. CASE \E s \in Tasks, x \in PullRequests : Push(s, x)
    <2> PICK s \in Tasks, x \in PullRequests : Push(s, x)
      BY <1>2
    <2>1. /\ task'[s] = [pc |-> "delivered", pr |-> x, commit |-> head[x] + 1]
          /\ \A u \in Tasks \ {s} : task'[u] = task[u]
      BY PushTask DEF Loose
    <2>2. task'[s].pr = x /\ task'[s].commit = head[x] + 1 /\ head[x] \in Nat
      BY <2>1 DEF Loose, TypeOK
    <2>3. \A u \in Tasks \ {s} : task[u] # NoTask /\ task[u].pr = x =>
            task[u].commit # head[x] + 1
      <3> SUFFICES ASSUME NEW u \in Tasks, task[u] # NoTask, task[u].pr = x
                   PROVE  task[u].commit # head[x] + 1
        OBVIOUS
      <3>1. task[u].commit <= head[x] /\ task[u] \in Task
        BY DEF Loose, Known, TypeOK
      <3>2. task[u].commit \in Nat
        BY <3>1 DEF Task
      <3> QED
        BY <2>2, <3>1, <3>2
    <2> SUFFICES ASSUME NEW t \in Tasks, NEW u \in Tasks, task'[t] # NoTask, task'[u] # NoTask
                 PROVE  /\ task'[t].commit >= 1
                        /\ t # u /\ task'[t].pr = task'[u].pr => task'[t].commit # task'[u].commit
      BY DEF Spaced
    <2>4. task'[t].commit >= 1
      BY <2>1, <2>2 DEF Spaced
    <2>5. ASSUME t # u, task'[t].pr = task'[u].pr PROVE task'[t].commit # task'[u].commit
      <3>1. CASE t = s
        BY <2>1, <2>2, <2>3, <2>5, <3>1
      <3>2. CASE u = s
        BY <2>1, <2>2, <2>3, <2>5, <3>2
      <3>3. CASE t # s /\ u # s
        BY <2>1, <2>5, <3>3 DEF Spaced
      <3> QED
        BY <3>1, <3>2, <3>3
    <2> QED
      BY <2>4, <2>5
  <1>3. CASE UNCHANGED task
    BY <1>3 DEF Spaced
  <1> QED
    BY <1>1, <1>2, <1>3 DEF Next, AgeKey, Quiescent, vars

LEMMA BuiltKept == Loose /\ Built /\ [Next]_vars => Built'
  <1> SUFFICES ASSUME Loose, Built, [Next]_vars, NEW t \in Tasks
               PROVE  IF task'[t].pc \in {"unborn", "delivered", "ignored"} THEN opened'[t] = 0
                      ELSE opened'[t] >= task'[t].commit
    BY DEF Built
  <1>1. CASE \E s \in Tasks : Step(s)
    <2> PICK s \in Tasks : Step(s)
      BY <1>1
    <2>1. CASE t # s
      <3>1. opened'[t] = opened[t]
        BY <2>1 DEF Step, Ignore, Arrive, Start, Finish, Loose, TypeOK
      <3>2. task'[t] = task[t] \/ (Woken(t) /\ task'[t].commit = task[t].commit)
        BY <2>1, StepTasks
      <3> QED
        BY <3>1, <3>2 DEF Built, Woken
    <2>2. CASE t = s /\ Arrive(s)
      <3>1. /\ task[s].pc = "delivered" /\ task'[s].pc \in {"discarded", "waiting", "ready"}
            /\ task'[s].commit = task[s].commit /\ task[s].pr \in PullRequests
            /\ task[s] # NoTask
        <4>1. task[s].pc = "delivered" /\ ~Ignore(s)
          <5>1. \A pc : Goto(s, pc) => pc = task'[s].pc
            BY DEF Goto, Loose, TypeOK
          <5>2. task[s].pc = "delivered" /\ \E pc \in {"discarded", "waiting", "ready"} : Goto(s, pc)
            BY <2>2 DEF Arrive
          <5> QED
            BY <5>1, <5>2 DEF Ignore
        <4>2. task'[s].pc \in {"discarded", "waiting", "ready"}
          BY <4>1, StepTasks
        <4>3. /\ task'[s].commit = task[s].commit /\ task[s].pr \in PullRequests
              /\ task[s] # NoTask
          BY StepTasks
        <4> QED
          BY <4>1, <4>2, <4>3
      <3>2. opened'[s] = head[task[s].pr]
        BY <2>2 DEF Arrive, Loose, TypeOK
      <3>3. head[task[s].pr] >= task[s].commit
        <4>1. task[s].commit <= head[task[s].pr]
          BY <3>1 DEF Loose, Known
        <4>2. task[s].commit \in Nat /\ head[task[s].pr] \in Nat
          BY <3>1, TaskShape DEF Loose, TypeOK
        <4> QED
          BY <4>1, <4>2
      <3> QED
        BY <2>2, <3>1, <3>2, <3>3
    <2>3. CASE t = s /\ ~Arrive(s)
      <3>1. opened' = opened
        BY <2>3 DEF Step, Ignore, Start, Finish
      <3>2. /\ task'[s].commit = task[s].commit
            /\ \/ task[s].pc = "delivered" /\ task'[s].pc = "ignored"
               \/ task[s].pc = "ready" /\ task'[s].pc = "processing"
               \/ task[s].pc = "processing" /\ task'[s].pc = "done"
        BY <2>3, StepTasks
      <3> QED
        BY <2>3, <3>1, <3>2 DEF Built
    <2> QED
      BY <2>1, <2>2, <2>3
  <1>2. CASE \E s \in Tasks, x \in PullRequests : Push(s, x)
    <2> PICK s \in Tasks, x \in PullRequests : Push(s, x)
      BY <1>2
    <2>1. task[s] = NoTask /\ opened' = opened
      BY DEF Push
    <2>2. task[s].pc = "unborn"
      BY <2>1 DEF NoTask
    <2>3. /\ task'[s] = [pc |-> "delivered", pr |-> x, commit |-> head[x] + 1]
          /\ \A u \in Tasks \ {s} : task'[u] = task[u]
      BY PushTask DEF Loose
    <2> QED
      BY <2>1, <2>2, <2>3 DEF Built
  <1>3. CASE UNCHANGED <<opened, task>>
    BY <1>3 DEF Built
  <1> QED
    BY <1>1, <1>2, <1>3 DEF Next, AgeKey, Quiescent, vars

LEMMA NamedKept == Loose /\ NamedByOne /\ [Next]_vars => NamedByOne'
  <1> SUFFICES ASSUME Loose, NamedByOne, [Next]_vars, NEW p \in PullRequests, named'[p] # 0
               PROVE  \E u \in At(p, {"processing", "done"})' : opened'[u] = named'[p]
    BY DEF NamedByOne
  <1>1. ASSUME NEW u \in At(p, {"processing", "done"}), opened[u] = named[p],
               \/ \E s \in Tasks : Step(s)
               \/ \E s \in Tasks, x \in PullRequests : Push(s, x)
        PROVE  u \in At(p, {"processing", "done"})' /\ opened'[u] = opened[u]
    <2>1. u \in Tasks /\ task[u].pc \in {"processing", "done"} /\ task[u].pr = p
      BY DEF At
    <2>2. CASE \E s \in Tasks : Step(s)
      <3> PICK s \in Tasks : Step(s)
        BY <2>2
      <3>1. opened'[u] = opened[u]
        BY <2>1 DEF Step, Ignore, Arrive, Start, Finish, Loose, TypeOK
      <3>2. task'[u].pr = p /\ task'[u].pc \in {"processing", "done"}
        <4>1. CASE u = s
          BY <2>1, <4>1, StepTasks
        <4>2. CASE u # s
          BY <2>1, <4>2, StepTasks DEF Woken
        <4> QED
          BY <4>1, <4>2
      <3> QED
        BY <2>1, <3>1, <3>2 DEF At
    <2>3. CASE \E s \in Tasks, x \in PullRequests : Push(s, x)
      <3> PICK s \in Tasks, x \in PullRequests : Push(s, x)
        BY <2>3
      <3>1. task[s] = NoTask /\ opened' = opened
        BY DEF Push
      <3>2. \A v \in Tasks \ {s} : task'[v] = task[v]
        BY PushTask DEF Loose
      <3>3. u # s
        BY <2>1, <3>1 DEF NoTask
      <3> QED
        BY <2>1, <3>1, <3>2, <3>3 DEF At
    <2> QED
      BY <1>1, <2>2, <2>3
  <1>2. CASE \E s \in Tasks : Step(s)
    <2> PICK s \in Tasks : Step(s)
      BY <1>2
    <2>1. CASE named'[p] = named[p]
      <3>1. PICK u \in At(p, {"processing", "done"}) : opened[u] = named[p]
        BY <2>1 DEF NamedByOne
      <3>2. u \in At(p, {"processing", "done"})' /\ opened'[u] = opened[u]
        BY <1>1, <1>2, <3>1
      <3> QED
        BY <2>1, <3>1, <3>2
    <2>2. CASE named'[p] # named[p]
      <3>1. Start(s)
        BY <2>2 DEF Step, Ignore, Arrive, Finish, readings
      <3>2. task[s].pr \in PullRequests /\ task'[s].pr = task[s].pr /\ task'[s].pc = "processing"
        <4>1. task[s].pc = "ready"
          BY <3>1 DEF Start
        <4> QED
          BY <4>1, StepTasks
      <3>3. UNCHANGED opened /\ (UNCHANGED named \/ named' = [named EXCEPT ![task[s].pr] = opened[s]])
        BY <3>1 DEF Start, Process, readings
      <3>4. task[s].pr = p /\ named'[p] = opened[s]
        BY <2>2, <3>2, <3>3 DEF Loose, TypeOK
      <3>5. s \in At(p, {"processing", "done"})'
        BY <3>2, <3>4 DEF At
      <3> QED
        BY <3>3, <3>4, <3>5
    <2> QED
      BY <2>1, <2>2
  <1>3. CASE \E s \in Tasks, x \in PullRequests : Push(s, x)
    <2>1. named' = named
      BY <1>3 DEF Push, readings
    <2>2. PICK u \in At(p, {"processing", "done"}) : opened[u] = named[p]
      BY <2>1 DEF NamedByOne
    <2>3. u \in At(p, {"processing", "done"})' /\ opened'[u] = opened[u]
      BY <1>1, <1>3, <2>2
    <2> QED
      BY <2>1, <2>2, <2>3
  <1>4. CASE UNCHANGED <<opened, readings, task>>
    BY <1>4 DEF NamedByOne, At, readings
  <1> QED
    BY <1>2, <1>3, <1>4 DEF Next, AgeKey, Quiescent, vars

LEMMA ToldInit == Init => Told
  BY DEF Init, Told, Spaced, Built, NamedByOne, NoTask

LEMMA ToldNext == Loose /\ Told /\ [Next]_vars => Told'
  BY SpacedKept, BuiltKept, NamedKept DEF Told

(* Once a delivery was late it stays so.                                   *)
LEMMA LateStays ==
  ASSUME Loose, Built, NEW s \in Tasks, Step(s), NEW p \in PullRequests, Late(p)
  PROVE  Late(p)'
  <1>1. PICK t \in Tasks : task[t] # NoTask /\ task[t].pr = p /\ opened[t] > task[t].commit
    BY DEF Late
  <1>2. task[t] \in [pc: PC, pr: PullRequests, commit: Nat]
    BY <1>1 DEF Loose, TypeOK, Task
  <1>3. opened[t] # 0 /\ opened[t] \in Nat
    BY <1>1, <1>2 DEF Loose, TypeOK
  <1>4. task[t].pc # "delivered"
    BY <1>3 DEF Built
  <1>5. opened'[t] = opened[t]
    BY <1>4 DEF Step, Ignore, Arrive, Start, Finish, Loose, TypeOK
  <1>6. task'[t].pr = p /\ task'[t].commit = task[t].commit /\ task'[t] # NoTask
    BY <1>1, StepTasks DEF Woken, NoTask
  <1> QED
    BY <1>1, <1>5, <1>6 DEF Late

(* Of two providers built on one commit one was built late.                *)
LEMMA MuteIsLate ==
  ASSUME Loose, Told, NEW s \in Tasks, Start(s),
         NEW p \in PullRequests, p = task[s].pr, opened[s] = named[p]
  PROVE  Late(p)
  <1>1. task[s].pc = "ready"
    BY DEF Start
  <1>2. task[s] # NoTask /\ task[s].commit \in Nat
    BY <1>1, TaskShape DEF Loose, NoTask
  <1>3. task[s].commit >= 1 /\ opened[s] >= task[s].commit /\ opened[s] \in Nat
    BY <1>1, <1>2 DEF Told, Spaced, Built, Loose, TypeOK
  <1>4. PICK u \in At(p, {"processing", "done"}) : opened[u] = named[p]
    BY <1>2, <1>3 DEF Told, NamedByOne
  <1>5. u \in Tasks /\ u # s /\ task[u].pr = p /\ task[u].pc \in {"processing", "done"}
    BY <1>1, <1>4 DEF At
  <1>6. task[u] # NoTask /\ task[u].commit \in Nat
    BY <1>5, TaskShape DEF Loose, NoTask
  <1>7. opened[u] >= task[u].commit /\ task[u].commit # task[s].commit
    BY <1>2, <1>5, <1>6 DEF Told, Spaced, Built
  <1>8. opened[s] > task[s].commit \/ opened[u] > task[u].commit
    BY <1>2, <1>3, <1>4, <1>6, <1>7
  <1> QED
    BY <1>2, <1>5, <1>6, <1>8 DEF Late

(* Why a step keeps the promise made to a task discarded before it.        *)
LEMMA PromiseKept ==
  ASSUME Loose, Told, Filtered = {}, NEW t \in Tasks, task[t].pc = "discarded",
         NEW s \in Tasks, Step(s),
         NEW p \in PullRequests, p = task[t].pr,
         NEW commit, commit = task[t].commit,
         IsRead(p, commit) \/ Delegates(p) # {}
  PROVE  \/ seen'[p] >= commit
         \/ Late(p)' /\ muted'[p] >= commit
         \/ Delegates(p)' # {}
  <1>1. /\ commit \in Nat /\ head[p] \in Nat /\ seen[p] \in Nat /\ muted[p] \in Nat
        /\ commit <= head[p]
    BY TaskShape DEF Loose, TypeOK, Known, NoTask
  <1>2. task[s].pr \in PullRequests
    BY StepTasks
  <1>3. /\ seen'[p] = seen[p] \/ seen'[p] = head[p]
        /\ muted'[p] = muted[p] \/ muted'[p] = head[p]
    <2>1. CASE Start(s)
      <3>1. Process(s)
        BY <2>1 DEF Start
      <3>2. seen' = seen \/ seen' = [seen EXCEPT ![task[s].pr] = head[task[s].pr]]
        BY <3>1 DEF Process, readings
      <3>3. muted' = muted \/ muted' = [muted EXCEPT ![task[s].pr] = head[task[s].pr]]
        BY <3>1 DEF Process, readings
      <3> QED
        BY <1>2, <3>2, <3>3 DEF Loose, TypeOK
    <2>2. CASE ~Start(s)
      <3>1. UNCHANGED readings
        BY <2>2 DEF Step, Ignore, Arrive, Finish
      <3> QED
        BY <3>1 DEF readings
    <2> QED
      BY <2>1, <2>2
  <1>4. seen[p] >= commit => seen'[p] >= commit
    BY <1>1, <1>3
  <1>5. Late(p) /\ muted[p] >= commit => Late(p)' /\ muted'[p] >= commit
    BY <1>1, <1>3, LateStays DEF Told
  <1>6. ASSUME NEW d \in Delegates(p)
        PROVE  \/ seen'[p] >= commit
               \/ Late(p)' /\ muted'[p] >= commit
               \/ Delegates(p)' # {}
    <2>1. d \in Tasks /\ task[d].pr = p /\ task[d].pc \in {"waiting", "ready"}
      BY <1>6 DEF Delegates, At
    <2>2. CASE d # s
      BY <2>1, <2>2, StepTasks DEF Delegates, At, Woken
    <2>3. CASE d = s
      <3>1. Start(s) /\ Process(s)
        BY <2>1, <2>3 DEF Step, Ignore, Arrive, Start, Finish
      <3>2. CASE opened[s] = named[p]
        <4>1. Late(p)'
          BY <2>1, <2>3, <3>1, <3>2, MuteIsLate, LateStays DEF Told
        <4>2. muted' = [muted EXCEPT ![p] = head[p]]
          BY <2>1, <2>3, <3>1, <3>2 DEF Process
        <4> QED
          BY <1>1, <4>1, <4>2 DEF Loose, TypeOK
      <3>3. CASE opened[s] # named[p]
        <4>1. seen' = [seen EXCEPT ![p] = head[p]]
          BY <2>1, <2>3, <3>1, <3>3 DEF Process
        <4> QED
          BY <1>1, <4>1 DEF Loose, TypeOK
      <3> QED
        BY <3>2, <3>3
    <2> QED
      BY <2>2, <2>3
  <1> QED
    BY <1>4, <1>5, <1>6 DEF IsRead

(* A task is discarded in the presence of a delegate.                      *)
LEMMA PromiseMade ==
  ASSUME Loose, Backlog = TRUE, NEW t \in Tasks, Step(t), task'[t].pc = "discarded",
         NEW p \in PullRequests, p = task[t].pr
  PROVE  Delegates(p)' # {}
  <1>1. Arrive(t) /\ task[t].pc = "delivered"
    BY StepTasks
  <1>2. Count(p) >= 2
    <2>1. PICK c \in BeforeSetDefault(counters) :
            \/ Value(c, p, 0) >= MaxActive
            \/ Goto(t, "waiting")
            \/ Goto(t, "ready")
      BY <1>1 DEF Arrive, Full
    <2>2. ~Goto(t, "waiting") /\ ~Goto(t, "ready")
      BY <1>1, GotoTask DEF Loose, PC
    <2>3. Value(c, p, 0) \in {Count(p), 0}
      BY RefreshedValue DEF BeforeSetDefault, Loose, TypeOK, Count
    <2>4. MaxActive = 2
      BY DEF MaxActive
    <2> QED
      BY <2>1, <2>2, <2>3, <2>4
  <1>3. PICK u \in Waiting(p) : TRUE
    BY <1>2 DEF Loose
  <1>4. u \in Tasks \ {t} /\ task[u].pc = "waiting" /\ task[u].pr = p
    BY <1>1 DEF Waiting, At
  <1> QED
    BY <1>4, StepTasks DEF Delegates, At, Woken

(***************************************************************************)
(* With a backlog and payloads that are never refused past the gate, every *)
(* discarded push has a delegate until the patches of its commit have been *)
(* read, by a review or, if a delivery was late, by a processing that stays*)
(* silent; even when the gate forgets a pull request with active tasks.    *)
(***************************************************************************)
THEOREM DiscardedIsRepresented ==
  ASSUME Backlog = TRUE, Filtered = {}
  PROVE  Spec => []DelegateDoesTheSame
  <1>1. Init => DelegateDoesTheSame
    BY DEF Init, DelegateDoesTheSame, NoTask
  <1>2. Loose /\ Loose' /\ Told /\ DelegateDoesTheSame /\ [Next]_vars => DelegateDoesTheSame'
    <2> SUFFICES ASSUME Loose, Loose', Told, DelegateDoesTheSame, [Next]_vars
                 PROVE  DelegateDoesTheSame'
      OBVIOUS
    <2> SUFFICES ASSUME NEW t \in Tasks, task'[t].pc = "discarded",
                        NEW p \in PullRequests, p = task'[t].pr
                 PROVE  \/ seen'[p] >= task'[t].commit
                        \/ Late(p)' /\ muted'[p] >= task'[t].commit
                        \/ Delegates(p)' # {}
      <3>1. ASSUME NEW t \in Tasks, task'[t].pc = "discarded"
            PROVE  task'[t].pr \in PullRequests
        <4>1. TypeOK'
          BY DEF Loose
        <4>2. task'[t] \in Task
          BY <4>1 DEF TypeOK
        <4> QED
          BY <3>1, <4>2 DEF Task, NoTask
      <3> QED
        BY <3>1 DEF DelegateDoesTheSame, IsRead, Late, Delegates, At
    <2>1. CASE \E s \in Tasks : Step(s)
      <3>1. PICK s \in Tasks : Step(s)
        BY <2>1
      <3>2. CASE task[t].pc = "discarded"
        <4>1. task'[t] = task[t]
          BY <3>1, <3>2, StepTasks DEF Woken
        <4>2. IsRead(p, task[t].commit) \/ Delegates(p) # {}
          BY <3>2, <4>1 DEF DelegateDoesTheSame, Delegates
        <4> QED
          BY <3>1, <3>2, <4>1, <4>2, PromiseKept
      <3>3. CASE task[t].pc # "discarded"
        <4>1. s = t
          BY <3>1, <3>3, StepTasks DEF Woken
        <4>2. task[t].pr = p
          BY <3>1, <4>1, StepTasks
        <4> QED
          BY <3>1, <4>1, <4>2, PromiseMade
      <3> QED
        BY <3>2, <3>3
    <2>2. CASE \E s \in Tasks, x \in PullRequests : Push(s, x)
      <3>1. PICK s \in Tasks, x \in PullRequests : Push(s, x)
        BY <2>2
      <3>2. /\ task'[s].pc = "delivered" /\ task[s] = NoTask /\ UNCHANGED <<opened, readings>>
            /\ \A u \in Tasks \ {s} : task'[u] = task[u]
        BY <3>1, PushTask DEF Loose, Push
      <3>3. task'[t] = task[t] /\ task[t].pc = "discarded"
        BY <3>2
      <3>4. Delegates(p) \subseteq Delegates(p)'
        BY <3>2 DEF Delegates, At, NoTask
      <3>5. Late(p) => Late(p)'
        BY <3>2 DEF Late
      <3> QED
        BY <3>2, <3>3, <3>4, <3>5 DEF DelegateDoesTheSame, IsRead, Delegates, readings
    <2>3. CASE UNCHANGED <<opened, readings, task>>
      <3>1. seen' = seen /\ muted' = muted /\ opened' = opened /\ task' = task
        BY <2>3 DEF readings
      <3>2. Late(p)' = Late(p) /\ Delegates(p)' = Delegates(p)
        BY <3>1 DEF Late, Delegates, At
      <3> QED
        BY <3>1, <3>2 DEF DelegateDoesTheSame, IsRead, Delegates
    <2> QED
      BY <2>1, <2>2, <2>3 DEF Next, AgeKey, Quiescent, vars
  <1> QED
    BY LooseInit, LooseNext, ToldInit, ToldNext, <1>1, <1>2, PTL DEF Spec

=============================================================================
