---------------------------- MODULE TasksProofs -----------------------------
(* Proofs about Tasks, for all values of its constants. *)
EXTENDS Tasks, FiniteSetTheorems, TLAPS

(* A goroutine that exists has a task of its own (dispatchHTTP). *)
LEMMA DispatchFields ==
  ASSUME TypeOK, NEW i \in Ids, disp[i].pc # "none"
  PROVE  disp[i] \in Dispatch
  BY DEF TypeOK, NoDispatch

(* A goroutine that moves on keeps its task and its attempt (Goto). *)
LEMMA GotoFields ==
  ASSUME TypeOK, NEW i \in Ids, disp[i].pc # "none",
         NEW pc \in {"start", "loop", "post", "backoff", "return", "done"}, Goto(i, pc)
  PROVE  /\ disp' \in [Ids -> Dispatch \cup {NoDispatch}]
         /\ disp'[i].pc = pc /\ disp'[i].task = disp[i].task /\ disp'[i].attempt = disp[i].attempt
         /\ \A j \in Ids : j # i => disp'[j] = disp[j]
  <1>1. disp[i] \in Dispatch
    BY DispatchFields
  <1>2. [disp[i] EXCEPT !.pc = pc] \in Dispatch
    BY <1>1 DEF Dispatch
  <1>3. QED
    BY <1>1, <1>2 DEF Goto, TypeOK, Dispatch

(* The clients between the two steps of a creation are counted. *)
Creating == {c \in Clients : req[c] # NoQueue}

LEMMA CreatingCount ==
  ASSUME TypeOK
  PROVE  IsFiniteSet(Creating) /\ Cardinality(Creating) \in Nat
  BY TasksAssumption, FS_Subset, FS_CardinalityType DEF Creating

(* A client that starts a creation, and one that ends it. *)
LEMMA CreatingStep ==
  ASSUME TypeOK, NEW c \in Clients, NEW q \in Queues \cup {NoQueue},
         req' = [req EXCEPT ![c] = q]
  PROVE  /\ req[c] = NoQueue => Cardinality(Creating') <= Cardinality(Creating) + 1
         /\ req[c] # NoQueue /\ q = NoQueue => Cardinality(Creating') = Cardinality(Creating) - 1
         /\ Cardinality(Creating') \in Nat
  <1>0. IsFiniteSet(Creating) /\ Cardinality(Creating) \in Nat
    BY CreatingCount
  <1>1. CASE req[c] = NoQueue /\ q # NoQueue
    <2>1. Creating' = Creating \cup {c} /\ c \notin Creating
      BY <1>1 DEF Creating, TypeOK
    <2>2. QED
      BY <1>0, <1>1, <2>1, FS_AddElement, SMTT(30)
  <1>2. CASE req[c] = NoQueue /\ q = NoQueue
    <2>1. Creating' = Creating
      BY <1>2 DEF Creating, TypeOK
    <2>2. QED
      BY <1>0, <1>2, <2>1
  <1>3. CASE req[c] # NoQueue /\ q = NoQueue
    <2>1. Creating' = Creating \ {c} /\ c \in Creating
      BY <1>3 DEF Creating, TypeOK
    <2>2. QED
      BY <1>0, <1>3, <2>1, FS_RemoveElement, FS_CardinalityType
  <1>4. CASE req[c] # NoQueue /\ q # NoQueue
    <2>1. Creating' = Creating
      BY <1>4 DEF Creating, TypeOK
    <2>2. QED
      BY <1>0, <1>4, <2>1
  <1>5. QED
    BY <1>1, <1>2, <1>3, <1>4

-----------------------------------------------------------------------------
LEMMA IInvInit == Init => IInv
  <1> SUFFICES ASSUME Init PROVE IInv
    OBVIOUS
  <1>1. TypeOK
    BY TasksAssumption DEF Init, TypeOK, Answers
  <1>2. IdsLeft
    <2>1. {c \in Clients : req[c] # NoQueue} = {}
      BY DEF Init
    <2>2. QED
      BY <2>1, FS_EmptySet, TasksAssumption DEF Init, IdsLeft
  <1>3. QED
    BY <1>1, <1>2 DEF Init, IInv, Untouched, AttemptsCounted, RetryBudget, NamesDrawn, DeletesOwnTask,
                      NobodyPosts, Running, NoDispatch

(* A step of one goroutine that moves it on and leaves its name, the store   *)
(* and the counters alone: what is left to show is its own bookkeeping.      *)
LEMMA GoroutineStep ==
  ASSUME IInv, NEW i \in Ids, disp[i].pc # "none", disp[i].pc # "done",
         NEW pc \in {"start", "loop", "post", "backoff", "return", "done"},
         disp' \in [Ids -> Dispatch \cup {NoDispatch}],
         disp'[i].pc = pc, disp'[i].task = disp[i].task,
         \A j \in Ids : j # i => disp'[j] = disp[j],
         posts' \in [Ids -> 0..MaxAttempts], \A j \in Ids : j # i => posts'[j] = posts[j],
         outcome' \in [Ids -> Answers \cup {"none", "exhausted"}],
         \A j \in Ids : j # i => outcome'[j] = outcome[j],
         outcome'[i] = "exhausted" => posts'[i] = MaxAttempts,
         pc \in {"start", "loop", "post"} => /\ disp'[i].attempt = posts'[i] + 1
                                    /\ posts'[i] < MaxAttempts /\ outcome'[i] = "none",
         pc = "backoff" => /\ disp'[i].attempt = posts'[i]
                           /\ posts'[i] < MaxAttempts /\ outcome'[i] = "none",
         pc = "post" => stop = "no",
         tasks' \subseteq tasks,
         UNCHANGED <<queues, taskSeq, req, stop, created, restarts>>
  PROVE  IInv'
  <1>1. TypeOK'
    BY DEF IInv, TypeOK
  <1>2. IdsLeft'
    BY DEF IInv, IdsLeft
  <1>3. Untouched'
    BY DEF IInv, Untouched, NoDispatch
  <1>4. AttemptsCounted' /\ RetryBudget'
    BY DEF IInv, AttemptsCounted, RetryBudget
  <1>5. NamesDrawn' /\ DeletesOwnTask'
    BY DEF IInv, NamesDrawn, DeletesOwnTask, Running, SameName
  <1>6. NobodyPosts'
    BY DEF IInv, NobodyPosts
  <1>7. QED
    BY <1>1, <1>2, <1>3, <1>4, <1>5, <1>6 DEF IInv

(* The counters of requests stay numbers. *)
LEMMA PostsType ==
  ASSUME IInv, NEW i \in Ids
  PROVE  posts[i] \in 0..MaxAttempts /\ MaxAttempts \in Nat \ {0} /\ created \in Nat /\ MaxTasks \in Nat
  BY TasksAssumption DEF IInv, TypeOK

LEMMA RunStep ==
  ASSUME IInv, NEW i \in Ids, WakeUp(i) \/ Run(i)
  PROVE  IInv'
  <1> USE PostsType DEF IInv
  <1>1. CASE WakeUp(i)
    BY <1>1, GotoFields, GoroutineStep, SMTT(30) DEF WakeUp, AttemptsCounted, RetryBudget, TypeOK
  <1>2. CASE SleepAborted(i)
    BY <1>2, GotoFields, GoroutineStep DEF SleepAborted, AttemptsCounted, RetryBudget, TypeOK
  <1>3. CASE DispatchHTTP(i)
    BY <1>3, GotoFields, GoroutineStep, SMTT(30) DEF DispatchHTTP, AttemptsCounted, RetryBudget, TypeOK
  <1>4. CASE Attempt(i)
    BY <1>4, GotoFields, GoroutineStep, SMTT(90) DEF Attempt, AttemptsCounted, RetryBudget, TypeOK, Answers
  <1>5. ASSUME NEW a \in Answers, Answer(i, a) PROVE IInv'
    BY <1>5, GotoFields, GoroutineStep, SMTT(90) DEF Answer, LastAttempt, AttemptsCounted, RetryBudget, TypeOK, Answers
  <1>6. CASE BackoffOver(i)
    <2> DEFINE e == [disp[i] EXCEPT !.pc = "loop"]
               d == [e EXCEPT !.attempt = disp[i].attempt + 1]
    <2>1. disp[i] \in Dispatch /\ disp[i].attempt \in Nat
      BY <1>6, DispatchFields DEF BackoffOver, Dispatch
    <2>2. e \in Dispatch /\ e.pc = "loop" /\ e.task = disp[i].task
      BY <2>1 DEF Dispatch
    <2>3. disp' = [disp EXCEPT ![i] = d]
      BY <1>6, <2>1 DEF BackoffOver, TypeOK, Dispatch
    <2> HIDE DEF e
    <2>4. /\ d \in Dispatch
          /\ d.pc = "loop" /\ d.task = disp[i].task /\ d.attempt = disp[i].attempt + 1
      BY <2>1, <2>2 DEF Dispatch
    <2> HIDE DEF d
    <2>5. /\ disp' \in [Ids -> Dispatch \cup {NoDispatch}] /\ disp'[i] = d
          /\ \A j \in Ids : j # i => disp'[j] = disp[j]
      BY <2>3, <2>4 DEF TypeOK
    <2>6. disp'[i].attempt = posts[i] + 1 /\ posts[i] < MaxAttempts /\ outcome[i] = "none"
      BY <1>6, <2>4, <2>5 DEF BackoffOver, AttemptsCounted
    <2>7. UNCHANGED <<queues, tasks, taskSeq, req, stop, created, restarts, posts, outcome>>
      BY <1>6 DEF BackoffOver
    <2>8. posts' \in [Ids -> 0..MaxAttempts] /\ outcome' \in [Ids -> Answers \cup {"none", "exhausted"}]
      BY <2>7 DEF TypeOK
    <2>9. disp[i].pc = "backoff" /\ disp'[i].pc = "loop" /\ disp'[i].task = disp[i].task
      BY <1>6, <2>4, <2>5 DEF BackoffOver
    <2>10. QED
      BY <2>5, <2>6, <2>7, <2>8, <2>9, GoroutineStep
  <1>7. CASE BackoffAborted(i)
    BY <1>7, GotoFields, GoroutineStep DEF BackoffAborted, AttemptsCounted, RetryBudget, TypeOK
  <1>8. CASE DeleteOnReturn(i)
    BY <1>8, GotoFields, GoroutineStep DEF DeleteOnReturn, AttemptsCounted, RetryBudget, TypeOK
  <1>9. QED
    BY <1>1, <1>2, <1>3, <1>4, <1>5, <1>6, <1>7, <1>8 DEF Run

(* The names of other goroutines were drawn before, so that the new name is  *)
(* nobody's (PutTask); the goroutine itself begins with no request sent.     *)
LEMMA PutTaskStep ==
  ASSUME IInv, NEW c \in Clients, NEW kind \in Kinds, NEW delayed \in BOOLEAN,
         PutTask(c, kind, delayed)
  PROVE  IInv'
  <1> DEFINE t == [queue |-> req[c], num |-> taskSeq + 1, id |-> created + 1, kind |-> kind]
             i == created + 1
             d == IF kind = "plain" THEN NoDispatch
                  ELSE [task |-> t, attempt |-> 1, pc |-> IF delayed THEN "sleep" ELSE "start"]
  <1>1. Creating = {x \in Clients : req[x] # NoQueue}
    BY DEF Creating
  <1>2. c \in Creating /\ req' = [req EXCEPT ![c] = NoQueue]
    BY DEF PutTask, Creating
  <1>3. /\ created \in Nat /\ taskSeq \in Nat /\ MaxTasks \in Nat /\ MaxAttempts \in Nat \ {0}
        /\ req[c] \in Queues
    BY TasksAssumption DEF IInv, TypeOK, PutTask
  <1>4. Cardinality(Creating') = Cardinality(Creating) - 1 /\ Cardinality(Creating') \in Nat
    BY <1>2, CreatingStep DEF IInv, Creating
  <1>5. i \in Ids /\ created' = i /\ taskSeq' = taskSeq + 1
    BY <1>1, <1>3, <1>4, CreatingCount DEF IInv, IdsLeft, PutTask, Ids
  <1>6. IdsLeft'
    BY <1>1, <1>3, <1>4, <1>5, CreatingCount DEF IInv, IdsLeft, Creating
  <1>7. t \in Task /\ d \in Dispatch \cup {NoDispatch}
    BY <1>3, <1>5 DEF Task, Dispatch
  <1>8. /\ tasks' = {u \in tasks : ~SameName(t, u)} \cup {t}
        /\ disp' = [disp EXCEPT ![i] = d]
        /\ UNCHANGED <<queues, stop, restarts, posts, outcome>>
    BY DEF PutTask, NextNum
  <1>9. /\ t.id = i /\ t.num = taskSeq + 1 /\ t.queue = req[c]
        /\ d.pc \in {"none", "sleep", "start"}
        /\ d.pc # "none" => d.attempt = 1 /\ d.task = t
    BY DEF NoDispatch
  <1> HIDE DEF t, d, i
  <1>10. TypeOK'
    BY <1>2, <1>3, <1>5, <1>7, <1>8 DEF IInv, TypeOK, Ids
  <1>11. disp'[i] = d /\ \A j \in Ids : j # i => disp'[j] = disp[j]
    BY <1>5, <1>8 DEF IInv, TypeOK
  <1>12. i > created
    BY <1>3 DEF i
  <1>13. Untouched'
    BY <1>3, <1>5, <1>8, <1>11 DEF IInv, Untouched, Ids, i
  <1>14. AttemptsCounted' /\ RetryBudget'
    BY <1>3, <1>5, <1>8, <1>9, <1>11, <1>12 DEF IInv, AttemptsCounted, RetryBudget, Untouched
  <1>15. NamesDrawn'
    <2>1. \A j \in Ids : Running(j) => disp[j].task.num \in Nat
      BY DispatchFields DEF IInv, Running, Dispatch, Task
    <2>2. QED
      BY <1>3, <1>5, <1>9, <1>11, <2>1 DEF IInv, NamesDrawn, Running
  <1>16. DeletesOwnTask'
    <2> SUFFICES ASSUME NEW j \in Ids, NEW u \in tasks', Running(j)', SameName(disp'[j].task, u)
                 PROVE  u.id = j
      BY DEF DeletesOwnTask
    <2>1. CASE j = i
      BY <1>8, <1>9, <1>11, <2>1 DEF Running, SameName
    <2>2. CASE j # i
      <3>1. Running(j) /\ disp[j].task.num \in Nat /\ disp[j].task.num <= taskSeq
        BY <1>11, <2>2, DispatchFields DEF IInv, Running, NamesDrawn, Dispatch, Task
      <3>2. u \in tasks
        BY <1>3, <1>8, <1>9, <1>11, <2>2, <3>1 DEF SameName
      <3>3. QED
        BY <1>11, <2>2, <3>1, <3>2 DEF IInv, DeletesOwnTask
    <2>3. QED
      BY <2>1, <2>2
  <1>17. NobodyPosts'
    BY <1>8, <1>9, <1>11 DEF IInv, NobodyPosts
  <1>18. QED
    BY <1>6, <1>10, <1>13, <1>14, <1>15, <1>16, <1>17 DEF IInv

LEMMA IInvStep == IInv /\ [Next]_vars => IInv'
  <1> SUFFICES ASSUME IInv, [Next]_vars PROVE IInv'
    OBVIOUS
  <1>1. ASSUME queues' \subseteq Queues, tasks' \subseteq tasks,
               UNCHANGED <<taskSeq, req, disp, stop, created, restarts, posts, outcome>>
        PROVE  IInv'
    <2>1. TypeOK' /\ IdsLeft'
      BY <1>1 DEF IInv, TypeOK, IdsLeft
    <2>2. Untouched' /\ AttemptsCounted' /\ RetryBudget' /\ NobodyPosts'
      BY <1>1 DEF IInv, Untouched, AttemptsCounted, RetryBudget, NobodyPosts
    <2>3. NamesDrawn' /\ DeletesOwnTask'
      BY <1>1 DEF IInv, NamesDrawn, DeletesOwnTask, Running
    <2>4. QED
      BY <2>1, <2>2, <2>3 DEF IInv
  <1>2. ASSUME NEW q \in Queues, CreateQueue(q) \/ DeleteQueue(q) PROVE IInv'
    BY <1>1, <1>2 DEF CreateQueue, DeleteQueue, IInv, TypeOK
  <1>3. ASSUME NEW t \in tasks, DeleteTask(t) PROVE IInv'
    BY <1>1, <1>3 DEF DeleteTask, IInv, TypeOK
  <1>4. ASSUME NEW c \in Clients, NEW q \in Queues, CreateTask(c, q) PROVE IInv'
    <2>1. Cardinality(Creating') <= Cardinality(Creating) + 1 /\ Cardinality(Creating') \in Nat
      BY <1>4, CreatingStep DEF IInv, CreateTask
    <2>2. /\ created + Cardinality(Creating) < MaxTasks
          /\ created \in Nat /\ MaxTasks \in Nat /\ created' = created
      BY <1>4, TasksAssumption DEF IInv, TypeOK, CreateTask, Creating
    <2>3. IdsLeft'
      BY <2>1, <2>2, CreatingCount DEF IInv, IdsLeft, Creating
    <2>4. TypeOK' /\ Untouched' /\ AttemptsCounted' /\ RetryBudget' /\ NobodyPosts'
      BY <1>4 DEF CreateTask, IInv, TypeOK, Untouched, AttemptsCounted, RetryBudget, NobodyPosts
    <2>5. NamesDrawn' /\ DeletesOwnTask'
      BY <1>4 DEF CreateTask, IInv, NamesDrawn, DeletesOwnTask, Running
    <2>6. QED
      BY <2>3, <2>4, <2>5 DEF IInv
  <1>5. CASE StopCancel \/ StopReturn
    <2>1. TypeOK' /\ IdsLeft'
      BY <1>5 DEF StopCancel, StopReturn, IInv, TypeOK, IdsLeft
    <2>2. Untouched' /\ AttemptsCounted' /\ RetryBudget'
      BY <1>5 DEF StopCancel, StopReturn, IInv, Untouched, AttemptsCounted, RetryBudget
    <2>3. NamesDrawn' /\ DeletesOwnTask' /\ NobodyPosts'
      BY <1>5 DEF StopCancel, StopReturn, IInv, NamesDrawn, DeletesOwnTask, NobodyPosts, Running
    <2>4. QED
      BY <2>1, <2>2, <2>3 DEF IInv
  <1>6. CASE Restart
    <2>1. TypeOK'
      BY <1>6, TasksAssumption DEF Restart, IInv, TypeOK
    <2>2. IdsLeft'
      <3>1. {c \in Clients : req'[c] # NoQueue} = {} /\ created' = created
        BY <1>6 DEF Restart
      <3>2. created \in 0..MaxTasks /\ MaxTasks \in Nat
        BY TasksAssumption DEF IInv, TypeOK
      <3>3. Cardinality({}) = 0
        BY FS_EmptySet
      <3>4. QED
        BY <3>1, <3>2, <3>3 DEF IdsLeft
    <2>3. Untouched' /\ AttemptsCounted' /\ RetryBudget' /\ NobodyPosts'
      BY <1>6 DEF Restart, IInv, Untouched, AttemptsCounted, RetryBudget, NobodyPosts, NoDispatch
    <2>4. NamesDrawn' /\ DeletesOwnTask'
      BY <1>6 DEF Restart, IInv, NamesDrawn, DeletesOwnTask, Running, NoDispatch
    <2>5. QED
      BY <2>1, <2>2, <2>3, <2>4 DEF IInv
  <1>7. CASE UNCHANGED vars
    BY <1>1, <1>7 DEF vars, IInv, TypeOK
  <1>8. QED
    BY <1>2, <1>3, <1>4, <1>5, <1>6, <1>7, RunStep, PutTaskStep DEF Next

LEMMA Invariance == Spec => []IInv
  BY IInvInit, IInvStep, PTL DEF Spec

(* dispatchHTTP keeps to its budget of attempts, through back-off, Stop and  *)
(* restart, and the state has its shape (TasksInv).                          *)
THEOREM BudgetKept == Spec => []TasksInv
  <1>1. IInv => TasksInv
    BY DEF IInv, TasksInv
  <1>2. QED
    BY Invariance, <1>1, PTL

(* The deferred Delete of dispatchHTTP never meets the task of another       *)
(* dispatch under its name (DeletesOwnTask).                                 *)
THEOREM DispatchDeletesItsOwn == Spec => []DeletesOwnTask
  <1>1. IInv => DeletesOwnTask
    BY DEF IInv
  <1>2. QED
    BY Invariance, <1>1, PTL

(* No request is sent after Stop has returned (NoPostAfterStop). *)
THEOREM SilentAfterStop == Spec => NoPostAfterStop
  <1>1. IInv /\ [Next]_vars => [stop = "returned" /\ stop' = "returned" => posts' = posts]_vars
    <2> SUFFICES ASSUME IInv, Next, stop = "returned" PROVE posts' = posts
      OBVIOUS
    <2>1. \A i \in Ids : \A a \in Answers : ~Answer(i, a)
      BY DEF IInv, NobodyPosts, Answer
    <2>2. QED
      BY <2>1 DEF Next, CreateQueue, DeleteQueue, DeleteTask, CreateTask, PutTask, WakeUp, Run,
            SleepAborted, DispatchHTTP, Attempt, BackoffOver, BackoffAborted, DeleteOnReturn,
            StopCancel, StopReturn, Restart
  <1>2. QED
    BY Invariance, <1>1, PTL DEF Spec, NoPostAfterStop
=============================================================================
