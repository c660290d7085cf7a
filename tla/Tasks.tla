------------------------------- MODULE Tasks --------------------------------
(***************************************************************************)
(* Cloud Tasks: queues and tasks in the state store, and one goroutine per *)
(* task with an HTTP target that waits for the schedule time, posts with   *)
(* retries and removes the task (taskCollection, dispatchHTTP).            *)
(*                                                                         *)
(* A stored task is a record; queue and num are its key (the resource name *)
(* .../queues/<queue>/tasks/task-<num>) and id tells creations apart that  *)
(* got the same name.  The goroutine works on its own copy of the task.    *)
(* Durations are left open.  With the BoltDB backend the store survives a  *)
(* restart of the process; the goroutines and taskSeq do not.              *)
(***************************************************************************)
EXTENDS Integers, FiniteSets

CONSTANTS Queues,       \* queue names
          Clients,      \* goroutines that serve an API call
          MaxAttempts,  \* maxAttempts, 5 in the code
          MaxTasks,     \* bound on the tasks ever created
          MaxRestarts   \* bound on restarts over the same database

ASSUME TasksAssumption ==
    /\ MaxAttempts \in Nat \ {0} /\ MaxTasks \in Nat /\ MaxRestarts \in Nat
    /\ IsFiniteSet(Clients)

VARIABLES queues,    \* tasks/queues
          tasks,     \* tasks/tasks
          taskSeq,   \* Service.taskSeq
          req,       \* the queue whose existence a creation has checked
          disp,      \* the goroutine of every creation
          stop,      \* Service.Stop: "no", "waiting" or "returned"
          created,   \* history: creations so far
          restarts,  \* history: restarts so far
          posts,     \* history: requests sent for every creation
          outcome    \* history: how the dispatch of a creation ended

vars == <<queues, tasks, taskSeq, req, disp, stop, created, restarts, posts, outcome>>

Ids == 1..MaxTasks

(* No target, a target without URL, one NewRequest rejects, a usable one. *)
Kinds == {"plain", "nourl", "badurl", "http"}

NoQueue == "none"
NoDispatch == [pc |-> "none"]

Task == [queue : Queues, num : Nat, id : Ids, kind : Kinds]

Dispatch == [task : Task, attempt : Nat,
             pc : {"sleep", "start", "loop", "post", "backoff", "return", "done"}]

Running(i) == disp[i].pc \notin {"none", "done"}

SameName(t, u) == t.queue = u.queue /\ t.num = u.num

-----------------------------------------------------------------------------
(* The API.  /admin/reset deletes the same keys one after the other. *)
CreateQueue(q) ==
    /\ queues' = queues \cup {q}
    /\ UNCHANGED <<tasks, taskSeq, req, disp, stop, created, restarts, posts, outcome>>

(* The tasks of a deleted queue stay, and are dispatched. *)
DeleteQueue(q) ==
    /\ q \in queues
    /\ queues' = queues \ {q}
    /\ UNCHANGED <<tasks, taskSeq, req, disp, stop, created, restarts, posts, outcome>>

DeleteTask(t) ==
    /\ tasks' = tasks \ {t}
    /\ UNCHANGED <<queues, taskSeq, req, disp, stop, created, restarts, posts, outcome>>

CreateTask(c, q) ==
    /\ req[c] = NoQueue
    /\ q \in queues
    /\ created + Cardinality({d \in Clients : req[d] # NoQueue}) < MaxTasks
    /\ req' = [req EXCEPT ![c] = q]
    /\ UNCHANGED <<queues, tasks, taskSeq, disp, stop, created, restarts, posts, outcome>>

(* Mutant: the number of the task is the number of tasks stored. *)
NextNumCounts == Cardinality(tasks) + 1

NextNum == taskSeq + 1

(* The queue is not looked at again: it may be gone by now. *)
PutTask(c, kind, delayed) ==
    /\ req[c] # NoQueue
    /\ LET t == [queue |-> req[c], num |-> NextNum, id |-> created + 1, kind |-> kind]
       IN /\ tasks' = {u \in tasks : ~SameName(t, u)} \cup {t}
          /\ disp' = [disp EXCEPT ![t.id] =
                IF kind = "plain" THEN NoDispatch
                ELSE [task |-> t, attempt |-> 1, pc |-> IF delayed THEN "sleep" ELSE "start"]]
    /\ taskSeq' = taskSeq + 1
    /\ created' = created + 1
    /\ req' = [req EXCEPT ![c] = NoQueue]
    /\ UNCHANGED <<queues, stop, restarts, posts, outcome>>

-----------------------------------------------------------------------------
(* The goroutine of creation i. *)
Goto(i, pc) == disp' = [disp EXCEPT ![i].pc = pc]

WakeUp(i) ==
    /\ disp[i].pc = "sleep"
    /\ Goto(i, "start")
    /\ UNCHANGED <<queues, tasks, taskSeq, req, stop, created, restarts, posts, outcome>>

(* Mutant: sleep does not watch the context. *)
SleepUninterrupted(i) == disp[i].pc = "sleep" /\ FALSE /\ UNCHANGED vars

(* sleep before the schedule time, the service stopping: the task stays. *)
SleepAborted(i) ==
    /\ disp[i].pc = "sleep"
    /\ stop # "no"
    /\ Goto(i, "done")
    /\ UNCHANGED <<queues, tasks, taskSeq, req, stop, created, restarts, posts, outcome>>

(* dispatchHTTP returns before it defers the deletion when there is no URL. *)
DispatchHTTP(i) ==
    /\ disp[i].pc = "start"
    /\ Goto(i, IF disp[i].task.kind = "nourl" THEN "done" ELSE "loop")
    /\ UNCHANGED <<queues, tasks, taskSeq, req, stop, created, restarts, posts, outcome>>

(* The head of the loop: the context check, then NewRequest. *)
Attempt(i) ==
    /\ disp[i].pc = "loop"
    /\ \/ stop # "no" /\ Goto(i, "return") /\ UNCHANGED outcome
       \/ /\ stop = "no" /\ disp[i].task.kind = "badurl"
          /\ Goto(i, "return")
          /\ outcome' = [outcome EXCEPT ![i] = "refused"]
       \/ stop = "no" /\ disp[i].task.kind = "http" /\ Goto(i, "post") /\ UNCHANGED outcome
    /\ UNCHANGED <<queues, tasks, taskSeq, req, stop, created, restarts, posts>>

(* 2xx and 3xx are "ok", other answers below 500 "refused", a transport error *)
(* (a cancelled context among them) and 5xx "retry".                          *)
Answers == {"ok", "refused", "retry"}

(* Mutant: one attempt too many. *)
LastAttemptLate(i) == disp[i].attempt = MaxAttempts + 1

LastAttempt(i) == disp[i].attempt = MaxAttempts

Answer(i, a) ==
    /\ disp[i].pc = "post"
    /\ posts' = [posts EXCEPT ![i] = @ + 1]
    /\ \/ a # "retry" /\ Goto(i, "return") /\ outcome' = [outcome EXCEPT ![i] = a]
       \/ /\ a = "retry" /\ LastAttempt(i)
          /\ Goto(i, "return")
          /\ outcome' = [outcome EXCEPT ![i] = "exhausted"]
       \/ a = "retry" /\ ~LastAttempt(i) /\ Goto(i, "backoff") /\ UNCHANGED outcome
    /\ UNCHANGED <<queues, tasks, taskSeq, req, stop, created, restarts>>

BackoffOver(i) ==
    /\ disp[i].pc = "backoff"
    /\ disp' = [disp EXCEPT ![i].pc = "loop", ![i].attempt = @ + 1]
    /\ UNCHANGED <<queues, tasks, taskSeq, req, stop, created, restarts, posts, outcome>>

BackoffAborted(i) ==
    /\ disp[i].pc = "backoff"
    /\ stop # "no"
    /\ Goto(i, "return")
    /\ UNCHANGED <<queues, tasks, taskSeq, req, stop, created, restarts, posts, outcome>>

(* Mutant: the deferred deletion is missing. *)
DeleteForgotten(i) ==
    /\ disp[i].pc = "return"
    /\ Goto(i, "done")
    /\ UNCHANGED <<queues, tasks, taskSeq, req, stop, created, restarts, posts, outcome>>

(* The deferred deletion, by name. *)
DeleteOnReturn(i) ==
    /\ disp[i].pc = "return"
    /\ tasks' = {u \in tasks : ~SameName(disp[i].task, u)}
    /\ Goto(i, "done")
    /\ UNCHANGED <<queues, taskSeq, req, stop, created, restarts, posts, outcome>>

-----------------------------------------------------------------------------
(* Stop cancels the context and waits for the goroutines. *)
StopCancel ==
    /\ stop = "no"
    /\ stop' = "waiting"
    /\ UNCHANGED <<queues, tasks, taskSeq, req, disp, created, restarts, posts, outcome>>

(* Mutant: Stop does not wait for the goroutines. *)
StopReturnsAtOnce ==
    /\ stop = "waiting"
    /\ stop' = "returned"
    /\ UNCHANGED <<queues, tasks, taskSeq, req, disp, created, restarts, posts, outcome>>

StopReturn ==
    /\ stop = "waiting"
    /\ \A i \in Ids : ~Running(i)
    /\ stop' = "returned"
    /\ UNCHANGED <<queues, tasks, taskSeq, req, disp, created, restarts, posts, outcome>>

(* A new process over the old database, after a shutdown or a crash. *)
Restart ==
    /\ restarts < MaxRestarts
    /\ restarts' = restarts + 1
    /\ taskSeq' = 0
    /\ req' = [c \in Clients |-> NoQueue]
    /\ disp' = [i \in Ids |-> NoDispatch]
    /\ stop' = "no"
    /\ UNCHANGED <<queues, tasks, created, posts, outcome>>

-----------------------------------------------------------------------------
Init ==
    /\ queues = {} /\ tasks = {} /\ taskSeq = 0
    /\ req = [c \in Clients |-> NoQueue]
    /\ disp = [i \in Ids |-> NoDispatch]
    /\ stop = "no"
    /\ created = 0 /\ restarts = 0
    /\ posts = [i \in Ids |-> 0]
    /\ outcome = [i \in Ids |-> "none"]

Run(i) ==
    \/ SleepAborted(i)
    \/ DispatchHTTP(i)
    \/ Attempt(i)
    \/ \E a \in Answers : Answer(i, a)
    \/ BackoffOver(i)
    \/ BackoffAborted(i)
    \/ DeleteOnReturn(i)

Next ==
    \/ \E q \in Queues : CreateQueue(q) \/ DeleteQueue(q)
    \/ \E t \in tasks : DeleteTask(t)
    \/ \E c \in Clients : \/ \E q \in Queues : CreateTask(c, q)
                          \/ \E k \in Kinds, d \in BOOLEAN : PutTask(c, k, d)
    \/ \E i \in Ids : WakeUp(i) \/ Run(i)
    \/ StopCancel \/ StopReturn \/ Restart

Spec == Init /\ [][Next]_vars

(* Every goroutine runs; back-offs end and HTTP calls return in bounded time.  *)
(* A schedule time may be years away: nothing is assumed of WakeUp.            *)
Fairness == (\A i \in Ids : WF_vars(Run(i))) /\ WF_vars(StopReturn)

-----------------------------------------------------------------------------
(* Properties. *)

TypeOK ==
    /\ queues \subseteq Queues
    /\ tasks \subseteq Task
    /\ taskSeq \in Nat
    /\ req \in [Clients -> Queues \cup {NoQueue}]
    /\ disp \in [Ids -> Dispatch \cup {NoDispatch}]
    /\ stop \in {"no", "waiting", "returned"}
    /\ created \in 0..MaxTasks /\ restarts \in 0..MaxRestarts
    /\ posts \in [Ids -> 0..MaxAttempts]
    /\ outcome \in [Ids -> Answers \cup {"none", "exhausted"}]

(* The deferred Delete of dispatchHTTP goes by name: while a dispatch runs,  *)
(* its name is stored for no other task, so it cannot remove one, through    *)
(* concurrent creations, deletions by the API and restarts.                  *)
DeletesOwnTask ==
    \A i \in Ids : \A t \in tasks : Running(i) /\ SameName(disp[i].task, t) => t.id = i

(* dispatchHTTP gives up after exactly maxAttempts requests, and sends no *)
(* other once an answer was final.                                        *)
RetryBudget ==
    /\ \A i \in Ids : outcome[i] = "exhausted" => posts[i] = MaxAttempts
    /\ \A i \in Ids : disp[i].pc \in {"loop", "post", "backoff"} =>
          outcome[i] = "none" /\ posts[i] < MaxAttempts

(* The state has its shape and every dispatch keeps to its budget of attempts *)
(* through back-off, Stop and restart (dispatchHTTP).                         *)
TasksInv == TypeOK /\ RetryBudget

(* Once Stop has returned no request is sent, although the API still accepts *)
(* tasks and starts goroutines for them.                                     *)
NoPostAfterStop ==
    [][stop = "returned" /\ stop' = "returned" => posts' = posts]_vars

(* No task with a usable target stays in the store for ever once its schedule *)
(* time has come: it leaves after an answer or the last attempt, unless the   *)
(* service stops or its goroutine is lost with the process.                   *)
TaskLeaves ==
    \A i \in Ids :
        []<>(\/ ~\E t \in tasks : t.id = i /\ t.kind = "http"
             \/ stop # "no" \/ disp[i].pc \in {"sleep", "none"})

(* Stop does not wait for ever, however far the schedule time of a sleeping  *)
(* goroutine is and wherever in its retries another one is.                  *)
StopReturns == []<>(stop # "waiting")

(* tasks.go:324: "Task deletion happens after success or after exhausting    *)
(* retries": a dispatch that has sent a request, and goes on to delete its    *)
(* task, had a final answer or used its last attempt.                         *)
DeletedOnlyWhenSettled ==
    \A i \in Ids : disp[i].pc = "return" /\ posts[i] > 0 => outcome[i] # "none"
-----------------------------------------------------------------------------
(* The inductive invariant behind TasksInv, DeletesOwnTask and               *)
(* NoPostAfterStop.                                                          *)

(* A creation that has checked its queue still has an id to take. *)
IdsLeft == created + Cardinality({c \in Clients : req[c] # NoQueue}) <= MaxTasks

(* The ids that are not taken have neither a goroutine nor a history. *)
Untouched ==
    \A i \in Ids : i > created => disp[i] = NoDispatch /\ posts[i] = 0 /\ outcome[i] = "none"

(* The loop variable of dispatchHTTP counts the requests sent. *)
AttemptsCounted ==
    \A i \in Ids :
        /\ disp[i].pc \in {"sleep", "start", "loop", "post"} =>
              /\ disp[i].attempt = posts[i] + 1 /\ posts[i] < MaxAttempts
              /\ outcome[i] = "none"
        /\ disp[i].pc = "backoff" =>
              disp[i].attempt = posts[i] /\ posts[i] < MaxAttempts /\ outcome[i] = "none"

(* The name of a running dispatch was drawn in this life of the process. *)
NamesDrawn == \A i \in Ids : Running(i) => disp[i].task.num <= taskSeq

(* Whatever starts after Stop has returned ends at the head of the loop. *)
NobodyPosts == stop = "returned" => \A i \in Ids : disp[i].pc # "post"

IInv ==
    /\ TypeOK /\ IdsLeft /\ Untouched /\ AttemptsCounted /\ RetryBudget
    /\ NamesDrawn /\ DeletesOwnTask /\ NobodyPosts
=============================================================================
