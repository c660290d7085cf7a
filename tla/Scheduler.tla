----------------------------- MODULE Scheduler ------------------------------
(***************************************************************************)
(* Cloud Scheduler: jobs in the state store and, for each, a runner        *)
(* goroutine in the map Service.jobs that fires at the times of the        *)
(* schedule.  A POST stores the job and then replaces the runner; a DELETE *)
(* removes the job and then the runner.                                    *)
(*                                                                         *)
(* A job record is its version (a number per POST: two POSTs of the same   *)
(* name differ in target or schedule) and whether parseSchedule takes its  *)
(* schedule.  When a schedule fires is left open.                          *)
(***************************************************************************)
EXTENDS Integers, Sequences, FiniteSets

CONSTANTS Jobs,           \* job names
          JobClients,     \* goroutines that serve an API call
          MaxPosts,       \* bound on the POSTs
          MaxJobRestarts  \* bound on restarts over the same database

ASSUME SchedulerAssumption ==
    MaxPosts \in Nat /\ MaxJobRestarts \in Nat /\ IsFiniteSet(JobClients)

VARIABLES stored,       \* scheduler/jobs
          jobs,         \* Service.jobs: the runner registered, 0 for none
          runs,         \* the runners started so far, in order
          jobReq,       \* what the API goroutines still have to do
          jobStop,      \* whether Service.Stop was called
          version,      \* POSTs so far
          jobRestarts,  \* restarts so far
          fired,        \* history: versions whose target was called
          raced         \* history: jobs whose runner may be another than the store says

state == <<stored, jobs, runs, jobReq, jobStop, version, jobRestarts, fired>>
schedulerVars == <<state, raced>>

NoJob == [ver |-> 0]
NoReq == [op |-> "none"]

JobResource == [ver : 1..MaxPosts, valid : BOOLEAN]

Runner == [job : Jobs, ver : 1..MaxPosts, cancelled : BOOLEAN,
           pc : {"wait", "fire", "done"}]

Idle(c) == jobReq[c] = NoReq

Hold(c, r) == jobReq' = [jobReq EXCEPT ![c] = r]

-----------------------------------------------------------------------------
PostJob(c, j, valid) ==
    /\ Idle(c)
    /\ version < MaxPosts
    /\ version' = version + 1
    /\ LET res == [ver |-> version + 1, valid |-> valid]
       IN /\ stored' = [stored EXCEPT ![j] = res]
          /\ Hold(c, [op |-> "start", job |-> j, res |-> res])
    /\ UNCHANGED <<jobs, runs, jobStop, jobRestarts, fired>>

(* runs with the context of runner w cancelled; w = 0 is no runner. *)
CancelledIn(rs, w) == [v \in DOMAIN rs |-> IF v = w THEN [rs[v] EXCEPT !.cancelled = TRUE] ELSE rs[v]]

NewRunner(j, res) == [job |-> j, ver |-> res.ver, cancelled |-> FALSE, pc |-> "wait"]

(* Mutant: the runner of the previous version is not cancelled. *)
StartRunnerBeside(c) ==
    /\ jobReq[c].op = "start"
    /\ LET j == jobReq[c].job IN
       \/ ~jobReq[c].res.valid /\ UNCHANGED <<runs, jobs>>
       \/ /\ jobReq[c].res.valid
          /\ runs' = Append(runs, NewRunner(j, jobReq[c].res))
          /\ jobs' = [jobs EXCEPT ![j] = Len(runs) + 1]
    /\ Hold(c, NoReq)
    /\ UNCHANGED <<stored, jobStop, version, jobRestarts, fired>>

(* Mutant: a job that has a runner keeps it. *)
StartRunnerOnce(c) ==
    /\ jobReq[c].op = "start"
    /\ LET j == jobReq[c].job IN
       \/ (~jobReq[c].res.valid \/ jobs[j] # 0) /\ UNCHANGED <<runs, jobs>>
       \/ /\ jobReq[c].res.valid /\ jobs[j] = 0
          /\ runs' = Append(runs, NewRunner(j, jobReq[c].res))
          /\ jobs' = [jobs EXCEPT ![j] = Len(runs) + 1]
    /\ Hold(c, NoReq)
    /\ UNCHANGED <<stored, jobStop, version, jobRestarts, fired>>

(* Mutant: the runner is registered before its schedule is parsed. *)
StartRunnerRegistersFirst(c) ==
    /\ jobReq[c].op = "start"
    /\ LET j == jobReq[c].job
           rest == CancelledIn(runs, jobs[j])
       IN /\ jobs' = [jobs EXCEPT ![j] = Len(runs) + 1]
          /\ runs' = IF jobReq[c].res.valid THEN Append(rest, NewRunner(j, jobReq[c].res)) ELSE rest
    /\ Hold(c, NoReq)
    /\ UNCHANGED <<stored, jobStop, version, jobRestarts, fired>>

(* startRunner: a schedule that does not parse leaves the cancelled runner in *)
(* the map.                                                                   *)
StartRunner(c) ==
    /\ jobReq[c].op = "start"
    /\ LET j == jobReq[c].job
           rest == CancelledIn(runs, jobs[j])
       IN \/ ~jobReq[c].res.valid /\ runs' = rest /\ UNCHANGED jobs
          \/ /\ jobReq[c].res.valid
             /\ runs' = Append(rest, NewRunner(j, jobReq[c].res))
             /\ jobs' = [jobs EXCEPT ![j] = Len(runs) + 1]
    /\ Hold(c, NoReq)
    /\ UNCHANGED <<stored, jobStop, version, jobRestarts, fired>>

DeleteJob(c, j) ==
    /\ Idle(c)
    /\ stored[j] # NoJob
    /\ stored' = [stored EXCEPT ![j] = NoJob]
    /\ Hold(c, [op |-> "stop", job |-> j])
    /\ UNCHANGED <<jobs, runs, jobStop, version, jobRestarts, fired>>

StopRunner(c) ==
    /\ jobReq[c].op = "stop"
    /\ runs' = CancelledIn(runs, jobs[jobReq[c].job])
    /\ jobs' = [jobs EXCEPT ![jobReq[c].job] = 0]
    /\ Hold(c, NoReq)
    /\ UNCHANGED <<stored, jobStop, version, jobRestarts, fired>>

(* /admin/reset deletes the key and knows no runner. *)
ResetJob(j) ==
    /\ stored[j] # NoJob
    /\ stored' = [stored EXCEPT ![j] = NoJob]
    /\ UNCHANGED <<jobs, runs, jobReq, jobStop, version, jobRestarts, fired>>

-----------------------------------------------------------------------------
(* The runner goroutine.  Its context is a child of the service's; a select *)
(* with the timer and the context both ready takes either.                  *)
Cancelled(w) == runs[w].cancelled \/ jobStop

GotoRunner(w, pc) == runs' = [runs EXCEPT ![w].pc = pc]

TimerFires(w) ==
    /\ runs[w].pc = "wait"
    /\ GotoRunner(w, "fire")
    /\ UNCHANGED <<stored, jobs, jobReq, jobStop, version, jobRestarts, fired>>

(* Mutant: only the shutdown of the service ends a runner. *)
RunnerExitOnStop(w) ==
    /\ runs[w].pc = "wait"
    /\ jobStop
    /\ GotoRunner(w, "done")
    /\ UNCHANGED <<stored, jobs, jobReq, jobStop, version, jobRestarts, fired>>

RunnerExit(w) ==
    /\ runs[w].pc = "wait"
    /\ Cancelled(w)
    /\ GotoRunner(w, "done")
    /\ UNCHANGED <<stored, jobs, jobReq, jobStop, version, jobRestarts, fired>>

(* Mutant: the runner ends after its first call. *)
FireOnce(w) ==
    /\ runs[w].pc = "fire"
    /\ fired' = IF jobStop THEN fired ELSE fired \cup {runs[w].ver}
    /\ GotoRunner(w, "done")
    /\ UNCHANGED <<stored, jobs, jobReq, jobStop, version, jobRestarts>>

(* fire uses the service's context: a cancelled job is still called. *)
Fire(w) ==
    /\ runs[w].pc = "fire"
    /\ fired' = IF jobStop THEN fired ELSE fired \cup {runs[w].ver}
    /\ GotoRunner(w, "wait")
    /\ UNCHANGED <<stored, jobs, jobReq, jobStop, version, jobRestarts>>

Stop ==
    /\ ~jobStop
    /\ jobStop' = TRUE
    /\ UNCHANGED <<stored, jobs, runs, jobReq, version, jobRestarts, fired>>

(* A new process over the old database: New starts no runner. *)
RestartScheduler ==
    /\ jobRestarts < MaxJobRestarts
    /\ jobRestarts' = jobRestarts + 1
    /\ jobs' = [j \in Jobs |-> 0]
    /\ runs' = <<>>
    /\ jobReq' = [c \in JobClients |-> NoReq]
    /\ jobStop' = FALSE
    /\ UNCHANGED <<stored, version, fired>>

-----------------------------------------------------------------------------
SchedulerInit ==
    /\ stored = [j \in Jobs |-> NoJob]
    /\ jobs = [j \in Jobs |-> 0]
    /\ runs = <<>>
    /\ jobReq = [c \in JobClients |-> NoReq]
    /\ jobStop = FALSE
    /\ version = 0 /\ jobRestarts = 0
    /\ fired = {} /\ raced = {}

Call(c) ==
    \/ \E j \in Jobs : \/ \E valid \in BOOLEAN : PostJob(c, j, valid)
                       \/ DeleteJob(c, j)
    \/ StartRunner(c)
    \/ StopRunner(c)

RunnerStep(w) == TimerFires(w) \/ RunnerExit(w) \/ Fire(w)

About(c, j) == ~Idle(c) /\ jobReq[c].job = j

(* The jobs two calls in progress are about: both have changed the store, and *)
(* the order in which they get to the runner is open.                         *)
Races ==
    {j \in Jobs : \E c, d \in JobClients : c # d /\ About(c, j) /\ About(d, j)}

(* /admin/reset leaves the runner of a job it deletes, and a restart the jobs *)
(* in the store without one.                                                  *)
SchedulerNext ==
    \/ /\ \/ \E c \in JobClients : Call(c)
          \/ \E w \in DOMAIN runs : RunnerStep(w)
          \/ Stop
       /\ raced' = raced \cup Races'
    \/ \E j \in Jobs : ResetJob(j) /\ raced' = raced \cup {j}
    \/ RestartScheduler /\ raced' = Jobs

SchedulerSpec == SchedulerInit /\ [][SchedulerNext]_schedulerVars

Started(w) == w \in DOMAIN runs

(* Every goroutine runs, timers fire, and a select that finds its context *)
(* done again and again does not always prefer the timer.                 *)
SchedulerFairness ==
    /\ \A c \in JobClients : WF_state(StartRunner(c) \/ StopRunner(c))
    /\ \A w \in 1..MaxPosts : /\ WF_state(Started(w) /\ RunnerStep(w))
                              /\ SF_state(Started(w) /\ RunnerExit(w))

-----------------------------------------------------------------------------
(* Properties. *)

SchedulerTypeOK ==
    /\ stored \in [Jobs -> JobResource \cup {NoJob}]
    /\ runs \in Seq(Runner) /\ Len(runs) <= MaxPosts
    /\ jobs \in [Jobs -> 0..Len(runs)]
    /\ jobReq \in [JobClients -> {NoReq} \cup [op : {"start"}, job : Jobs, res : JobResource]
                                   \cup [op : {"stop"}, job : Jobs]]
    /\ jobStop \in BOOLEAN
    /\ version \in 0..MaxPosts /\ jobRestarts \in 0..MaxJobRestarts
    /\ fired \subseteq 1..version
    /\ raced \subseteq Jobs

(* The runners of j whose context nobody has cancelled. *)
Active(j) == {w \in DOMAIN runs : runs[w].job = j /\ ~runs[w].cancelled}

(* However POSTs and DELETEs of a name overlap, at most one runner of it is   *)
(* active, it is the one stopRunner finds in the map, and it runs (startRunner *)
(* and stopRunner under mu).                                                  *)
OneRunner ==
    \A j \in Jobs : \A w \in Active(j) : w = jobs[j] /\ (jobStop \/ runs[w].pc # "done")

(* The state has its shape and a job one runner, the one the map names       *)
(* (startRunner, stopRunner).                                                *)
SchedulerInv == SchedulerTypeOK /\ OneRunner

(* When no call is in progress, what runs is what is stored: the version in  *)
(* the store if its schedule parses, nothing otherwise, over any series of   *)
(* calls no two of which overlapped (startRunner, stopRunner).               *)
RunnerMatchesStore ==
    (\A c \in JobClients : Idle(c)) /\ ~jobStop =>
        \A j \in Jobs \ raced : {runs[w].ver : w \in Active(j)} =
            IF stored[j] # NoJob /\ stored[j].valid THEN {stored[j].ver} ELSE {}

(* No stored job with a good schedule is without firing for ever: it fires,  *)
(* again and again, unless it is replaced or deleted or the service stops.   *)
JobFires ==
    \A j \in Jobs : \A v \in 1..MaxPosts :
        []<>(\/ stored[j].ver # v \/ ~stored[j].valid \/ jobStop \/ j \in raced
             \/ \E w \in Active(j) : runs[w].ver = v /\ runs[w].pc = "fire")

(* No cancelled runner is there for ever: replacing and deleting jobs leaks  *)
(* no goroutine.                                                             *)
CancelledRunnerEnds ==
    \A w \in 1..MaxPosts :
        []<>(Started(w) /\ runs[w].cancelled => runs[w].pc = "done")
-----------------------------------------------------------------------------
(* The inductive invariant behind SchedulerInv and RunnerMatchesStore. *)

Starting == {c \in JobClients : jobReq[c].op = "start"}

(* Every runner, and every call about to start one, has its own POST. *)
RunnersCounted == Len(runs) + Cardinality(Starting) <= version

(* No runner and no call knows a version that was not posted. *)
VersionsPosted ==
    /\ \A w \in DOMAIN runs : runs[w].ver <= version
    /\ \A c \in Starting : jobReq[c].res.ver <= version

(* An entry of the map is a runner of the job it is filed under. *)
FiledUnderItsJob == \A j \in Jobs : jobs[j] # 0 => runs[jobs[j]].job = j

(* What runs for j is what is stored for j. *)
InStep(j) ==
    IF stored[j] # NoJob /\ stored[j].valid
    THEN jobs[j] \in Active(j) /\ runs[jobs[j]].ver = stored[j].ver
    ELSE Active(j) = {}

(* A job nobody raced for is in step with the store or has one call in      *)
(* progress, which will bring the runner in step with the store as it is.   *)
StepPending ==
    /\ Races \subseteq raced
    /\ \A j \in Jobs \ raced :
          /\ (\A c \in JobClients : ~About(c, j)) => InStep(j)
          /\ \A c \in JobClients : About(c, j) =>
                stored[j] = IF jobReq[c].op = "start" THEN jobReq[c].res ELSE NoJob

SchedulerIInv ==
    /\ SchedulerTypeOK /\ RunnersCounted /\ VersionsPosted /\ OneRunner /\ FiledUnderItsJob
    /\ StepPending
=============================================================================
