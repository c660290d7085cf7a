--------------------------- MODULE SchedulerProofs --------------------------
(* Proofs about Scheduler, for all values of its constants. *)
EXTENDS Scheduler, SequenceTheorems, FiniteSetTheorems, TLAPS

(* A call in progress carries the job it is about and, when it is to start a *)
(* runner, the resource it has stored.                                       *)
LEMMA CallFields ==
  ASSUME SchedulerTypeOK, NEW c \in JobClients
  PROVE  /\ jobReq[c].op \in {"none", "start", "stop"}
         /\ Idle(c) <=> jobReq[c].op = "none"
         /\ ~Idle(c) => jobReq[c].job \in Jobs
         /\ jobReq[c].op = "start" => jobReq[c].res \in JobResource
  <1>1. jobReq[c] \in {NoReq} \cup [op : {"start"}, job : Jobs, res : JobResource]
                           \cup [op : {"stop"}, job : Jobs]
    BY DEF SchedulerTypeOK
  <1>2. CASE jobReq[c] = NoReq
    BY <1>2 DEF Idle, NoReq
  <1>3. CASE jobReq[c] \in [op : {"start"}, job : Jobs, res : JobResource]
    BY <1>3 DEF Idle, NoReq
  <1>4. CASE jobReq[c] \in [op : {"stop"}, job : Jobs]
    BY <1>4 DEF Idle, NoReq
  <1>5. QED
    BY <1>1, <1>2, <1>3, <1>4

(* Runners are numbered from 1; the versions are numbers. *)
LEMMA RunnerFields ==
  ASSUME SchedulerTypeOK
  PROVE  /\ Len(runs) \in Nat /\ DOMAIN runs = 1..Len(runs)
         /\ \A w \in DOMAIN runs : runs[w] \in Runner /\ runs[w].ver \in Nat
         /\ version \in Nat /\ MaxPosts \in Nat /\ version <= MaxPosts
         /\ \A j \in Jobs : jobs[j] \in 0..Len(runs)
  <1>1. runs \in Seq(Runner) /\ Len(runs) \in Nat /\ DOMAIN runs = 1..Len(runs)
    BY DEF SchedulerTypeOK
  <1>2. \A w \in DOMAIN runs : runs[w] \in Runner
    BY <1>1
  <1>3. QED
    BY <1>1, <1>2, SchedulerAssumption DEF SchedulerTypeOK, Runner

(* Cancelling touches one context and nothing else (CancelledIn). *)
LEMMA CancelledInFields ==
  ASSUME NEW rs \in Seq(Runner), NEW w
  PROVE  /\ CancelledIn(rs, w) \in Seq(Runner)
         /\ Len(CancelledIn(rs, w)) = Len(rs)
         /\ DOMAIN CancelledIn(rs, w) = DOMAIN rs
         /\ \A v \in DOMAIN rs :
               LET r == CancelledIn(rs, w)[v]
               IN /\ r.job = rs[v].job /\ r.ver = rs[v].ver /\ r.pc = rs[v].pc
                  /\ r.cancelled <=> (v = w \/ rs[v].cancelled)
  <1> DEFINE up(v) == [rs[v] EXCEPT !.cancelled = TRUE]
             cs == CancelledIn(rs, w)
  <1>1. DOMAIN rs = 1..Len(rs) /\ Len(rs) \in Nat /\ \A v \in 1..Len(rs) : rs[v] \in Runner
    OBVIOUS
  <1>2. \A v \in 1..Len(rs) : /\ up(v) \in Runner /\ up(v).cancelled = TRUE
                              /\ up(v).job = rs[v].job /\ up(v).ver = rs[v].ver /\ up(v).pc = rs[v].pc
    BY <1>1 DEF Runner
  <1>3. cs = [v \in 1..Len(rs) |-> IF v = w THEN up(v) ELSE rs[v]]
    BY <1>1 DEF CancelledIn
  <1> HIDE DEF up, cs
  <1>4. cs \in [1..Len(rs) -> Runner]
    BY <1>1, <1>2, <1>3
  <1>5. cs \in Seq(Runner) /\ Len(cs) = Len(rs) /\ DOMAIN cs = 1..Len(rs)
    BY <1>1, <1>4
  <1>6. \A v \in 1..Len(rs) : rs[v].cancelled \in BOOLEAN
    BY <1>1 DEF Runner
  <1>7. \A v \in 1..Len(rs) : /\ cs[v].job = rs[v].job /\ cs[v].ver = rs[v].ver /\ cs[v].pc = rs[v].pc
                              /\ v = w => cs[v].cancelled = TRUE
                              /\ v # w => cs[v].cancelled = rs[v].cancelled
    BY <1>2, <1>3
  <1>8. QED
    BY <1>1, <1>5, <1>6, <1>7 DEF cs

LEMMA StartingCount ==
  IsFiniteSet(Starting) /\ Cardinality(Starting) \in Nat
  BY SchedulerAssumption, FS_Subset, FS_CardinalityType DEF Starting

(* A call that is about to start a runner is counted while it is. *)
LEMMA StartingStep ==
  ASSUME SchedulerTypeOK, NEW c \in JobClients, NEW r, Hold(c, r)
  PROVE  /\ r.op = "start" => Cardinality(Starting') <= Cardinality(Starting) + 1
         /\ r.op # "start" => Cardinality(Starting') <= Cardinality(Starting)
         /\ r.op # "start" /\ jobReq[c].op = "start" => Cardinality(Starting') = Cardinality(Starting) - 1
         /\ Cardinality(Starting') \in Nat
  <1>0. IsFiniteSet(Starting) /\ Cardinality(Starting) \in Nat
    BY StartingCount
  <1>1. jobReq' = [jobReq EXCEPT ![c] = r] /\ DOMAIN jobReq = JobClients
    BY DEF Hold, SchedulerTypeOK
  <1>2. CASE r.op = "start"
    <2>1. Starting' = Starting \cup {c}
      BY <1>1, <1>2 DEF Starting
    <2>2. Cardinality(Starting \cup {c}) =
             IF c \in Starting THEN Cardinality(Starting) ELSE Cardinality(Starting) + 1
      BY <1>0, FS_AddElement
    <2>3. QED
      BY <1>0, <1>2, <2>1, <2>2
  <1>3. CASE r.op # "start"
    <2>1. Starting' = Starting \ {c} /\ (c \in Starting <=> jobReq[c].op = "start")
      BY <1>1, <1>3 DEF Starting
    <2>2. /\ IsFiniteSet(Starting \ {c})
          /\ Cardinality(Starting \ {c}) =
                IF c \in Starting THEN Cardinality(Starting) - 1 ELSE Cardinality(Starting)
      BY <1>0, FS_RemoveElement
    <2>3. Cardinality(Starting \ {c}) \in Nat
      BY <2>2, FS_CardinalityType
    <2>4. QED
      BY <1>0, <1>3, <2>1, <2>2, <2>3
  <1>4. QED
    BY <1>2, <1>3

-----------------------------------------------------------------------------
LEMMA IInvInit == SchedulerInit => SchedulerIInv
  <1> SUFFICES ASSUME SchedulerInit PROVE SchedulerIInv
    OBVIOUS
  <1>0. runs = <<>> /\ Len(runs) = 0 /\ DOMAIN runs = {} /\ runs \in Seq(Runner)
    BY DEF SchedulerInit
  <1>1. SchedulerTypeOK
    <2>1. MaxPosts \in Nat /\ MaxJobRestarts \in Nat
      BY SchedulerAssumption
    <2>2. jobs \in [Jobs -> 0..Len(runs)] /\ fired \subseteq 1..version
      BY <1>0 DEF SchedulerInit
    <2>3. stored \in [Jobs -> JobResource \cup {NoJob}] /\ jobStop \in BOOLEAN /\ raced \subseteq Jobs
      BY DEF SchedulerInit
    <2>4. version \in 0..MaxPosts /\ jobRestarts \in 0..MaxJobRestarts /\ Len(runs) <= MaxPosts
      BY <1>0, <2>1 DEF SchedulerInit
    <2>5. jobReq \in [JobClients -> {NoReq} \cup [op : {"start"}, job : Jobs, res : JobResource]
                                      \cup [op : {"stop"}, job : Jobs]]
      BY DEF SchedulerInit
    <2>6. QED
      BY <1>0, <2>2, <2>3, <2>4, <2>5 DEF SchedulerTypeOK
  <1>2. Starting = {}
    BY DEF SchedulerInit, Starting, NoReq
  <1>3. RunnersCounted
    BY <1>0, <1>2, FS_EmptySet DEF SchedulerInit, RunnersCounted
  <1>4. VersionsPosted /\ OneRunner /\ FiledUnderItsJob
    BY <1>0, <1>2 DEF SchedulerInit, VersionsPosted, OneRunner, FiledUnderItsJob, Active
  <1>5. \A c \in JobClients, j \in Jobs : ~About(c, j)
    BY DEF SchedulerInit, About, Idle
  <1>6. StepPending
    BY <1>0, <1>5 DEF SchedulerInit, StepPending, Races, InStep, Active, NoJob
  <1>7. QED
    BY <1>1, <1>3, <1>4, <1>6 DEF SchedulerIInv

(* The runners as far as the map and the store are concerned. *)
SameRunners ==
    /\ Len(runs') = Len(runs) /\ DOMAIN runs' = DOMAIN runs
    /\ \A w \in DOMAIN runs : /\ runs'[w].job = runs[w].job /\ runs'[w].ver = runs[w].ver
                              /\ runs'[w].cancelled = runs[w].cancelled

(* A step that starts, cancels and files no runner and leaves the store and  *)
(* the calls alone.                                                          *)
LEMMA QuietStep ==
  ASSUME SchedulerIInv, SchedulerTypeOK', SameRunners, UNCHANGED <<stored, jobs, jobReq, version>>,
         raced \subseteq raced', Races' \subseteq raced',
         \A w \in DOMAIN runs : /\ runs'[w].pc = "done" => runs[w].pc = "done" \/ runs[w].cancelled \/ jobStop
                                /\ jobStop => jobStop'
  PROVE  SchedulerIInv'
  <1>1. RunnersCounted'
    BY DEF SchedulerIInv, SameRunners, RunnersCounted, Starting
  <1>2. VersionsPosted'
    BY DEF SchedulerIInv, SameRunners, VersionsPosted, Starting
  <1>3. \A j \in Jobs : Active(j)' = Active(j)
    BY DEF Active, SameRunners
  <1>4. OneRunner'
    BY <1>3 DEF SchedulerIInv, OneRunner, Active
  <1>5. \A j \in Jobs : jobs[j] # 0 => jobs[j] \in DOMAIN runs
    BY RunnerFields DEF SchedulerIInv
  <1>6. FiledUnderItsJob'
    BY <1>5 DEF SchedulerIInv, FiledUnderItsJob, SameRunners
  <1>7. \A j \in Jobs : InStep(j) => InStep(j)'
    BY <1>3 DEF InStep, SameRunners, Active
  <1>8. StepPending'
    BY <1>7 DEF SchedulerIInv, StepPending, About, Idle
  <1>9. QED
    BY <1>1, <1>2, <1>4, <1>6, <1>8 DEF SchedulerIInv

(* A runner that moves on keeps everything but its place in the loop. *)
LEMMA GotoFields ==
  ASSUME SchedulerTypeOK, NEW w \in DOMAIN runs, NEW pc \in {"wait", "fire", "done"}, GotoRunner(w, pc)
  PROVE  /\ runs' \in Seq(Runner) /\ SameRunners
         /\ runs'[w].pc = pc /\ \A v \in DOMAIN runs : v # w => runs'[v].pc = runs[v].pc
  <1> DEFINE r == [runs[w] EXCEPT !.pc = pc]
  <1>1. runs[w] \in Runner /\ runs \in Seq(Runner)
    BY RunnerFields DEF SchedulerTypeOK
  <1>2. /\ r \in Runner /\ r.pc = pc /\ r.job = runs[w].job /\ r.ver = runs[w].ver
        /\ r.cancelled = runs[w].cancelled
    BY <1>1 DEF Runner
  <1>3. runs' = [runs EXCEPT ![w] = r]
    BY DEF GotoRunner
  <1> HIDE DEF r
  <1>4. QED
    BY <1>1, <1>2, <1>3 DEF SameRunners

LEMMA RunStep ==
  ASSUME SchedulerIInv, NEW w \in DOMAIN runs, RunnerStep(w), raced' = raced \cup Races'
  PROVE  SchedulerIInv'
  <1>0. SchedulerTypeOK /\ raced' \subseteq Jobs
    BY DEF SchedulerIInv, Races, SchedulerTypeOK
  <1>1. CASE TimerFires(w)
    <2>1. runs' \in Seq(Runner) /\ SameRunners /\ \A v \in DOMAIN runs : runs'[v].pc = "done" => runs[v].pc = "done"
      BY <1>0, <1>1, GotoFields DEF TimerFires
    <2>2. SchedulerTypeOK'
      BY <1>0, <1>1, <2>1 DEF TimerFires, SchedulerTypeOK, SameRunners
    <2>3. QED
      BY <1>1, <2>1, <2>2, QuietStep DEF TimerFires
  <1>2. CASE RunnerExit(w)
    <2>1. runs' \in Seq(Runner) /\ SameRunners /\ \A v \in DOMAIN runs : v # w => runs'[v].pc = runs[v].pc
      BY <1>0, <1>2, GotoFields DEF RunnerExit
    <2>2. SchedulerTypeOK'
      BY <1>0, <1>2, <2>1 DEF RunnerExit, SchedulerTypeOK, SameRunners
    <2>3. QED
      BY <1>2, <2>1, <2>2, QuietStep DEF RunnerExit, Cancelled
  <1>3. CASE Fire(w)
    <2>1. runs' \in Seq(Runner) /\ SameRunners /\ \A v \in DOMAIN runs : runs'[v].pc = "done" => runs[v].pc = "done"
      BY <1>0, <1>3, GotoFields DEF Fire
    <2>2. runs[w].ver \in 1..version
      BY <1>0, RunnerFields DEF SchedulerIInv, VersionsPosted, Runner
    <2>3. SchedulerTypeOK'
      BY <1>0, <1>3, <2>1, <2>2 DEF Fire, SchedulerTypeOK, SameRunners
    <2>4. QED
      BY <1>3, <2>1, <2>3, QuietStep DEF Fire
  <1>4. QED
    BY <1>1, <1>2, <1>3 DEF RunnerStep

-----------------------------------------------------------------------------
(* A call that has stored a job, or removed one, and is to see to the runner. *)
LEMMA CallBegins ==
  ASSUME SchedulerIInv, SchedulerTypeOK', NEW c \in JobClients, Idle(c), NEW j \in Jobs, NEW r, Hold(c, r),
         r.op \in {"start", "stop"}, r.job = j,
         NEW s, stored' = [stored EXCEPT ![j] = s],
         s = IF r.op = "start" THEN r.res ELSE NoJob,
         UNCHANGED <<jobs, runs, jobStop>>, raced' = raced \cup Races'
  PROVE  OneRunner' /\ FiledUnderItsJob' /\ StepPending'
  <1>1. OneRunner' /\ FiledUnderItsJob'
    BY DEF SchedulerIInv, OneRunner, FiledUnderItsJob, Active
  <1>2. jobReq'[c] = r /\ \A d \in JobClients : d # c => jobReq'[d] = jobReq[d]
    BY DEF Hold, SchedulerIInv, SchedulerTypeOK
  <1>3. stored'[j] = s /\ \A k \in Jobs : k # j => stored'[k] = stored[k]
    BY DEF SchedulerIInv, SchedulerTypeOK
  <1>4. About(c, j)'
    BY <1>2 DEF About, Idle, NoReq
  <1>5. \A d \in JobClients : d # c => (About(d, j)' <=> About(d, j))
    BY <1>2 DEF About, Idle
  <1>6. \A k \in Jobs : k # j => \A d \in JobClients : About(d, k)' <=> About(d, k)
    BY <1>2 DEF About, Idle, NoReq
  <1>7. Races' \subseteq raced' /\ raced \subseteq raced'
    OBVIOUS
  <1>8. ASSUME NEW k \in Jobs, k \notin raced'
        PROVE  /\ (\A d \in JobClients : ~About(d, k)') => InStep(k)'
               /\ \A d \in JobClients : About(d, k)' =>
                     stored'[k] = IF jobReq'[d].op = "start" THEN jobReq'[d].res ELSE NoJob
    <2>1. CASE k = j
      <3>1. \A d \in JobClients : About(d, k)' => d = c
        BY <1>4, <1>7, <1>8, <2>1 DEF Races
      <3>2. QED
        BY <1>2, <1>3, <1>4, <2>1, <3>1
    <2>2. CASE k # j
      <3>1. InStep(k)' <=> InStep(k)
        BY <1>3, <2>2 DEF InStep, Active
      <3>2. k \notin raced
        BY <1>7, <1>8
      <3>3. \A d \in JobClients : About(d, k)' => jobReq'[d] = jobReq[d]
        BY <1>2, <1>6, <2>2 DEF About
      <3>4. QED
        BY <1>3, <1>6, <2>2, <3>1, <3>2, <3>3 DEF SchedulerIInv, StepPending
    <2>3. QED
      BY <2>1, <2>2
  <1>9. QED
    BY <1>1, <1>7, <1>8 DEF StepPending

LEMMA PostJobStep ==
  ASSUME SchedulerIInv, NEW c \in JobClients, NEW j \in Jobs, NEW valid \in BOOLEAN,
         PostJob(c, j, valid), raced' = raced \cup Races'
  PROVE  SchedulerIInv'
  <1> DEFINE res == [ver |-> version + 1, valid |-> valid]
             r == [op |-> "start", job |-> j, res |-> res]
  <1>1. /\ version \in Nat /\ MaxPosts \in Nat /\ version < MaxPosts /\ version' = version + 1
        /\ Len(runs) \in Nat /\ SchedulerTypeOK
    BY RunnerFields DEF SchedulerIInv, PostJob
  <1>2. res \in JobResource
    BY <1>1 DEF JobResource
  <1>3. /\ stored' = [stored EXCEPT ![j] = res] /\ Hold(c, r) /\ Idle(c)
        /\ UNCHANGED <<jobs, runs, jobStop, jobRestarts, fired>>
    BY DEF PostJob
  <1>4. r \in [op : {"start"}, job : Jobs, res : JobResource]
    BY <1>2
  <1>5. r.op = "start" /\ r.job = j /\ r.res = res /\ res.ver = version + 1
    OBVIOUS
  <1> HIDE DEF res, r
  <1>6. SchedulerTypeOK'
    <2>1. raced' \subseteq Jobs /\ fired' \subseteq 1..version'
      BY <1>1, <1>3 DEF Races, SchedulerTypeOK
    <2>2. stored' \in [Jobs -> JobResource \cup {NoJob}]
      BY <1>1, <1>2, <1>3 DEF SchedulerTypeOK
    <2>3. jobReq' \in [JobClients -> {NoReq} \cup [op : {"start"}, job : Jobs, res : JobResource]
                                       \cup [op : {"stop"}, job : Jobs]]
      BY <1>1, <1>3, <1>4 DEF SchedulerTypeOK, Hold
    <2>4. QED
      BY <1>1, <1>3, <2>1, <2>2, <2>3 DEF SchedulerTypeOK
  <1>7. RunnersCounted'
    <2>1. Cardinality(Starting') <= Cardinality(Starting) + 1 /\ Cardinality(Starting') \in Nat
      BY <1>1, <1>3, <1>5, StartingStep
    <2>2. QED
      BY <1>1, <1>3, <2>1, StartingCount DEF SchedulerIInv, RunnersCounted
  <1>8. VersionsPosted'
    <2>1. \A w \in DOMAIN runs : runs[w].ver \in Nat
      BY <1>1, RunnerFields
    <2>2. \A d \in Starting : jobReq[d].res.ver \in Nat
      BY <1>1, CallFields DEF Starting, JobResource
    <2>3. \A d \in Starting' : d # c => d \in Starting /\ jobReq'[d] = jobReq[d]
      BY <1>1, <1>3 DEF Starting, Hold, SchedulerTypeOK
    <2>4. jobReq'[c] = r
      BY <1>1, <1>3 DEF Hold, SchedulerTypeOK
    <2>5. QED
      BY <1>1, <1>3, <1>5, <2>1, <2>2, <2>3, <2>4 DEF SchedulerIInv, VersionsPosted
  <1>9. OneRunner' /\ FiledUnderItsJob' /\ StepPending'
    BY <1>3, <1>5, <1>6, CallBegins
  <1>10. QED
    BY <1>6, <1>7, <1>8, <1>9 DEF SchedulerIInv

LEMMA DeleteJobStep ==
  ASSUME SchedulerIInv, NEW c \in JobClients, NEW j \in Jobs, DeleteJob(c, j), raced' = raced \cup Races'
  PROVE  SchedulerIInv'
  <1> DEFINE r == [op |-> "stop", job |-> j]
  <1>1. /\ stored' = [stored EXCEPT ![j] = NoJob] /\ Hold(c, r) /\ Idle(c) /\ SchedulerTypeOK
        /\ UNCHANGED <<jobs, runs, jobStop, version, jobRestarts, fired>>
    BY DEF DeleteJob, SchedulerIInv
  <1>2. r \in [op : {"stop"}, job : Jobs] /\ r.op = "stop" /\ r.job = j
    OBVIOUS
  <1> HIDE DEF r
  <1>3. SchedulerTypeOK'
    <2>1. raced' \subseteq Jobs
      BY <1>1 DEF Races, SchedulerTypeOK
    <2>2. QED
      BY <1>1, <1>2, <2>1 DEF SchedulerTypeOK, Hold
  <1>4. RunnersCounted'
    <2>1. Cardinality(Starting') <= Cardinality(Starting) /\ Cardinality(Starting') \in Nat
      BY <1>1, <1>2, StartingStep
    <2>2. QED
      BY <1>1, <2>1, StartingCount, RunnerFields DEF SchedulerIInv, RunnersCounted
  <1>5. VersionsPosted'
    BY <1>1, <1>2 DEF SchedulerIInv, VersionsPosted, Starting, Hold, SchedulerTypeOK
  <1>6. OneRunner' /\ FiledUnderItsJob' /\ StepPending'
    BY <1>1, <1>2, <1>3, CallBegins
  <1>7. QED
    BY <1>3, <1>4, <1>5, <1>6 DEF SchedulerIInv

-----------------------------------------------------------------------------
(* A call that has cancelled the runner the map named for its job and has    *)
(* either registered a new one or left none that is active.                  *)
LEMMA CallEnds ==
  ASSUME SchedulerIInv, NEW c \in JobClients, ~Idle(c), NEW j \in Jobs, jobReq[c].job = j, Hold(c, NoReq),
         UNCHANGED <<stored, jobStop>>, raced' = raced \cup Races',
         DOMAIN runs \subseteq DOMAIN runs', DOMAIN runs' \subseteq Int,
         \A v \in DOMAIN runs :
            /\ runs'[v].job = runs[v].job /\ runs'[v].ver = runs[v].ver /\ runs'[v].pc = runs[v].pc
            /\ runs'[v].cancelled <=> (v = jobs[j] \/ runs[v].cancelled),
         NEW n \in Int, n \notin DOMAIN runs,
         \/ /\ DOMAIN runs' = DOMAIN runs /\ jobs'[j] \in {0, jobs[j]}
            /\ ~(jobReq[c].op = "start" /\ jobReq[c].res.valid)
         \/ /\ DOMAIN runs' = DOMAIN runs \cup {n} /\ jobs'[j] = n
            /\ runs'[n] = NewRunner(j, jobReq[c].res)
            /\ jobReq[c].op = "start" /\ jobReq[c].res.valid,
         \A k \in Jobs : k # j => jobs'[k] = jobs[k]
  PROVE  OneRunner' /\ FiledUnderItsJob' /\ StepPending'
  <1>0. /\ DOMAIN runs = 1..Len(runs) /\ Len(runs) \in Nat /\ \A k \in Jobs : jobs[k] \in 0..Len(runs)
        /\ SchedulerTypeOK
    BY RunnerFields DEF SchedulerIInv
  <1>1. \A k \in Jobs : k # j => Active(k)' = Active(k)
    <2> SUFFICES ASSUME NEW k \in Jobs, k # j PROVE Active(k)' = Active(k)
      OBVIOUS
    <2>1. \A v \in DOMAIN runs : runs[v].job = k => v # jobs[j]
      BY <1>0 DEF SchedulerIInv, FiledUnderItsJob
    <2>2. \A v \in DOMAIN runs' : v \notin DOMAIN runs => runs'[v].job = j
      BY DEF NewRunner
    <2>3. QED
      BY <2>1, <2>2 DEF Active
  <1>2. \A v \in Active(j)' : v = n /\ DOMAIN runs' = DOMAIN runs \cup {n}
    <2>1. \A v \in DOMAIN runs : runs[v].job = j => v = jobs[j] \/ runs[v].cancelled
      BY DEF SchedulerIInv, OneRunner, Active
    <2>2. QED
      BY <2>1 DEF Active
  <1>3. DOMAIN runs' = DOMAIN runs \cup {n} =>
          /\ Active(j)' = {n} /\ jobs'[j] = n /\ runs'[n].pc = "wait" /\ runs'[n].ver = jobReq[c].res.ver
          /\ runs'[n].job = j
    BY <1>2 DEF Active, NewRunner
  <1>4. OneRunner'
    <2>1. \A k \in Jobs : k # j => \A w \in Active(k)' : w = jobs'[k] /\ (jobStop' \/ runs'[w].pc # "done")
      BY <1>1 DEF SchedulerIInv, OneRunner, Active
    <2>2. \A w \in Active(j)' : w = jobs'[j] /\ runs'[w].pc # "done"
      BY <1>2, <1>3
    <2>3. QED
      BY <2>1, <2>2 DEF OneRunner
  <1>5. FiledUnderItsJob'
    <2>1. \A k \in Jobs : k # j => (jobs'[k] # 0 => runs'[jobs'[k]].job = k)
      BY <1>0 DEF SchedulerIInv, FiledUnderItsJob
    <2>2. jobs'[j] # 0 => runs'[jobs'[j]].job = j
      BY <1>0, <1>3 DEF SchedulerIInv, FiledUnderItsJob
    <2>3. QED
      BY <2>1, <2>2 DEF FiledUnderItsJob
  <1>6. jobReq'[c] = NoReq /\ \A d \in JobClients : d # c => jobReq'[d] = jobReq[d]
    BY <1>0 DEF Hold, SchedulerTypeOK
  <1>7. \A d \in JobClients, k \in Jobs : About(d, k)' <=> d # c /\ About(d, k)
    BY <1>6 DEF About, Idle
  <1>8. Races' \subseteq raced' /\ raced \subseteq raced' /\ About(c, j)
    BY DEF About
  <1>9. ASSUME NEW k \in Jobs, k \notin raced'
        PROVE  /\ (\A d \in JobClients : ~About(d, k)') => InStep(k)'
               /\ \A d \in JobClients : About(d, k)' =>
                     stored'[k] = IF jobReq'[d].op = "start" THEN jobReq'[d].res ELSE NoJob
    <2>1. k \notin raced /\ k \notin Races
      BY <1>8, <1>9 DEF SchedulerIInv, StepPending
    <2>2. CASE k = j
      <3>1. \A d \in JobClients : ~About(d, k)'
        BY <1>7, <1>8, <2>1, <2>2 DEF Races
      <3>2. stored[j] = IF jobReq[c].op = "start" THEN jobReq[c].res ELSE NoJob
        BY <1>8, <2>1, <2>2 DEF SchedulerIInv, StepPending
      <3>3. jobReq[c].op = "start" => jobReq[c].res # NoJob
        BY <1>0, CallFields DEF JobResource, NoJob
      <3>4. CASE DOMAIN runs' = DOMAIN runs \cup {n}
        <4>1. jobReq[c].op = "start" /\ jobReq[c].res.valid
          BY <3>4
        <4>2. QED
          BY <1>3, <2>2, <3>1, <3>2, <3>3, <3>4, <4>1 DEF InStep
      <3>5. CASE DOMAIN runs' # DOMAIN runs \cup {n}
        <4>1. ~(jobReq[c].op = "start" /\ jobReq[c].res.valid)
          BY <3>5
        <4>2. Active(j)' = {}
          BY <1>2, <3>5
        <4>3. QED
          BY <2>2, <3>1, <3>2, <4>1, <4>2 DEF InStep, NoJob
      <3>6. QED
        BY <3>4, <3>5
    <2>3. CASE k # j
      <3>1. \A d \in JobClients : About(d, k)' <=> About(d, k)
        BY <1>7, <2>3 DEF About
      <3>2. InStep(k) => InStep(k)'
        BY <1>1, <2>3 DEF InStep, Active
      <3>3. QED
        BY <1>6, <1>7, <2>1, <3>1, <3>2 DEF SchedulerIInv, StepPending
    <2>4. QED
      BY <2>2, <2>3
  <1>10. QED
    BY <1>4, <1>5, <1>8, <1>9 DEF StepPending

LEMMA StopRunnerStep ==
  ASSUME SchedulerIInv, NEW c \in JobClients, StopRunner(c), raced' = raced \cup Races'
  PROVE  SchedulerIInv'
  <1> DEFINE j == jobReq[c].job
  <1>1. SchedulerTypeOK /\ jobReq[c].op = "stop" /\ ~Idle(c) /\ j \in Jobs
    BY CallFields DEF SchedulerIInv, StopRunner
  <1>2. /\ runs' = CancelledIn(runs, jobs[j]) /\ jobs' = [jobs EXCEPT ![j] = 0]
        /\ Hold(c, NoReq) /\ UNCHANGED <<stored, jobStop, version, jobRestarts, fired>>
    BY DEF StopRunner
  <1>3. runs \in Seq(Runner) /\ DOMAIN runs = 1..Len(runs) /\ Len(runs) \in Nat
    BY <1>1, RunnerFields DEF SchedulerTypeOK
  <1>4. /\ runs' \in Seq(Runner) /\ Len(runs') = Len(runs) /\ DOMAIN runs' = DOMAIN runs
        /\ \A v \in DOMAIN runs :
              /\ runs'[v].job = runs[v].job /\ runs'[v].ver = runs[v].ver /\ runs'[v].pc = runs[v].pc
              /\ runs'[v].cancelled <=> (v = jobs[j] \/ runs[v].cancelled)
    BY <1>2, <1>3, CancelledInFields, SMTT(30)
  <1>5. jobs'[j] = 0 /\ \A k \in Jobs : k # j => jobs'[k] = jobs[k]
    BY <1>1, <1>2 DEF SchedulerTypeOK
  <1>6. SchedulerTypeOK'
    <2>1. raced' \subseteq Jobs
      BY <1>1 DEF Races, SchedulerTypeOK
    <2>2. QED
      BY <1>1, <1>2, <1>3, <1>4, <2>1, SMTT(30) DEF SchedulerTypeOK, Hold
  <1>7. RunnersCounted'
    <2>1. Cardinality(Starting') <= Cardinality(Starting) /\ Cardinality(Starting') \in Nat
      BY <1>1, <1>2, StartingStep DEF NoReq
    <2>2. QED
      BY <1>1, <1>2, <1>4, <2>1, StartingCount, RunnerFields, SMTT(90) DEF SchedulerIInv, RunnersCounted
  <1>8. VersionsPosted'
    BY <1>1, <1>2, <1>4 DEF SchedulerIInv, VersionsPosted, Starting, Hold, SchedulerTypeOK, NoReq
  <1> HIDE DEF j
  <1>9. 0 \in Int /\ 0 \notin DOMAIN runs /\ DOMAIN runs' \subseteq Int
    BY <1>3, <1>4
  <1>10. OneRunner' /\ FiledUnderItsJob' /\ StepPending'
    BY <1>1, <1>2, <1>4, <1>5, <1>9, CallEnds DEF j
  <1>11. QED
    BY <1>6, <1>7, <1>8, <1>10 DEF SchedulerIInv

LEMMA StartRunnerStep ==
  ASSUME SchedulerIInv, NEW c \in JobClients, StartRunner(c), raced' = raced \cup Races'
  PROVE  SchedulerIInv'
  <1> DEFINE j == jobReq[c].job
             n == Len(runs) + 1
             rest == CancelledIn(runs, jobs[j])
             new == NewRunner(j, jobReq[c].res)
             valid == jobReq[c].res.valid
  <1>1. SchedulerTypeOK /\ jobReq[c].op = "start" /\ ~Idle(c) /\ j \in Jobs /\ jobReq[c].res \in JobResource
    BY CallFields DEF SchedulerIInv, StartRunner
  <1>2. /\ Hold(c, NoReq) /\ UNCHANGED <<stored, jobStop, version, jobRestarts, fired>>
        /\ \/ ~valid /\ runs' = rest /\ jobs' = jobs
           \/ valid /\ runs' = Append(rest, new) /\ jobs' = [jobs EXCEPT ![j] = n]
    BY DEF StartRunner
  <1>3. runs \in Seq(Runner) /\ DOMAIN runs = 1..Len(runs) /\ Len(runs) \in Nat
    BY <1>1, RunnerFields DEF SchedulerTypeOK
  <1>4. /\ rest \in Seq(Runner) /\ Len(rest) = Len(runs) /\ DOMAIN rest = DOMAIN runs
        /\ \A v \in DOMAIN runs :
              /\ rest[v].job = runs[v].job /\ rest[v].ver = runs[v].ver /\ rest[v].pc = runs[v].pc
              /\ rest[v].cancelled <=> (v = jobs[j] \/ runs[v].cancelled)
    BY <1>3, CancelledInFields
  <1>5. new \in Runner /\ new.ver = jobReq[c].res.ver
    BY <1>1 DEF NewRunner, Runner, JobResource
  <1> HIDE DEF j, rest, new, valid
  <1>6. /\ runs' \in Seq(Runner) /\ DOMAIN runs \subseteq DOMAIN runs' /\ DOMAIN runs' \subseteq Int
        /\ \A v \in DOMAIN runs : runs'[v] = rest[v]
        /\ Len(runs') \in Nat /\ Len(runs') <= n /\ Len(runs') >= Len(runs)
        /\ n \in Int /\ n \notin DOMAIN runs
        /\ \/ ~valid /\ jobs' = jobs /\ DOMAIN runs' = DOMAIN runs
           \/ /\ valid /\ jobs' = [jobs EXCEPT ![j] = n] /\ DOMAIN runs' = DOMAIN runs \cup {n}
              /\ runs'[n] = new /\ Len(runs') = n
    <2>1. CASE ~valid /\ runs' = rest /\ jobs' = jobs
      <3>1. n \in Int /\ n \notin DOMAIN runs /\ DOMAIN runs \subseteq Int /\ Len(runs) <= n
        BY <1>3
      <3>2. runs' \in Seq(Runner) /\ DOMAIN runs' = DOMAIN runs /\ Len(runs') = Len(runs)
        BY <1>4, <2>1
      <3>3. \A v \in DOMAIN runs : runs'[v] = rest[v]
        BY <2>1
      <3>4. Len(runs') \in Nat /\ Len(runs') <= n /\ Len(runs') >= Len(runs)
        BY <1>3, <3>2
      <3> HIDE DEF n
      <3>5. QED
        BY <2>1, <3>1, <3>2, <3>3, <3>4
    <2>2. CASE valid /\ runs' = Append(rest, new) /\ jobs' = [jobs EXCEPT ![j] = n]
      <3>1. /\ runs' \in Seq(Runner) /\ Len(runs') = n /\ DOMAIN runs' = 1..n
            /\ \A v \in 1..Len(runs) : runs'[v] = rest[v]
            /\ runs'[n] = new
        BY <1>3, <1>4, <1>5, <2>2
      <3>2. 1..n = 1..Len(runs) \cup {n}
        BY <1>3
      <3>3. QED
        BY <1>3, <2>2, <3>1, <3>2
    <2>3. QED
      BY <1>2, <2>1, <2>2
  <1>7. RunnersCounted' /\ n <= version
    <2>1. Cardinality(Starting') = Cardinality(Starting) - 1 /\ Cardinality(Starting') \in Nat
      BY <1>1, <1>2, StartingStep DEF NoReq
    <2>2. QED
      BY <1>1, <1>2, <1>3, <1>6, <2>1, StartingCount, RunnerFields DEF SchedulerIInv, RunnersCounted
  <1>8. SchedulerTypeOK'
    <2>1. raced' \subseteq Jobs
      BY <1>1 DEF Races, SchedulerTypeOK
    <2>2. Len(runs') <= MaxPosts
      BY <1>1, <1>3, <1>6, <1>7, RunnerFields
    <2>3. jobs' \in [Jobs -> 0..Len(runs')]
      <3>1. jobs \in [Jobs -> 0..Len(runs)] /\ 0..Len(runs) \subseteq 0..Len(runs')
        BY <1>1, <1>3, <1>6 DEF SchedulerTypeOK
      <3>2. n \in 0..n
        BY <1>3
      <3> HIDE DEF n
      <3>3. QED
        BY <1>1, <1>6, <3>1, <3>2
    <2>4. jobReq' \in [JobClients -> {NoReq} \cup [op : {"start"}, job : Jobs, res : JobResource]
                                       \cup [op : {"stop"}, job : Jobs]]
      BY <1>1, <1>2 DEF SchedulerTypeOK, Hold
    <2>5. QED
      BY <1>1, <1>2, <1>6, <2>1, <2>2, <2>3, <2>4 DEF SchedulerTypeOK
  <1>9. VersionsPosted'
    <2>1. \A d \in Starting' : d \in Starting /\ jobReq'[d] = jobReq[d]
      BY <1>1, <1>2 DEF Starting, Hold, SchedulerTypeOK, NoReq
    <2>2. c \in Starting
      BY <1>1 DEF Starting
    <2>3. QED
      BY <1>2, <1>4, <1>5, <1>6, <2>1, <2>2 DEF SchedulerIInv, VersionsPosted
  <1>10. OneRunner' /\ FiledUnderItsJob' /\ StepPending'
    <2>1. \A k \in Jobs : k # j => jobs'[k] = jobs[k]
      BY <1>1, <1>6 DEF SchedulerTypeOK
    <2>2. DOMAIN runs' = DOMAIN runs \cup {n} => jobs'[j] = n
      BY <1>1, <1>6 DEF SchedulerTypeOK
    <2> HIDE DEF n
    <2>3. \/ /\ DOMAIN runs' = DOMAIN runs /\ jobs'[j] \in {0, jobs[j]}
             /\ ~(jobReq[c].op = "start" /\ jobReq[c].res.valid)
          \/ /\ DOMAIN runs' = DOMAIN runs \cup {n} /\ jobs'[j] = n
             /\ runs'[n] = NewRunner(j, jobReq[c].res)
             /\ jobReq[c].op = "start" /\ jobReq[c].res.valid
      BY <1>1, <1>6, <2>2 DEF valid, new
    <2>4. \A v \in DOMAIN runs :
            /\ runs'[v].job = runs[v].job /\ runs'[v].ver = runs[v].ver /\ runs'[v].pc = runs[v].pc
            /\ runs'[v].cancelled <=> (v = jobs[j] \/ runs[v].cancelled)
      BY <1>4, <1>6
    <2>5. jobReq[c].job = j
      BY DEF j
    <2>6. QED
      BY <1>1, <1>2, <1>6, <2>1, <2>3, <2>4, <2>5, CallEnds
  <1>11. QED
    BY <1>7, <1>8, <1>9, <1>10 DEF SchedulerIInv

-----------------------------------------------------------------------------
LEMMA IInvStep == SchedulerIInv /\ [SchedulerNext]_schedulerVars => SchedulerIInv'
  <1> SUFFICES ASSUME SchedulerIInv, [SchedulerNext]_schedulerVars PROVE SchedulerIInv'
    OBVIOUS
  <1>1. ASSUME NEW c \in JobClients, Call(c), raced' = raced \cup Races' PROVE SchedulerIInv'
    BY <1>1, PostJobStep, DeleteJobStep, StartRunnerStep, StopRunnerStep DEF Call
  <1>2. ASSUME NEW w \in DOMAIN runs, RunnerStep(w), raced' = raced \cup Races' PROVE SchedulerIInv'
    BY <1>2, RunStep
  <1>3. ASSUME Stop, raced' = raced \cup Races' PROVE SchedulerIInv'
    <2>1. SchedulerTypeOK'
      BY <1>3 DEF Stop, SchedulerIInv, SchedulerTypeOK, Races
    <2>2. SameRunners
      BY <1>3 DEF Stop, SameRunners
    <2>3. QED
      BY <1>3, <2>1, <2>2, QuietStep DEF Stop
  <1>4. ASSUME NEW j \in Jobs, ResetJob(j), raced' = raced \cup {j} PROVE SchedulerIInv'
    <2>1. SchedulerTypeOK'
      BY <1>4 DEF ResetJob, SchedulerIInv, SchedulerTypeOK
    <2>2. RunnersCounted' /\ VersionsPosted' /\ OneRunner' /\ FiledUnderItsJob'
      BY <1>4 DEF ResetJob, SchedulerIInv, RunnersCounted, Starting, VersionsPosted, OneRunner, FiledUnderItsJob, Active
    <2>3. \A k \in Jobs : k # j => stored'[k] = stored[k] /\ (InStep(k)' <=> InStep(k))
      BY <1>4 DEF ResetJob, SchedulerIInv, SchedulerTypeOK, InStep, Active
    <2>4. \A c \in JobClients, k \in Jobs : About(c, k)' <=> About(c, k)
      BY <1>4 DEF ResetJob, About, Idle
    <2>5. Races' = Races /\ jobReq' = jobReq
      BY <1>4 DEF ResetJob, Races, About, Idle
    <2>6. StepPending'
      BY <1>4, <2>3, <2>4, <2>5 DEF SchedulerIInv, StepPending
    <2>7. QED
      BY <2>1, <2>2, <2>6 DEF SchedulerIInv
  <1>5. ASSUME RestartScheduler, raced' = Jobs PROVE SchedulerIInv'
    <2>1. /\ runs' = <<>> /\ Len(runs') = 0 /\ DOMAIN runs' = {} /\ runs' \in Seq(Runner)
          /\ UNCHANGED <<stored, version, fired>> /\ jobStop' = FALSE /\ version \in Nat
          /\ jobs' = [j \in Jobs |-> 0] /\ jobReq' = [c \in JobClients |-> NoReq]
      BY <1>5, RunnerFields DEF RestartScheduler, SchedulerIInv
    <2>2. SchedulerTypeOK'
      <3>1. MaxPosts \in Nat /\ MaxJobRestarts \in Nat
        BY SchedulerAssumption
      <3>2. jobRestarts' \in 0..MaxJobRestarts
        BY <1>5, <3>1 DEF RestartScheduler, SchedulerIInv, SchedulerTypeOK
      <3>3. jobs' \in [Jobs -> 0..Len(runs')]
        BY <2>1
      <3>4. jobReq' \in [JobClients -> {NoReq} \cup [op : {"start"}, job : Jobs, res : JobResource]
                                         \cup [op : {"stop"}, job : Jobs]]
        BY <2>1
      <3>5. /\ stored' \in [Jobs -> JobResource \cup {NoJob}] /\ version' \in 0..MaxPosts
            /\ fired' \subseteq 1..version' /\ raced' \subseteq Jobs
        BY <1>5, <2>1 DEF SchedulerIInv, SchedulerTypeOK
      <3>6. jobStop' \in BOOLEAN
        BY <2>1
      <3>7. Len(runs') <= MaxPosts
        BY <2>1, <3>1
      <3>8. QED
        BY <2>1, <3>2, <3>3, <3>4, <3>5, <3>6, <3>7 DEF SchedulerTypeOK
    <2>3. Starting' = {}
      BY <2>1 DEF Starting, NoReq
    <2>4. RunnersCounted'
      BY <2>1, <2>3, FS_EmptySet DEF RunnersCounted
    <2>5. VersionsPosted' /\ OneRunner' /\ FiledUnderItsJob'
      BY <2>1, <2>3 DEF VersionsPosted, OneRunner, FiledUnderItsJob, Active
    <2>6. StepPending'
      BY <1>5 DEF StepPending, Races
    <2>7. QED
      BY <2>2, <2>4, <2>5, <2>6 DEF SchedulerIInv
  <1>6. CASE UNCHANGED schedulerVars
    <2>1. SchedulerTypeOK' /\ Races' = Races /\ SameRunners
      BY <1>6 DEF schedulerVars, state, SchedulerIInv, SchedulerTypeOK, Races, About, Idle, SameRunners
    <2>2. QED
      BY <1>6, <2>1, QuietStep DEF schedulerVars, state, SchedulerIInv, StepPending
  <1>7. QED
    BY <1>1, <1>2, <1>3, <1>4, <1>5, <1>6 DEF SchedulerNext

LEMMA Invariance == SchedulerSpec => []SchedulerIInv
  BY IInvInit, IInvStep, PTL DEF SchedulerSpec

(* startRunner and stopRunner leave a job at most one runner whose context   *)
(* nobody has cancelled, and it is the one the map names (SchedulerInv).     *)
THEOREM OneRunnerPerJob == SchedulerSpec => []SchedulerInv
  <1>1. SchedulerIInv => SchedulerInv
    BY DEF SchedulerIInv, SchedulerInv
  <1>2. QED
    BY Invariance, <1>1, PTL

(* When no call is in progress the runner of every job nobody raced for is   *)
(* the one of the stored version (RunnerMatchesStore).                       *)
THEOREM StoreAndRunnersAgree == SchedulerSpec => []RunnerMatchesStore
  <1>1. SchedulerIInv => RunnerMatchesStore
    <2> SUFFICES ASSUME SchedulerIInv, \A c \in JobClients : Idle(c), NEW j \in Jobs \ raced
                 PROVE  {runs[w].ver : w \in Active(j)} =
                            IF stored[j] # NoJob /\ stored[j].valid THEN {stored[j].ver} ELSE {}
      BY DEF RunnerMatchesStore
    <2>1. InStep(j)
      BY DEF SchedulerIInv, StepPending, About
    <2>2. \A w \in Active(j) : w = jobs[j]
      BY DEF SchedulerIInv, OneRunner
    <2>3. CASE stored[j] # NoJob /\ stored[j].valid
      <3>1. Active(j) = {jobs[j]} /\ runs[jobs[j]].ver = stored[j].ver
        BY <2>1, <2>2, <2>3 DEF InStep
      <3>2. QED
        BY <2>3, <3>1
    <2>4. CASE ~(stored[j] # NoJob /\ stored[j].valid)
      <3>1. Active(j) = {}
        BY <2>1, <2>4 DEF InStep
      <3>2. {runs[w].ver : w \in Active(j)} = {}
        BY <3>1
      <3>3. QED
        BY <2>4, <3>2
    <2>5. QED
      BY <2>3, <2>4
  <1>2. QED
    BY Invariance, <1>1, PTL
=============================================================================
