----------------------------- MODULE Lifecycle ------------------------------
(***************************************************************************)
(* The command line (cmd/gcp-local/main.go), the pid file all daemons of a *)
(* user share (internal/pidfile), and the life of a daemon: gateway.New,   *)
(* the pid file, ListenAndServe, the shutdown of Gateway.Run and the       *)
(* deferred removal of the pid file.  `start` probes /healthz on the port  *)
(* and reports what answers; `stop` reads the pid file, signals, polls and *)
(* removes the file.                                                       *)
(*                                                                         *)
(* A daemon is its pid, used once.                                         *)
(***************************************************************************)
EXTENDS FiniteSets

CONSTANTS Daemons,    \* the daemons that may be started
          Ports,      \* the ports they may be given
          Commands    \* `stop` commands that may run at once

VARIABLES port,      \* the port of each daemon
          proc,      \* the state of each daemon
          term,      \* daemons that SIGTERM was sent to
          pidfile,   \* the pid in the file, or NoFile
          stop,      \* what each `stop` command is doing: [op, pid]
          report,    \* what `start` has said about each daemon
          served,    \* history: daemons that have served
          killed,    \* history: daemons that a signal ended at once
          raced      \* history: daemons alive together with another one, or
                     \* while a `stop` was busy with another one

vars == <<port, proc, term, pidfile, stop, report, served, killed, raced>>

NoFile == "no file"
NoStop == [op |-> "none"]

Alive(d) == proc[d] \notin {"none", "gone"}

(* pidfile.Write, Remove and SignalTerm. *)
Write(d) == pidfile' = d

Remove == pidfile' = NoFile

SignalTerm(d) == term' = term \cup {d}

Binds(d) == proc[d] \in {"serving", "stopping"}

Becomes(d, s) == proc' = [proc EXCEPT ![d] = s]

-----------------------------------------------------------------------------
(* Mutant: the pid file is written before the gateway is built. *)
StartWritesPid(d) ==
    /\ proc[d] = "none"
    /\ Becomes(d, "new")
    /\ pidfile' = d
    /\ report' = [report EXCEPT ![d] = "probing"]
    /\ UNCHANGED <<port, term, stop, served, killed>>

(* `start` spawns the daemon, which builds the gateway. *)
Start(d) ==
    /\ proc[d] = "none"
    /\ Becomes(d, "new")
    /\ report' = [report EXCEPT ![d] = "probing"]
    /\ UNCHANGED <<port, term, pidfile, stop, served, killed>>

(* The configuration, the database or a listener of gateway.New fails. *)
NewFails(d) ==
    /\ proc[d] = "new"
    /\ Becomes(d, "gone")
    /\ UNCHANGED <<port, term, pidfile, stop, report, served, killed>>

(* Mutant: a file that exists is kept. *)
WritePidOnce(d) ==
    /\ proc[d] = "new"
    /\ Becomes(d, "written")
    /\ pidfile' = IF pidfile = NoFile THEN d ELSE pidfile
    /\ UNCHANGED <<port, term, stop, report, served, killed>>

(* pidfile.Write replaces what another daemon has written. *)
WritePid(d) ==
    /\ proc[d] = "new"
    /\ Becomes(d, "written")
    /\ Write(d)
    /\ UNCHANGED <<port, term, stop, report, served, killed>>

PortFree(d) == \A e \in Daemons : Binds(e) => port[e] # port[d]

(* ListenAndServe: Run returns its error when the port is in use. *)
Listen(d) ==
    /\ proc[d] = "written"
    /\ Becomes(d, IF PortFree(d) THEN "serving" ELSE "ending")
    /\ served' = IF PortFree(d) THEN served \cup {d} ELSE served
    /\ UNCHANGED <<port, term, pidfile, stop, report, killed>>

(* The signal cancels the context, and Run stops the services in turn. *)
Signalled(d) ==
    /\ proc[d] = "serving" /\ d \in term
    /\ Becomes(d, "stopping")
    /\ UNCHANGED <<port, term, pidfile, stop, report, served, killed>>

(* SIGTERM before signal.Notify, or SIGKILL: no deferred call runs. *)
Killed(d) ==
    /\ Alive(d)
    /\ Becomes(d, "gone")
    /\ killed' = killed \cup {d}
    /\ UNCHANGED <<port, term, pidfile, stop, report, served>>

(* Shutdown is through; it may also wait for ever for a session or a stream. *)
ShutDown(d) ==
    /\ proc[d] = "stopping"
    /\ Becomes(d, "ending")
    /\ UNCHANGED <<port, term, pidfile, stop, report, served, killed>>

(* The deferred pidfile.Remove, whatever the file holds by now. *)
RemovePid(d) ==
    /\ proc[d] = "ending"
    /\ Becomes(d, "gone")
    /\ Remove
    /\ UNCHANGED <<port, term, stop, report, served, killed>>

-----------------------------------------------------------------------------
(* Mutant: the probe only asks whether the daemon is there. *)
AnswersIfAlive(d) == Alive(d)

(* /healthz answers on the port: some daemon serves there. *)
Answers(d) == \E e \in Daemons : Binds(e) /\ port[e] = port[d]

ReportStarted(d) ==
    /\ report[d] = "probing" /\ Answers(d)
    /\ report' = [report EXCEPT ![d] = "started"]
    /\ UNCHANGED <<port, proc, term, pidfile, stop, served, killed>>

(* Nothing answered in five seconds. *)
ReportFailed(d) ==
    /\ report[d] = "probing"
    /\ report' = [report EXCEPT ![d] = "failed"]
    /\ UNCHANGED <<port, proc, term, pidfile, stop, served, killed>>

-----------------------------------------------------------------------------
(* runStop: pidfile.Read. *)
StopReads(c) ==
    /\ stop[c] = NoStop /\ pidfile # NoFile
    /\ stop' = [stop EXCEPT ![c] = [op |-> "read", pid |-> pidfile]]
    /\ UNCHANGED <<port, proc, term, pidfile, report, served, killed>>

(* SIGTERM if the process is there, else the file is stale. *)
StopSignals(c) ==
    /\ stop[c] # NoStop /\ stop[c].op = "read"
    /\ IF Alive(stop[c].pid)
         THEN SignalTerm(stop[c].pid) /\ stop' = [stop EXCEPT ![c].op = "poll"]
         ELSE stop' = [stop EXCEPT ![c].op = "remove"] /\ UNCHANGED term
    /\ UNCHANGED <<port, proc, pidfile, report, served, killed>>

StopPolls(c) ==
    /\ stop[c] # NoStop /\ stop[c].op = "poll" /\ ~Alive(stop[c].pid)
    /\ stop' = [stop EXCEPT ![c].op = "remove"]
    /\ UNCHANGED <<port, proc, term, pidfile, report, served, killed>>

(* Fifty polls are over. *)
StopGivesUp(c) ==
    /\ stop[c] # NoStop /\ stop[c].op = "poll"
    /\ stop' = [stop EXCEPT ![c] = NoStop]
    /\ UNCHANGED <<port, proc, term, pidfile, report, served, killed>>

StopRemoves(c) ==
    /\ stop[c] # NoStop /\ stop[c].op = "remove"
    /\ stop' = [stop EXCEPT ![c] = NoStop]
    /\ Remove
    /\ UNCHANGED <<port, proc, term, report, served, killed>>

Init ==
    /\ port \in [Daemons -> Ports]
    /\ proc = [d \in Daemons |-> "none"]
    /\ report = [d \in Daemons |-> "none"]
    /\ stop = [c \in Commands |-> NoStop]
    /\ pidfile = NoFile
    /\ term = {} /\ served = {} /\ killed = {} /\ raced = {}

Run(d) ==
    \/ Start(d) \/ NewFails(d) \/ WritePid(d) \/ Listen(d)
    \/ Signalled(d) \/ Killed(d) \/ ShutDown(d) \/ RemovePid(d)
    \/ ReportStarted(d) \/ ReportFailed(d)

Stop(c) == StopReads(c) \/ StopSignals(c) \/ StopPolls(c) \/ StopGivesUp(c) \/ StopRemoves(c)

Races ==
    {d \in Daemons : Alive(d) /\
        \/ \E e \in Daemons \ {d} : Alive(e)
        \/ \E c \in Commands : stop[c] # NoStop /\ stop[c].pid # d}

Next ==
    /\ (\E d \in Daemons : Run(d)) \/ (\E c \in Commands : Stop(c))
    /\ raced' = raced \cup Races'

Spec == Init /\ [][Next]_vars

-----------------------------------------------------------------------------
(* `stop`, `status`, `reset` and `env` find the daemon that serves, also     *)
(* when others were killed and left their file, ended or gave up the port    *)
(* before it, and while a `stop` that timed out is still about.  It says     *)
(* nothing of daemons that were alive together.                              *)
ServerInPidFile ==
    \A d \in Daemons \ raced : proc[d] = "serving" => pidfile = d

(* A daemon that ends by itself, on a signal or because its port is in use   *)
(* leaves no pid file behind: with all of them gone and none killed, `start` *)
(* and `status` see no stale file, in whatever order they wrote and removed. *)
NoStaleFile ==
    killed = {} /\ (\A d \in Daemons : ~Alive(d)) => pidfile = NoFile

(* "gcp-local started on :port (pid=...)" (main.go:212): what is reported as *)
(* started has served, or another daemon has served on that port: a daemon   *)
(* that failed, was killed or lost the port is reported for no other reason. *)
StartedHasServed ==
    \A d \in Daemons : report[d] = "started" => \E e \in served : port[e] = port[d]
-----------------------------------------------------------------------------
(* The inductive invariant behind the three. *)

Shape ==
    /\ proc \in [Daemons -> {"none", "new", "written", "serving", "stopping", "ending", "gone"}]
    /\ report \in [Daemons -> {"none", "probing", "started", "failed"}]
    /\ stop \in [Commands -> {NoStop} \cup [op : {"read", "poll", "remove"}, pid : Daemons]]
    /\ pidfile \in Daemons \cup {NoFile}
    /\ served \subseteq Daemons

(* Between pidfile.Write and the deferred Remove. *)
Holding(d) == proc[d] \in {"written", "serving", "stopping", "ending"}

(* The file names a daemon that has written it, and is there to remove it    *)
(* where none was killed; one that was alone finds its own pid in it.        *)
FileWritten ==
    /\ pidfile # NoFile => proc[pidfile] \notin {"none", "new"}
    /\ pidfile # NoFile /\ killed = {} => Holding(pidfile)
    /\ \A d \in Daemons \ raced : Holding(d) => pidfile = d

(* A `stop` is busy with a daemon that wrote the file, and removes the file *)
(* only after that one is gone.                                             *)
StopsWritten ==
    \A c \in Commands : stop[c] # NoStop =>
        /\ proc[stop[c].pid] # "none"
        /\ stop[c].op = "remove" => proc[stop[c].pid] = "gone"

BindersServed == \A d \in Daemons : Binds(d) => d \in served

RacesKept == Races \subseteq raced

IInv == Shape /\ FileWritten /\ StopsWritten /\ BindersServed /\ RacesKept /\ StartedHasServed
=============================================================================
