------------------------------ MODULE G20Service ------------------------------
(***************************************************************************)
(* The accessibility service (G20AccessibilityService.java) around the     *)
(* daemon: its main thread, the one thread of its executor, the thread of  *)
(* its file observer and the thread that stops the daemon, with the shells *)
(* adbd runs for it and the daemon's processes.  No lock protects a field. *)
(*                                                                         *)
(* Delays of a second or more (sleep, awaitTermination) are what the code  *)
(* synchronises with the shell by; Prompt says whether that works.         *)
(***************************************************************************)
EXTENDS Naturals, FiniteSets

CONSTANTS
  Shells,      (* shells adbd can run for the service at once              *)
  Daemons,     (* processes of the daemon                                  *)
  MaxDeaths,   (* bound: deaths of a daemon that nobody asked for          *)
  Prompt       (* a shell that was sent its line, the daemon it starts and *)
               (* the children of a dead one come as far as they will      *)
               (* before a delay of the service has passed                 *)
ASSUME ServiceAssumption ==
  IsFiniteSet(Daemons) /\ MaxDeaths \in Nat /\ Prompt \in BOOLEAN

VARIABLES
  (* the service's fields *)
  executor,           (* "null", "open", "shutdown", "stop" (shutdownNow)  *)
  fileObserverG20,    (* is it not null?                                   *)
  isProbablyRunning,
  (* its threads *)
  main, worker, observer, killer,
  executorActive,     (* onUnbind's local                                  *)
  queue,              (* tasks the executor's thread has not taken         *)
  crashed,            (* an exception nobody caught ended the process      *)
  (* the file observer's inotify instance *)
  watching, events,   (* a watch; CLOSE_WRITE events not handled yet       *)
  (* outside *)
  adb,                (* is adbd running?                                  *)
  dir,                (* does DAEMON_TMPDIR exist?                         *)
  shell,              (* the command a shell comes to, or "none"           *)
  daemon,             (* as in DeathSign: "starting", "up" (sentinel open),*)
                      (* "lost" (dead, a child holds the sentinel), "gone" *)
  deaths,
  (* auxiliary: what went wrong outside, or raced *)
  failed,             (* a start failed, or was given up                   *)
  blind,              (* a daemon died that was not watched                *)
  late                (* a start was under way when onUnbind let be or     *)
                      (* killall ran                                       *)

fields  == <<executor, fileObserverG20, isProbablyRunning>>
pool    == <<worker, queue>>
unbind  == <<main, executorActive, killer>>
inotify == <<watching, events>>
android == <<adb, dir, shell, daemon, deaths>>
ghosts  == <<failed, blind, late>>
vars    == <<fields, pool, unbind, observer, crashed, inotify, android, ghosts>>

Up      == {d \in Daemons : daemon[d] = "up"}
Running == {d \in Daemons : daemon[d] = "starting"} \cup Up
Settled ==
  Prompt =>
    /\ \A d \in Daemons : daemon[d] \in {"gone", "up"}
    /\ \A i \in Shells : shell[i] = "none"

(* A daemon may come up that is not there yet.                             *)
Starting ==
  \/ \E i \in Shells : shell[i] # "none"
  \/ worker = "write"
  \/ executor = "open" /\ (queue > 0 \/ worker \in {"adb", "connect"} \/ observer = "start")

(* A thread of the service's process comes to a step.                      *)
At(thread, step) == ~crashed /\ thread = step

(* Daemons die; their sentinels are closed when no child has them open.    *)
EndDaemons(D) ==
  \E L \in SUBSET (D \cap Up) :
    /\ daemon' = [d \in Daemons |-> IF d \in L THEN "lost" ELSE IF d \in D THEN "gone" ELSE daemon[d]]
    /\ events' = IF watching THEN events + Cardinality((D \cap Up) \ L) ELSE events

-----------------------------------------------------------------------------
(* adbd, the shells and the daemon.                                        *)

AdbStart ==
  /\ ~adb /\ adb' = TRUE
  /\ UNCHANGED <<fields, pool, unbind, observer, crashed, inotify, dir, shell, daemon, deaths, ghosts>>

(* The commands of the line: killall; rm, mkdir and chmod; exec.           *)
(* Without killall (mutant).                                               *)
NoKill(i) ==
  /\ shell[i] = "kill"
  /\ shell' = [shell EXCEPT ![i] = "dir"]
  /\ UNCHANGED <<fields, pool, unbind, observer, crashed, inotify, adb, dir, daemon, deaths, ghosts>>

ShellKill(i) ==
  /\ shell[i] = "kill"
  /\ shell' = [shell EXCEPT ![i] = "dir"]
  /\ EndDaemons(Running)
  /\ UNCHANGED <<fields, pool, unbind, observer, crashed, watching, adb, dir, deaths, ghosts>>

ShellDir(i) ==
  /\ shell[i] = "dir"
  /\ shell' = [shell EXCEPT ![i] = "exec"]
  /\ dir' = TRUE
  /\ UNCHANGED <<fields, pool, unbind, observer, crashed, inotify, adb, daemon, deaths, ghosts>>

ShellExec(i) ==
  /\ shell[i] = "exec"
  /\ shell' = [shell EXCEPT ![i] = "none"]
  /\ \E d \in Daemons : daemon[d] = "gone" /\ daemon' = [daemon EXCEPT ![d] = "starting"]
  /\ UNCHANGED <<fields, pool, unbind, observer, crashed, inotify, adb, dir, deaths, ghosts>>

(* The stream is closed as soon as the line is written.                    *)
HangUp(i) ==
  /\ shell[i] # "none"
  /\ shell' = [shell EXCEPT ![i] = "none"]
  /\ failed' = TRUE
  /\ UNCHANGED <<fields, pool, unbind, observer, crashed, inotify, adb, dir, daemon, deaths, blind, late>>

DaemonOpens(d) ==
  /\ daemon[d] = "starting"
  /\ daemon' = [daemon EXCEPT ![d] = "up"]
  /\ UNCHANGED <<fields, pool, unbind, observer, crashed, inotify, adb, dir, shell, deaths, ghosts>>

ChildrenEnd(d) ==
  /\ daemon[d] = "lost"
  /\ daemon' = [daemon EXCEPT ![d] = "gone"]
  /\ events' = IF watching THEN events + 1 ELSE events
  /\ UNCHANGED <<fields, pool, unbind, observer, crashed, watching, adb, dir, shell, deaths, ghosts>>

DaemonDies(d) ==
  /\ d \in Running /\ deaths < MaxDeaths
  /\ deaths' = deaths + 1
  /\ EndDaemons({d})
  /\ blind' = (blind \/ ~(watching /\ d \in Up))
  /\ UNCHANGED <<fields, pool, unbind, observer, crashed, watching, adb, dir, shell, failed, late>>

ShellStep  == \E i \in Shells : ShellKill(i) \/ ShellDir(i) \/ ShellExec(i)
DaemonStep == \E d \in Daemons : DaemonOpens(d) \/ ChildrenEnd(d)
Outside    ==
  \/ AdbStart \/ ShellStep \/ DaemonStep
  \/ \E i \in Shells : HangUp(i)
  \/ \E d \in Daemons : DaemonDies(d)

-----------------------------------------------------------------------------
(* The executor's thread: startG20Dispatcher's task.  After shutdownNow a  *)
(* thread that sleeps is interrupted; soon after executor is null, which   *)
(* one that comes to isShutdown then meets.                                *)

TakeTask ==
  /\ At(worker, "none") /\ queue > 0
  /\ queue' = queue - 1
  /\ worker' = "adb"
  /\ UNCHANGED <<fields, unbind, observer, crashed, inotify, android, ghosts>>

GoTo(step) == worker' = step /\ UNCHANGED <<crashed, failed>>
GiveUp     == failed' = TRUE /\ worker' = "none" /\ UNCHANGED crashed

(* executor.isShutdown(), outside try: go on or return.                    *)
UnlessShutdown(goOn) ==
  \/ executor = "null" /\ crashed' = TRUE /\ UNCHANGED <<worker, failed>>
  \/ executor # "open" /\ GoTo("none")
  \/ executor = "open" /\ goOn

AwaitAdb ==
  /\ At(worker, "adb")
  /\ UnlessShutdown(IF adb THEN GoTo("connect") ELSE GiveUp)
  /\ UNCHANGED <<fields, queue, unbind, observer, inotify, android, blind, late>>

(* connect and openStream, which may throw; then isShutdown, inside try.   *)
Connect ==
  /\ At(worker, "connect")
  /\ \/ GiveUp
     \/ executor # "open" /\ GoTo("none")
     \/ executor = "open" /\ GoTo("write")
  /\ UNCHANGED <<fields, queue, unbind, observer, inotify, android, blind, late>>

(* The line is written and the stream closed; either may throw.            *)
Write ==
  /\ At(worker, "write")
  /\ \/ GiveUp /\ UNCHANGED shell
     \/ \E i \in Shells :
          /\ shell[i] = "none"
          /\ shell' = [shell EXCEPT ![i] = "kill"]
          /\ GoTo("wait") \/ GiveUp
  /\ UNCHANGED <<fields, queue, unbind, observer, inotify, adb, dir, daemon, deaths, blind, late>>

Wait ==
  /\ At(worker, "wait")
  /\ UnlessShutdown(GoTo("sleep"))
  /\ UNCHANGED <<fields, queue, unbind, observer, inotify, android, blind, late>>

(* After a second: isDirectory, at most 60 times.  Without the sleep       *)
(* (mutant).                                                               *)
LookAtOnce ==
  /\ At(worker, "sleep")
  /\ \/ dir /\ GoTo("found") /\ isProbablyRunning' = TRUE
     \/ ~dir /\ GoTo("wait") /\ UNCHANGED isProbablyRunning
  /\ UNCHANGED <<executor, fileObserverG20, queue, unbind, observer, inotify, android, blind, late>>

Look ==
  /\ At(worker, "sleep") /\ Settled
  /\ \/ executor \in {"stop", "null"} /\ GoTo("none") /\ UNCHANGED isProbablyRunning
     \/ dir /\ GoTo("found") /\ isProbablyRunning' = TRUE
     \/ ~dir /\ (GoTo("wait") \/ GiveUp) /\ UNCHANGED isProbablyRunning
  /\ UNCHANGED <<executor, fileObserverG20, queue, unbind, observer, inotify, android, blind, late>>

Found ==
  /\ At(worker, "found")
  /\ UnlessShutdown(GoTo("test"))
  /\ UNCHANGED <<fields, queue, unbind, observer, inotify, android, blind, late>>

(* fileObserverG20 is read, and read a second time; then startWatching is  *)
(* called, whatever the field has become.                                  *)
TestObserver ==
  /\ At(worker, "test")
  /\ worker' = IF fileObserverG20 THEN "load" ELSE "none"
  /\ UNCHANGED <<fields, queue, unbind, observer, crashed, inotify, android, ghosts>>

LoadObserver ==
  /\ At(worker, "load")
  /\ worker' = IF fileObserverG20 THEN "watch" ELSE "none"
  /\ crashed' = ~fileObserverG20
  /\ UNCHANGED <<fields, queue, unbind, observer, inotify, android, ghosts>>

StartWatching ==
  /\ At(worker, "watch")
  /\ watching' = TRUE
  /\ worker' = "none"
  /\ UNCHANGED <<fields, queue, unbind, observer, crashed, events, android, ghosts>>

Worker ==
  \/ TakeTask \/ AwaitAdb \/ Connect \/ Write \/ Wait \/ Look
  \/ Found \/ TestObserver \/ LoadObserver \/ StartWatching

-----------------------------------------------------------------------------
(* The observer's thread.  An event that is queued is delivered although   *)
(* the watch was removed.                                                  *)
OnEvent ==
  /\ At(observer, "idle") /\ events > 0
  /\ events' = events - 1
  /\ isProbablyRunning' = FALSE
  /\ observer' = "stop"
  /\ UNCHANGED <<executor, fileObserverG20, pool, unbind, crashed, watching, android, ghosts>>

StopWatching ==
  /\ At(observer, "stop")
  /\ watching' = FALSE
  /\ observer' = "asleep"
  /\ UNCHANGED <<fields, pool, unbind, crashed, events, android, ghosts>>

(* Five seconds later; it never starts again (mutant), or starts again     *)
(* whether the service is bound or not (mutant).                           *)
RestartAnyway ==
  /\ At(observer, "asleep") /\ Settled
  /\ observer' = "start"
  /\ UNCHANGED <<fields, pool, unbind, crashed, inotify, android, ghosts>>

NoRestart ==
  /\ At(observer, "asleep") /\ Settled
  /\ observer' = "idle"
  /\ UNCHANGED <<fields, pool, unbind, crashed, inotify, android, ghosts>>

Wake ==
  /\ At(observer, "asleep") /\ Settled
  /\ observer' = IF fileObserverG20 THEN "start" ELSE "idle"
  /\ UNCHANGED <<fields, pool, unbind, crashed, inotify, android, ghosts>>

(* What execute throws, FileObserver catches.                              *)
Restart ==
  /\ At(observer, "start")
  /\ queue' = IF executor = "open" THEN queue + 1 ELSE queue
  /\ observer' = "idle"
  /\ UNCHANGED <<fields, worker, unbind, crashed, inotify, android, ghosts>>

Observer == OnEvent \/ StopWatching \/ Wake \/ Restart

-----------------------------------------------------------------------------
(* The main thread.                                                        *)

onServiceConnected ==
  /\ At(main, "new")
  /\ main' = "bound"
  /\ executor' = "open" /\ fileObserverG20' = TRUE /\ isProbablyRunning' = FALSE
  /\ queue' = 1
  /\ UNCHANGED <<worker, executorActive, killer, observer, crashed, inotify, android, ghosts>>

onUnbind ==
  /\ At(main, "bound")
  /\ main' = "stopped"
  /\ watching' = FALSE
  /\ UNCHANGED <<fields, pool, executorActive, killer, observer, crashed, events, android, ghosts>>

UnbindForget ==
  /\ At(main, "stopped")
  /\ main' = "active"
  /\ fileObserverG20' = FALSE
  /\ UNCHANGED <<executor, isProbablyRunning, pool, executorActive, killer, observer, crashed, inotify, android, ghosts>>

UnbindActive ==
  /\ At(main, "active")
  /\ executorActive' = (worker # "none")
  /\ main' = "decide"
  /\ UNCHANGED <<fields, pool, killer, observer, crashed, inotify, android, ghosts>>

UnbindDecide ==
  /\ At(main, "decide")
  /\ executor' = IF executorActive THEN "shutdown" ELSE executor
  /\ main' = IF executorActive THEN "await" ELSE IF isProbablyRunning THEN "kill" ELSE "unbound"
  /\ late' = (late \/ (main' = "unbound" /\ (worker # "none" \/ Starting)))
  /\ UNCHANGED <<fileObserverG20, isProbablyRunning, pool, executorActive, killer, observer, crashed, inotify, android, failed, blind>>

(* awaitTermination returns when no task is left, or after five seconds;   *)
(* then shutdownNow drops what waits and interrupts what runs.             *)
UnbindAwait ==
  /\ At(main, "await")
  /\ \/ worker = "none" /\ queue = 0 /\ UNCHANGED <<executor, queue>>
     \/ Settled /\ executor' = "stop" /\ queue' = 0
  /\ main' = "null"
  /\ UNCHANGED <<fileObserverG20, isProbablyRunning, worker, executorActive, killer, observer, crashed, inotify, android, ghosts>>

UnbindNull ==
  /\ At(main, "null")
  /\ executor' = "null"
  /\ main' = "kill"
  /\ UNCHANGED <<fileObserverG20, isProbablyRunning, pool, executorActive, killer, observer, crashed, inotify, android, ghosts>>

(* onUnbind returns when the thread has ended, or after five seconds.      *)
UnbindKill ==
  /\ At(main, "kill")
  /\ main' = "unbound"
  /\ killer' = IF adb THEN "connect" ELSE killer
  /\ UNCHANGED <<fields, pool, executorActive, observer, crashed, inotify, android, ghosts>>

Unbinding ==
  \/ UnbindForget \/ UnbindActive \/ UnbindDecide
  \/ UnbindAwait \/ UnbindNull \/ UnbindKill

(* The thread that stops the daemon: anything it does may throw.           *)
Killer ==
  /\ At(killer, "connect")
  /\ \/ killer' = "done" /\ EndDaemons(Running)
     \/ killer' = "failed" /\ UNCHANGED <<daemon, events>>
  /\ late' = (late \/ Starting)
  /\ UNCHANGED <<fields, pool, main, executorActive, observer, crashed, watching, adb, dir, shell, deaths, failed, blind>>

-----------------------------------------------------------------------------
(* A daemon of an earlier life of the service may be running, and its      *)
(* directory may exist.                                                    *)
Init ==
  /\ executor = "null" /\ fileObserverG20 = FALSE /\ isProbablyRunning = FALSE
  /\ main = "new" /\ worker = "none" /\ observer = "idle" /\ killer = "none"
  /\ executorActive = FALSE /\ queue = 0 /\ crashed = FALSE
  /\ watching = FALSE /\ events = 0
  /\ adb \in BOOLEAN /\ dir \in BOOLEAN
  /\ shell = [i \in Shells |-> "none"]
  /\ \E D \in SUBSET Daemons :
       /\ Cardinality(D) <= 1 /\ (D # {} => adb /\ dir)
       /\ daemon = [d \in Daemons |-> IF d \in D THEN "up" ELSE "gone"]
  /\ deaths = 0
  /\ failed = FALSE /\ blind = FALSE /\ late = FALSE

App  == Worker \/ Observer \/ onServiceConnected \/ onUnbind \/ Unbinding \/ Killer
Next == App \/ Outside

(* Threads that can run do; what a shell began it goes on with.  Nothing   *)
(* has to be unbound or die, and adbd need not start.                      *)
Spec ==
  /\ Init /\ [][Next]_vars
  /\ WF_vars(ShellStep) /\ WF_vars(DaemonStep)
  /\ WF_vars(onServiceConnected)
  /\ WF_vars(Worker) /\ WF_vars(Observer)
  /\ WF_vars(Unbinding) /\ WF_vars(Killer)

-----------------------------------------------------------------------------
(* The types of the service's state; one event and one task at most wait:  *)
(* there is one daemon to die, and the next is started only by the task    *)
(* its death asks for.                                                     *)
TypeOK ==
  /\ executor \in {"null", "open", "shutdown", "stop"}
  /\ fileObserverG20 \in BOOLEAN /\ isProbablyRunning \in BOOLEAN
  /\ main \in {"new", "bound", "stopped", "active", "decide", "await", "null", "kill", "unbound"}
  /\ worker \in {"none", "adb", "connect", "write", "wait", "sleep",
                 "found", "test", "load", "watch"}
  /\ observer \in {"idle", "stop", "asleep", "start"}
  /\ killer \in {"none", "connect", "done", "failed"}
  /\ executorActive \in BOOLEAN /\ crashed \in BOOLEAN
  /\ queue \in 0 .. 1 /\ events \in 0 .. 1
  /\ watching \in BOOLEAN /\ adb \in BOOLEAN /\ dir \in BOOLEAN
  /\ shell \in [Shells -> {"none", "kill", "dir", "exec"}]
  /\ daemon \in [Daemons -> {"gone", "starting", "up", "lost"}]
  /\ deaths \in 0 .. MaxDeaths
  /\ failed \in BOOLEAN /\ blind \in BOOLEAN /\ late \in BOOLEAN

(* Two daemons would each inject every press (README: "there are no checks *)
(* for existing instances"): killall before exec keeps it at one.          *)
OneDaemon == Cardinality(Running) <= 1

(* A closed sentinel means a daemon that died: no restart is asked for     *)
(* while one runs.                                                         *)
RestartOnlyAfterDeath ==
  [][observer = "start" /\ observer' = "idle" => Running = {}]_vars

(* isProbablyRunning decides alone, when no task is active, whether        *)
(* onUnbind stops the daemon: then a daemon that runs must be known to,    *)
(* unless its start was given up on.                                       *)
RunningIsKnown ==
  main # "new" /\ worker = "none" /\ queue = 0 /\ ~failed /\ Running # {} =>
    \/ isProbablyRunning
    \/ executor # "open" \/ crashed

(* An unbound service leaves no daemon, and none comes up again, whatever  *)
(* its threads were at when it was unbound and whatever died meanwhile, if *)
(* its killall gets through.  The one exception is a start under way:      *)
(* onUnbind took no notice of it (getActiveCount, "not reliable, I know"), *)
(* or killall was quicker.                                                 *)
UnbindStops ==
  main = "unbound" /\ killer \notin {"connect", "failed"} /\ ~failed /\ ~late =>
    Running = {}

(* While the service is bound and its starts succeed, it comes to rest     *)
(* with a daemon that is watched, however often daemons die, unless one    *)
(* died before it was watched.                                             *)
StaysUp ==
  <>[](main = "bound" /\ adb /\ ~failed) =>
    <>[](Up # {} /\ watching) \/ <>blind
=============================================================================
