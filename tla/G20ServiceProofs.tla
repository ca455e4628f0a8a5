---------------------------- MODULE G20ServiceProofs ----------------------------
(***************************************************************************)
(* Proofs about the accessibility service, for any number of shells,       *)
(* daemons and deaths, if its delays suffice (Prompt): types, one daemon,  *)
(* restarts only after a death, a daemon that runs is known to run, and an *)
(* unbind leaves none unless a start was under way.                        *)
(*                                                                         *)
(* What makes four threads without a lock safe is that there is one errand *)
(* at a time: a task that waits or runs, a sentinel that is watched, its   *)
(* closing that has still to be handled, or a restart that is slept over.  *)
(* Each ends by making the next, and a shell runs only while the task that *)
(* started it waits, or nothing follows any more.                          *)
(***************************************************************************)
EXTENDS G20Service, FiniteSetTheorems, TLAPS

(* The outside, as far as the service's steps depend on it.                *)
Idle    == \A i \in Shells : shell[i] = "none"
AllGone == \A d \in Daemons : daemon[d] = "gone"
OneLeft == \A d, e \in Daemons : daemon[d] # "gone" /\ daemon[e] # "gone" => d = e
NoneUp  == Running = {}
OneUp   == \A d, e \in Running : d = e
OneBusy == \A i, j \in Shells : shell[i] # "none" /\ shell[j] # "none" => i = j
Cleared == \A i \in Shells : shell[i] \in {"dir", "exec"} => NoneUp

Resting == worker = "none" /\ queue = 0 /\ observer = "idle" /\ events = 0 /\ ~watching

(* One errand at a time.                                                   *)
Errand ==
  /\ main = "new" => Resting /\ Idle
  /\ worker # "none" => queue = 0 /\ observer = "idle" /\ events = 0 /\ ~watching
  /\ queue > 0 => queue = 1 /\ observer = "idle" /\ events = 0 /\ ~watching
  /\ observer # "idle" => events = 0
  /\ observer \in {"asleep", "start"} => ~watching

(* A shell runs behind the task that started it.                           *)
Shelled ==
  /\ OneBusy
  /\ ~Idle => /\ worker \in {"none", "wait", "sleep"}
              /\ queue = 0 /\ observer = "idle" /\ events = 0 /\ ~watching

(* killall comes before exec.                                              *)
Single == OneUp /\ Cleared

(* The task has found the directory and is about to watch.                 *)
Watcher == {"found", "test", "load", "watch"}

(* A sentinel that is watched is the only one left; when its closing is    *)
(* seen, no daemon is.                                                     *)
Seen ==
  /\ watching \/ worker \in Watcher => OneLeft
  /\ events > 0 => events = 1 /\ AllGone
  /\ observer # "idle" => AllGone

(* isProbablyRunning is right when no task is left.                        *)
Known ==
  /\ worker \in Watcher => isProbablyRunning
  /\ main # "new" /\ ~failed /\ ~crashed /\ executor = "open" /\ worker = "none" /\ queue = 0 =>
       Idle /\ (isProbablyRunning \/ NoneUp)

(* Whatever runs was started through adb.                                  *)
Reached ==
  /\ ~NoneUp => adb
  /\ ~Idle => adb
  /\ worker \notin {"none", "adb"} => adb
  /\ isProbablyRunning => adb

(* A task that has not sent its line and may come to.                      *)
Begun ==
  \/ worker = "write"
  \/ executor = "open" /\ (queue > 0 \/ worker \in {"adb", "connect"} \/ observer = "start")

(* Once the service is unbound a start that has not begun never does.      *)
Parting ==
  /\ main \in {"bound", "stopped", "active", "decide"} => executor = "open"
  /\ main \notin {"new", "bound", "stopped"} => ~fileObserverG20
  /\ main = "kill" => executor = "null" \/ adb
  /\ killer # "none" => main = "unbound"
  /\ main = "unbound" /\ killer \notin {"connect", "failed"} /\ ~failed /\ ~late =>
       NoneUp /\ Idle /\ ~Begun

(* TypeOK without the bounds that the invariant says itself.               *)
ShellType  == shell \in [Shells -> {"none", "kill", "dir", "exec"}]
DaemonType == daemon \in [Daemons -> {"gone", "starting", "up", "lost"}]
Flags ==
  /\ fileObserverG20 \in BOOLEAN /\ isProbablyRunning \in BOOLEAN
  /\ executorActive \in BOOLEAN /\ crashed \in BOOLEAN
  /\ watching \in BOOLEAN /\ adb \in BOOLEAN /\ dir \in BOOLEAN
  /\ failed \in BOOLEAN /\ blind \in BOOLEAN /\ late \in BOOLEAN
Steps ==
  /\ executor \in {"null", "open", "shutdown", "stop"}
  /\ main \in {"new", "bound", "stopped", "active", "decide", "await", "null", "kill", "unbound"}
  /\ worker \in {"none", "adb", "connect", "write", "wait", "sleep",
                 "found", "test", "load", "watch"}
  /\ observer \in {"idle", "stop", "asleep", "start"}
  /\ killer \in {"none", "connect", "done", "failed"}
  /\ queue \in Nat /\ events \in Nat /\ deaths \in 0 .. MaxDeaths
Types == Flags /\ Steps /\ ShellType /\ DaemonType

IInv ==
  Types /\ Errand /\ Shelled /\ Single /\ Seen /\ Known /\ Reached /\ Parting

-----------------------------------------------------------------------------
(* What the predicates of the outside say of one another.                  *)
LEMMA Outer ==
  ASSUME DaemonType
  PROVE  /\ AllGone => NoneUp /\ OneLeft
         /\ OneLeft => OneUp
         /\ NoneUp => OneUp
         /\ \A d \in Running : d \in Daemons /\ daemon[d] # "gone"
         /\ \A d \in Daemons : daemon[d] # "gone" => d \in Running \/ daemon[d] = "lost"
BY DEF DaemonType, AllGone, NoneUp, OneLeft, OneUp, Running, Up

LEMMA SameOuter ==
  ASSUME UNCHANGED <<shell, daemon>>
  PROVE  /\ Idle' = Idle /\ AllGone' = AllGone /\ OneLeft' = OneLeft /\ NoneUp' = NoneUp
         /\ OneUp' = OneUp /\ OneBusy' = OneBusy /\ Cleared' = Cleared
         /\ ShellType' = ShellType /\ DaemonType' = DaemonType /\ Running' = Running
BY DEF Idle, AllGone, OneLeft, NoneUp, OneUp, OneBusy, Cleared, ShellType, DaemonType, Running, Up

(* The end of daemons: none comes back, and the one event there can be is  *)
(* of the last that was left.                                              *)
LEMMA EndKeeps ==
  ASSUME Types, OneUp, Seen, NEW D \in SUBSET Running, EndDaemons(D)
  PROVE  /\ DaemonType'
         /\ Running' = Running \ D
         /\ \A d \in Daemons : daemon'[d] # "gone" => daemon[d] # "gone"
         /\ \/ events' = events
            \/ watching /\ ~AllGone /\ events = 0 /\ events' = 1 /\ AllGone'
<1>1. PICK L \in SUBSET (D \cap Up) :
        /\ daemon' = [d \in Daemons |-> IF d \in L THEN "lost"
                                        ELSE IF d \in D THEN "gone" ELSE daemon[d]]
        /\ events' = IF watching THEN events + Cardinality((D \cap Up) \ L) ELSE events
  BY DEF EndDaemons
<1>2. DaemonType'
  BY <1>1 DEF Types, Flags, Steps, DaemonType
<1>3. Running' = Running \ D
  BY <1>1 DEF Running, Up
<1>4. \A d \in Daemons : daemon'[d] # "gone" => daemon[d] # "gone"
  BY <1>1 DEF Running, Up
<1>5. \/ events' = events
      \/ watching /\ ~AllGone /\ events = 0 /\ events' = 1 /\ AllGone'
  <2> DEFINE Told == (D \cap Up) \ L
  <2>1. CASE ~watching
    BY <1>1, <2>1
  <2>2. CASE Told = {}
    BY <1>1, <2>2, FS_EmptySet DEF Types, Flags, Steps
  <2>3. CASE watching /\ Told # {}
    <3>1. PICK d \in Told : TRUE
      BY <2>3
    <3>2. d \in Daemons /\ daemon[d] = "up" /\ daemon'[d] = "gone"
      BY <1>1, <3>1 DEF Up
    <3>3. \A e \in Daemons \ {d} : daemon[e] = "gone"
      BY <2>3, <3>2 DEF Seen, OneLeft
    <3>4. AllGone'
      BY <1>4, <3>2, <3>3 DEF AllGone
    <3>5. Told = {d}
      BY <3>1, <3>3 DEF Up
    <3>6. events = 0 /\ ~AllGone
      BY <3>2 DEF Types, Flags, Steps, Seen, AllGone
    <3>7. Cardinality(Told) = 1
      BY <3>5, FS_Singleton
    <3> QED
      BY <1>1, <2>3, <3>4, <3>6, <3>7
  <2> QED
    BY <2>1, <2>2, <2>3
<1> QED
  BY <1>2, <1>3, <1>4, <1>5

(* Daemons end, and nothing else happens to the shells or the service.     *)
LEMMA EndOuter ==
  ASSUME IInv, NEW D \in SUBSET Running, EndDaemons(D)
  PROVE  /\ DaemonType' /\ OneUp'
         /\ AllGone => AllGone'
         /\ OneLeft => OneLeft'
         /\ NoneUp => NoneUp'
         /\ D = Running => NoneUp'
         /\ UNCHANGED shell => Cleared'
         /\ \/ events' = events
            \/ watching /\ ~AllGone /\ events = 0 /\ events' = 1 /\ AllGone'
<1>1. Types /\ OneUp /\ Seen /\ Cleared
  BY DEF IInv, Single
<1>2. /\ DaemonType'
      /\ Running' = Running \ D
      /\ \A d \in Daemons : daemon'[d] # "gone" => daemon[d] # "gone"
      /\ \/ events' = events
         \/ watching /\ ~AllGone /\ events = 0 /\ events' = 1 /\ AllGone'
  BY <1>1, EndKeeps
<1>3. OneUp' /\ (NoneUp => NoneUp') /\ (D = Running => NoneUp')
  BY <1>1, <1>2 DEF OneUp, NoneUp
<1>4. (AllGone => AllGone') /\ (OneLeft => OneLeft')
  BY <1>2 DEF AllGone, OneLeft
<1>5. UNCHANGED shell => Cleared'
  BY <1>1, <1>3 DEF Cleared
<1> QED
  BY <1>2, <1>3, <1>4, <1>5

LEMMA EndService ==
  ASSUME IInv, NEW D \in SUBSET Running, EndDaemons(D),
         UNCHANGED <<executor, isProbablyRunning, worker, queue, main, observer, crashed,
                     watching, adb, shell, failed>>
  PROVE  /\ Errand' /\ Shelled' /\ Single' /\ Seen' /\ Known' /\ Reached'
         /\ events' \in Nat
<1>1. Types /\ Errand /\ Shelled /\ Single /\ Seen /\ Known /\ Reached
  BY DEF IInv
<1>2. /\ OneUp' /\ Cleared' /\ (AllGone => AllGone') /\ (OneLeft => OneLeft')
      /\ (NoneUp => NoneUp')
      /\ \/ events' = events
         \/ watching /\ ~AllGone /\ events = 0 /\ events' = 1 /\ AllGone'
  BY EndOuter
<1>3. Idle' = Idle /\ OneBusy' = OneBusy
  BY DEF Idle, OneBusy
<1>4. events' \in Nat /\ Errand' /\ Shelled' /\ Single'
  <2>1. events' \in Nat
    BY <1>1, <1>2 DEF Types, Steps
  <2>2. Single'
    BY <1>2 DEF Single
  <2>3. watching /\ ~AllGone =>
          worker = "none" /\ queue = 0 /\ Idle /\ observer = "idle" /\ main # "new"
    BY <1>1 DEF Errand, Resting, Shelled, Seen, Types, Steps
  <2>4. Errand'
    BY <1>1, <1>2, <1>3, <2>3 DEF Errand, Resting
  <2>5. Shelled'
    BY <1>1, <1>2, <1>3, <2>3 DEF Shelled
  <2> QED
    BY <2>1, <2>2, <2>4, <2>5
<1>5. Seen' /\ Known' /\ Reached'
  BY <1>1, <1>2, <1>3 DEF Seen, Known, Reached
<1> QED
  BY <1>4, <1>5

-----------------------------------------------------------------------------
LEMMA InitEstablishes == Init => IInv
<1> SUFFICES ASSUME Init
             PROVE  IInv
  OBVIOUS
<1>1. PICK D \in SUBSET Daemons :
        /\ Cardinality(D) <= 1 /\ (D # {} => adb /\ dir)
        /\ daemon = [d \in Daemons |-> IF d \in D THEN "up" ELSE "gone"]
  BY DEF Init
<1>2. Running = D
  BY <1>1 DEF Running, Up
<1>3. \A d, e \in D : d = e
  <2> SUFFICES ASSUME NEW d \in D, NEW e \in D, d # e
               PROVE  FALSE
    OBVIOUS
  <2>1. IsFiniteSet(D)
    BY FS_Subset, ServiceAssumption
  <2>2. Cardinality({d, e}) <= Cardinality(D)
    BY <2>1, FS_Subset
  <2>3. Cardinality({d}) = 1 /\ IsFiniteSet({d})
    BY FS_Singleton
  <2>4. Cardinality({d} \cup {e}) = Cardinality({d}) + 1
    BY <2>3, FS_AddElement
  <2>5. {d, e} = {d} \cup {e}
    OBVIOUS
  <2>6. Cardinality(D) \in Nat
    BY <2>1, FS_CardinalityType
  <2> QED
    BY <1>1, <2>2, <2>3, <2>4, <2>5, <2>6
<1>4. DaemonType /\ ShellType /\ Idle /\ OneUp /\ (~NoneUp => adb)
  BY <1>1, <1>2, <1>3 DEF Init, DaemonType, ShellType, Idle, OneUp, NoneUp
<1>5. OneBusy /\ Cleared
  BY <1>4 DEF Idle, OneBusy, Cleared
<1>6. Types
  <2>1. /\ executor = "null" /\ fileObserverG20 = FALSE /\ isProbablyRunning = FALSE
        /\ main = "new" /\ worker = "none" /\ observer = "idle" /\ killer = "none"
        /\ executorActive = FALSE /\ queue = 0 /\ crashed = FALSE
        /\ watching = FALSE /\ events = 0 /\ adb \in BOOLEAN /\ dir \in BOOLEAN
        /\ failed = FALSE /\ blind = FALSE /\ late = FALSE
    BY DEF Init
  <2>2. deaths \in 0 .. MaxDeaths
    BY ServiceAssumption DEF Init
  <2> QED
    BY <1>4, <2>1, <2>2 DEF Types, Flags, Steps
<1>7. /\ main = "new" /\ worker = "none" /\ observer = "idle" /\ killer = "none"
      /\ queue = 0 /\ ~watching /\ events = 0 /\ ~isProbablyRunning
  BY DEF Init
<1> QED
  BY <1>4, <1>5, <1>6, <1>7
     DEF IInv, Errand, Shelled, Single, Seen, Known, Reached, Parting, Begun, Watcher, Resting

-----------------------------------------------------------------------------
(* The steps of the shells and the daemons.                                *)
LEMMA OutsideKeeps ==
  ASSUME IInv, Outside
  PROVE  IInv'
<1>1. /\ Types /\ DaemonType /\ ShellType /\ OneBusy /\ Cleared /\ OneUp /\ Seen
  BY DEF IInv, Types, Flags, Steps, Shelled, Single
<1>2. UNCHANGED <<fields, pool, main, executorActive, killer, observer, crashed, watching>>
  BY DEF Outside, AdbStart, ShellStep, ShellKill, ShellDir, ShellExec, DaemonStep, DaemonOpens,
         ChildrenEnd, HangUp, DaemonDies, unbind, inotify
<1>3. CASE AdbStart
  BY <1>2, <1>3, SameOuter DEF AdbStart, IInv, Types, Flags, Steps, Errand, Shelled, Single, Seen, Known,
     Reached, Parting, Begun, Watcher, Resting, fields, pool, unbind, inotify, ghosts
<1>4. ASSUME NEW i \in Shells, ShellKill(i)
      PROVE  IInv'
  <2>1. ~Idle /\ EndDaemons(Running)
    BY <1>4 DEF ShellKill, Idle
  <2>2. DaemonType' /\ OneUp' /\ NoneUp' /\ (AllGone => AllGone') /\ (OneLeft => OneLeft')
    BY <2>1, EndOuter
  <2>3. events = 0 /\ events' = 0
    BY <2>1, EndOuter DEF IInv, Shelled
  <2>4. /\ shell'[i] = "dir" /\ \A j \in Shells \ {i} : shell'[j] = shell[j]
        /\ ShellType' /\ shell[i] # "none"
    BY <1>1, <1>4 DEF ShellKill, ShellType
  <2>5. ~Idle' /\ OneBusy' /\ Cleared'
    BY <1>1, <2>2, <2>4 DEF Idle, OneBusy, Cleared
  <2> QED
    BY <1>2, <1>4, <2>1, <2>2, <2>3, <2>4, <2>5
       DEF ShellKill, IInv, Types, Flags, Steps, Errand, Shelled, Single, Seen, Known,
           Reached, Parting, Begun, Watcher, Resting, fields, pool, unbind, inotify, ghosts
<1>5. ASSUME NEW i \in Shells, ShellDir(i)
      PROVE  IInv'
  <2>1. /\ shell'[i] = "exec" /\ \A j \in Shells \ {i} : shell'[j] = shell[j]
        /\ ShellType' /\ shell[i] = "dir" /\ UNCHANGED daemon
    BY <1>1, <1>5 DEF ShellDir, ShellType
  <2>2. ~Idle /\ ~Idle' /\ OneBusy' /\ Cleared'
    BY <1>1, <2>1 DEF Idle, OneBusy, Cleared, NoneUp, Running, Up
  <2>3. /\ DaemonType' /\ OneUp' = OneUp /\ NoneUp' = NoneUp
        /\ AllGone' = AllGone /\ OneLeft' = OneLeft
    BY <1>1, <2>1 DEF DaemonType, OneUp, NoneUp, AllGone, OneLeft, Running, Up
  <2> QED
    BY <1>2, <1>5, <2>1, <2>2, <2>3
       DEF ShellDir, IInv, Types, Flags, Steps, Errand, Shelled, Single, Seen, Known,
           Reached, Parting, Begun, Watcher, Resting, fields, pool, unbind, inotify, ghosts
<1>6. ASSUME NEW i \in Shells, ShellExec(i)
      PROVE  IInv'
  <2>1. PICK d \in Daemons : daemon[d] = "gone" /\ daemon' = [daemon EXCEPT ![d] = "starting"]
    BY <1>6 DEF ShellExec
  <2>2. /\ shell'[i] = "none" /\ \A j \in Shells \ {i} : shell'[j] = shell[j]
        /\ ShellType' /\ shell[i] = "exec"
    BY <1>1, <1>6 DEF ShellExec, ShellType
  <2>3. ~Idle /\ Idle' /\ OneBusy' /\ Cleared' /\ NoneUp
    BY <1>1, <2>2 DEF Idle, OneBusy, Cleared
  <2>4. DaemonType' /\ Running' = {d}
    BY <1>1, <2>1, <2>3 DEF DaemonType, NoneUp, Running, Up
  <2>5. OneUp' /\ ~NoneUp'
    BY <2>4 DEF OneUp, NoneUp
  <2> QED
    BY <1>2, <1>6, <2>2, <2>3, <2>4, <2>5
       DEF ShellExec, IInv, Types, Flags, Steps, Errand, Shelled, Single, Seen, Known,
           Reached, Parting, Begun, Watcher, Resting, fields, pool, unbind, inotify, ghosts
<1>7. ASSUME NEW i \in Shells, HangUp(i)
      PROVE  IInv'
  <2>1. /\ shell'[i] = "none" /\ \A j \in Shells \ {i} : shell'[j] = shell[j]
        /\ ShellType' /\ shell[i] # "none" /\ UNCHANGED daemon
    BY <1>1, <1>7 DEF HangUp, ShellType
  <2>2. ~Idle /\ Idle' /\ OneBusy' /\ Cleared'
    BY <1>1, <2>1 DEF Idle, OneBusy, Cleared
  <2>3. /\ DaemonType' /\ OneUp' = OneUp /\ NoneUp' = NoneUp
        /\ AllGone' = AllGone /\ OneLeft' = OneLeft
    BY <1>1, <2>1 DEF DaemonType, OneUp, NoneUp, AllGone, OneLeft, Running, Up
  <2> QED
    BY <1>2, <1>7, <2>1, <2>2, <2>3
       DEF HangUp, IInv, Types, Flags, Steps, Errand, Shelled, Single, Seen, Known,
           Reached, Parting, Begun, Watcher, Resting, fields, pool, unbind, inotify, ghosts
<1>8. ASSUME NEW d \in Daemons, DaemonOpens(d)
      PROVE  IInv'
  <2>1. /\ DaemonType' /\ Running' = Running
        /\ \A e \in Daemons : daemon'[e] # "gone" <=> daemon[e] # "gone"
    BY <1>1, <1>8 DEF DaemonOpens, DaemonType, Running, Up
  <2>2. /\ OneUp' = OneUp /\ NoneUp' = NoneUp
        /\ AllGone' = AllGone /\ OneLeft' = OneLeft
    BY <2>1 DEF OneUp, NoneUp, AllGone, OneLeft
  <2>3. Idle' = Idle /\ OneBusy' = OneBusy /\ Cleared' = Cleared /\ ShellType' = ShellType
    BY <1>8, <2>2 DEF DaemonOpens, Idle, OneBusy, Cleared, ShellType
  <2> QED
    BY <1>2, <1>8, <2>1, <2>2, <2>3
       DEF DaemonOpens, IInv, Types, Flags, Steps, Errand, Shelled, Single, Seen, Known,
           Reached, Parting, Begun, Watcher, Resting, fields, pool, unbind, inotify, ghosts
<1>9. ASSUME NEW d \in Daemons, ChildrenEnd(d)
      PROVE  IInv'
  <2>1. /\ DaemonType' /\ Running' = Running
        /\ daemon[d] = "lost" /\ daemon'[d] = "gone"
        /\ \A e \in Daemons \ {d} : daemon'[e] = daemon[e]
    BY <1>1, <1>9 DEF ChildrenEnd, DaemonType, Running, Up
  <2>2. /\ OneUp' = OneUp /\ NoneUp' = NoneUp /\ ~AllGone
        /\ (OneLeft => OneLeft' /\ AllGone')
    BY <2>1 DEF OneUp, NoneUp, AllGone, OneLeft
  <2>3. Idle' = Idle /\ OneBusy' = OneBusy /\ Cleared' = Cleared /\ ShellType' = ShellType
    BY <1>9, <2>2 DEF ChildrenEnd, Idle, OneBusy, Cleared, ShellType
  <2>4. /\ events = 0
        /\ \/ events' = 0
           \/ watching /\ events' = 1 /\ AllGone'
    BY <1>1, <1>9, <2>2 DEF ChildrenEnd, Seen, Types, Flags, Steps
  <2> QED
    BY <1>2, <1>9, <2>1, <2>2, <2>3, <2>4
       DEF ChildrenEnd, IInv, Types, Flags, Steps, Errand, Shelled, Single, Seen, Known,
           Reached, Parting, Begun, Watcher, Resting, fields, pool, unbind, inotify, ghosts
<1>10. ASSUME NEW d \in Daemons, DaemonDies(d)
       PROVE  IInv'
  <2>1. {d} \in SUBSET Running /\ EndDaemons({d}) /\ UNCHANGED shell
    BY <1>10 DEF DaemonDies
  <2>2. /\ UNCHANGED <<executor, isProbablyRunning, worker, queue, main, observer, crashed,
                       watching, adb, shell, failed>>
        /\ UNCHANGED <<fileObserverG20, executorActive, killer, dir, late>>
        /\ deaths' = deaths + 1 /\ deaths < MaxDeaths /\ blind' \in BOOLEAN
    BY <1>2, <1>10 DEF fields, pool, DaemonDies
  <2>3. /\ DaemonType' /\ (NoneUp => NoneUp') /\ events' \in Nat
        /\ Errand' /\ Shelled' /\ Single' /\ Seen' /\ Known' /\ Reached'
    BY <2>1, <2>2, EndOuter, EndService
  <2>4. Types'
    <3>1. Flags'
      BY <1>1, <2>2 DEF Types, Flags
    <3>2. Steps' /\ ShellType'
      BY <1>1, <2>2, <2>3, ServiceAssumption DEF Types, Steps, ShellType
    <3> QED
      BY <2>3, <3>1, <3>2 DEF Types
  <2>5. Parting'
    BY <2>2, <2>3 DEF IInv, Parting, Begun, Idle
  <2> QED
    BY <2>3, <2>4, <2>5 DEF IInv
<1> QED
  BY <1>3, <1>4, <1>5, <1>6, <1>7, <1>8, <1>9, <1>10 DEF Outside, ShellStep, DaemonStep

-----------------------------------------------------------------------------
(* The executor's thread goes on with its task, or ends it.                *)
LEMMA TaskGoesOn ==
  ASSUME IInv, ~crashed, worker # "none",
         UNCHANGED <<executor, fileObserverG20, queue, main, executorActive, killer, observer,
                     watching, events, adb, dir, shell, daemon, deaths, blind, late>>,
         worker' \in {"none", "adb", "connect", "write", "wait", "sleep"} \cup Watcher,
         crashed' \in BOOLEAN, isProbablyRunning' \in BOOLEAN,
         failed' = failed \/ failed' = TRUE,
         worker' \in {"none", "wait", "sleep"} \/ Idle,
         worker' \in Watcher => OneLeft /\ isProbablyRunning',
         worker' = "none" => failed' \/ crashed' \/ executor # "open" \/ (Idle /\ isProbablyRunning'),
         worker' \notin {"none", "adb"} => adb, isProbablyRunning' => adb, Begun' => Begun
  PROVE  IInv'
<1>1. Types /\ Errand /\ Shelled /\ Single /\ Seen /\ Known /\ Reached /\ Parting
  BY DEF IInv
<1>2. /\ Idle' = Idle /\ AllGone' = AllGone /\ OneLeft' = OneLeft /\ NoneUp' = NoneUp
      /\ OneUp' = OneUp /\ OneBusy' = OneBusy /\ Cleared' = Cleared
      /\ ShellType' = ShellType /\ DaemonType' = DaemonType
  BY SameOuter
<1>3. queue = 0 /\ observer = "idle" /\ events = 0 /\ ~watching /\ main # "new"
  BY <1>1 DEF Errand, Resting
<1>5. Types'
  <2>1. Flags'
    BY <1>1 DEF Types, Flags
  <2>2. Steps' /\ ShellType' /\ DaemonType'
    BY <1>1, <1>2 DEF Types, Steps, Watcher
  <2> QED
    BY <2>1, <2>2 DEF Types
<1>6. Errand' /\ Shelled' /\ Single'
  BY <1>1, <1>2, <1>3 DEF Errand, Shelled, Single, Resting
<1>7. Seen' /\ Known' /\ Reached'
  BY <1>1, <1>2, <1>3 DEF Seen, Known, Reached, Watcher
<1>8. Parting'
  BY <1>1, <1>2 DEF Parting
<1> QED
  BY <1>5, <1>6, <1>7, <1>8 DEF IInv

LEMMA WorkerKeeps ==
  ASSUME Prompt, IInv, Worker
  PROVE  IInv'
<1>1. Types /\ Errand /\ Shelled /\ Single /\ Seen /\ Known /\ Reached /\ Parting
  BY DEF IInv
<1>2. CASE TakeTask
  <2>1. UNCHANGED <<shell, daemon>>
    BY <1>2 DEF TakeTask, android
  <2> QED
    BY <1>2, <2>1, SameOuter
       DEF TakeTask, At, IInv, Types, Flags, Steps, Errand, Shelled, Single, Seen, Known,
           Reached, Parting, Begun, Watcher, Resting, fields, pool, unbind, inotify, android, ghosts
<1>3. CASE AwaitAdb
  <2>1. /\ ~crashed /\ worker = "adb"
        /\ UNCHANGED <<executor, fileObserverG20, isProbablyRunning, queue, main, executorActive,
                       killer, observer, watching, events, adb, dir, shell, daemon, deaths, blind, late>>
    BY <1>3 DEF AwaitAdb, At, fields, unbind, inotify, android
  <2>2. Idle /\ isProbablyRunning' \in BOOLEAN /\ (isProbablyRunning' => adb)
    BY <1>1, <2>1 DEF Shelled, Reached, Types, Flags, Steps
  <2>3. \/ executor = "null" /\ crashed' = TRUE /\ worker' = "adb" /\ failed' = failed
        \/ executor # "open" /\ worker' = "none" /\ crashed' = crashed /\ failed' = failed
        \/ /\ adb /\ worker' = "connect" /\ crashed' = crashed /\ failed' = failed
           /\ executor = "open"
        \/ worker' = "none" /\ crashed' = crashed /\ failed' = TRUE
    BY <1>3, <2>1 DEF AwaitAdb, UnlessShutdown, GoTo, GiveUp
  <2>4. crashed' \in BOOLEAN /\ (Begun' => Begun)
    BY <1>1, <2>1, <2>3 DEF Types, Flags, Steps, Begun
  <2> QED
    BY <2>1, <2>2, <2>3, <2>4, TaskGoesOn DEF Watcher
<1>4. CASE Connect
  <2>1. /\ ~crashed /\ worker = "connect"
        /\ UNCHANGED <<executor, fileObserverG20, isProbablyRunning, queue, main, executorActive,
                       killer, observer, watching, events, adb, dir, shell, daemon, deaths, blind, late>>
    BY <1>4 DEF Connect, At, fields, unbind, inotify, android
  <2>2. Idle /\ adb /\ isProbablyRunning' \in BOOLEAN
    BY <1>1, <2>1 DEF Shelled, Reached, Types, Flags, Steps
  <2>3. /\ crashed' = crashed
        /\ \/ worker' = "none" /\ failed' = TRUE
           \/ executor # "open" /\ worker' = "none" /\ failed' = failed
           \/ executor = "open" /\ worker' = "write" /\ failed' = failed
    BY <1>4 DEF Connect, GoTo, GiveUp
  <2>4. crashed' \in BOOLEAN /\ (Begun' => Begun)
    BY <1>1, <2>1, <2>3 DEF Types, Flags, Steps, Begun
  <2> QED
    BY <2>1, <2>2, <2>3, <2>4, TaskGoesOn DEF Watcher
<1>5. CASE Write
  <2>1. UNCHANGED daemon /\ worker = "write" /\ Idle /\ OneUp
    BY <1>1, <1>5 DEF Write, At, Shelled, Single
  <2>2. /\ DaemonType' = DaemonType /\ OneUp' = OneUp /\ NoneUp' = NoneUp
        /\ AllGone' = AllGone /\ OneLeft' = OneLeft
    BY <2>1 DEF DaemonType, OneUp, NoneUp, AllGone, OneLeft, Running, Up
  <2>3. CASE GiveUp /\ UNCHANGED shell
    <3>1. /\ Idle' = Idle /\ OneBusy' = OneBusy /\ Cleared' = Cleared /\ ShellType' = ShellType
      BY <2>1, <2>3, SameOuter
    <3> QED
      BY <1>5, <2>1, <2>2, <2>3, <3>1
         DEF Write, GiveUp, IInv, Types, Flags, Steps, Errand, Shelled, Single, Seen, Known,
             Reached, Parting, Begun, Watcher, Resting, fields, unbind, inotify
  <2>4. ASSUME NEW i \in Shells, shell' = [shell EXCEPT ![i] = "kill"], GoTo("wait") \/ GiveUp
        PROVE  IInv'
    <3>1. shell'[i] = "kill" /\ \A j \in Shells \ {i} : shell'[j] = "none"
      BY <1>1, <2>1, <2>4 DEF Types, Flags, Steps, ShellType, Idle
    <3>2. ShellType' /\ ~Idle' /\ OneBusy' /\ Cleared'
      BY <1>1, <2>4, <3>1 DEF Types, Flags, Steps, ShellType, Idle, OneBusy, Cleared
    <3>3. /\ UNCHANGED <<executor, fileObserverG20, isProbablyRunning, queue, main, executorActive,
                         killer, observer, watching, events, adb, dir, deaths, crashed, blind, late>>
          /\ \/ worker' = "wait" /\ failed' = failed
             \/ worker' = "none" /\ failed' = TRUE
      BY <1>5, <2>4 DEF Write, GoTo, GiveUp, fields, unbind, inotify
    <3>4. /\ queue = 0 /\ observer = "idle" /\ events = 0 /\ ~watching /\ main # "new" /\ adb
          /\ Begun
      BY <1>1, <2>1, <3>3 DEF Errand, Resting, Reached, Begun
    <3>5. Types'
      <4>1. Flags'
        BY <1>1, <3>3 DEF Types, Flags
      <4>2. Steps' /\ ShellType' /\ DaemonType'
        BY <1>1, <2>2, <3>2, <3>3 DEF Types, Steps
      <4> QED
        BY <4>1, <4>2 DEF Types
    <3>6. Errand' /\ Shelled' /\ Single'
      BY <1>1, <2>2, <3>2, <3>3, <3>4 DEF Errand, Shelled, Single, Resting
    <3>7. Seen' /\ Known' /\ Reached'
      BY <1>1, <2>1, <2>2, <3>2, <3>3, <3>4 DEF Seen, Known, Reached, Watcher
    <3>8. Parting'
      BY <1>1, <3>3, <3>4 DEF Parting
    <3> QED
      BY <3>5, <3>6, <3>7, <3>8 DEF IInv
  <2> QED
    BY <1>5, <2>3, <2>4 DEF Write
<1>6. CASE Wait
  <2>1. /\ ~crashed /\ worker = "wait"
        /\ UNCHANGED <<executor, fileObserverG20, isProbablyRunning, queue, main, executorActive,
                       killer, observer, watching, events, adb, dir, shell, daemon, deaths, blind, late>>
    BY <1>6 DEF Wait, At, fields, unbind, inotify, android
  <2>2. adb /\ isProbablyRunning' \in BOOLEAN
    BY <1>1, <2>1 DEF Reached, Types, Flags, Steps
  <2>3. /\ failed' = failed
        /\ \/ executor = "null" /\ crashed' = TRUE /\ worker' = "wait"
           \/ executor # "open" /\ worker' = "none" /\ crashed' = crashed
           \/ worker' = "sleep" /\ crashed' = crashed
    BY <1>6, <2>1 DEF Wait, UnlessShutdown, GoTo
  <2>4. crashed' \in BOOLEAN /\ (Begun' => Begun)
    BY <1>1, <2>1, <2>3 DEF Types, Flags, Steps, Begun
  <2> QED
    BY <2>1, <2>2, <2>3, <2>4, TaskGoesOn DEF Watcher
<1>7. CASE Look
  <2>1. /\ ~crashed /\ worker = "sleep" /\ Settled
        /\ UNCHANGED <<executor, fileObserverG20, queue, main, executorActive,
                       killer, observer, watching, events, adb, dir, shell, daemon, deaths, blind, late>>
    BY <1>7 DEF Look, At, unbind, inotify, android
  <2>2. Idle /\ OneLeft
    <3>1. Idle /\ \A d \in Daemons : daemon[d] \in {"gone", "up"}
      BY <2>1 DEF Settled, Idle
    <3> QED
      BY <1>1, <3>1 DEF Single, OneUp, OneLeft, Running, Up
  <2>3. /\ crashed' = crashed
        /\ \/ /\ executor \in {"stop", "null"} /\ worker' = "none"
              /\ UNCHANGED <<failed, isProbablyRunning>>
           \/ worker' = "found" /\ isProbablyRunning' = TRUE /\ failed' = failed
           \/ worker' = "wait" /\ UNCHANGED <<failed, isProbablyRunning>>
           \/ worker' = "none" /\ failed' = TRUE /\ UNCHANGED isProbablyRunning
    BY <1>7 DEF Look, GoTo, GiveUp
  <2>4. adb /\ crashed' \in BOOLEAN /\ isProbablyRunning' \in BOOLEAN
    BY <1>1, <2>1, <2>3 DEF Types, Flags, Steps, Reached
  <2>5. Begun' => Begun
    BY <1>1, <2>1, <2>3 DEF Begun
  <2> QED
    BY <2>1, <2>2, <2>3, <2>4, <2>5, TaskGoesOn DEF Watcher
<1>8. ASSUME worker \in Watcher, ~crashed, worker' \in {"none"} \cup Watcher,
             crashed' = crashed \/ crashed' = TRUE, failed' = failed,
             UNCHANGED <<executor, fileObserverG20, isProbablyRunning, queue, main, executorActive,
                         killer, observer, watching, events, adb, dir, shell, daemon, deaths,
                         blind, late>>
      PROVE  IInv'
  <2>1. worker # "none" /\ worker' \notin {"adb", "connect", "write"}
    BY <1>8 DEF Watcher
  <2>2. /\ Idle /\ OneLeft /\ adb /\ isProbablyRunning /\ isProbablyRunning' = TRUE
        /\ crashed' \in BOOLEAN
    BY <1>1, <1>8, <2>1 DEF Shelled, Seen, Known, Reached, Watcher, Types, Flags, Steps
  <2>3. Begun' => Begun
    BY <1>8, <2>1 DEF Begun
  <2> QED
    BY <1>8, <2>1, <2>2, <2>3, TaskGoesOn
<1>9. CASE Found
  <2>1. /\ ~crashed /\ worker = "found"
        /\ UNCHANGED <<executor, fileObserverG20, isProbablyRunning, queue, main, executorActive,
                       killer, observer, watching, events, adb, dir, shell, daemon, deaths, blind, late>>
    BY <1>9 DEF Found, At, fields, unbind, inotify, android
  <2>2. /\ failed' = failed
        /\ \/ crashed' = TRUE /\ worker' = "found"
           \/ worker' \in {"none", "test"} /\ crashed' = crashed
    BY <1>9, <2>1 DEF Found, UnlessShutdown, GoTo
  <2> QED
    BY <1>8, <2>1, <2>2 DEF Watcher
<1>10. CASE TestObserver
  <2>1. /\ ~crashed /\ worker = "test" /\ worker' \in {"load", "none"}
        /\ UNCHANGED <<executor, fileObserverG20, isProbablyRunning, queue, main, executorActive,
                       killer, observer, watching, events, adb, dir, shell, daemon, deaths, blind, late>>
        /\ UNCHANGED <<crashed, failed>>
    BY <1>10 DEF TestObserver, At, fields, unbind, inotify, android, ghosts
  <2> QED
    BY <1>8, <2>1 DEF Watcher
<1>11. CASE LoadObserver
  <2>1. /\ ~crashed /\ worker = "load" /\ worker' \in {"watch", "none"}
        /\ UNCHANGED <<executor, fileObserverG20, isProbablyRunning, queue, main, executorActive,
                       killer, observer, watching, events, adb, dir, shell, daemon, deaths, blind, late>>
        /\ crashed' = ~fileObserverG20 /\ UNCHANGED failed
    BY <1>11 DEF LoadObserver, At, fields, unbind, inotify, android, ghosts
  <2>2. crashed' = crashed \/ crashed' = TRUE
    BY <1>1, <2>1 DEF Types, Flags
  <2> QED
    BY <1>8, <2>1, <2>2 DEF Watcher
<1>12. CASE StartWatching
  <2>1. /\ ~crashed /\ worker = "watch" /\ worker' = "none" /\ watching' = TRUE
        /\ UNCHANGED <<executor, fileObserverG20, isProbablyRunning, queue, main, executorActive,
                       killer, observer, events, crashed, adb, dir, shell, daemon, deaths, failed, blind, late>>
    BY <1>12 DEF StartWatching, At, fields, unbind, android, ghosts
  <2>2. /\ Idle' = Idle /\ AllGone' = AllGone /\ OneLeft' = OneLeft /\ NoneUp' = NoneUp
        /\ OneUp' = OneUp /\ OneBusy' = OneBusy /\ Cleared' = Cleared
        /\ ShellType' = ShellType /\ DaemonType' = DaemonType
    BY <2>1, SameOuter
  <2>3. /\ queue = 0 /\ observer = "idle" /\ events = 0 /\ main # "new"
        /\ Idle /\ OneLeft /\ adb /\ isProbablyRunning
    BY <1>1, <2>1 DEF Errand, Resting, Shelled, Seen, Known, Reached, Watcher
  <2>4. Types'
    <3>1. Flags'
      BY <1>1, <2>1 DEF Types, Flags
    <3>2. Steps' /\ ShellType' /\ DaemonType'
      BY <1>1, <2>1, <2>2 DEF Types, Steps
    <3> QED
      BY <3>1, <3>2 DEF Types
  <2>5. Errand' /\ Shelled' /\ Single'
    BY <1>1, <2>1, <2>2, <2>3 DEF Errand, Shelled, Single
  <2>6. Seen' /\ Known' /\ Reached'
    BY <1>1, <2>1, <2>2, <2>3 DEF Seen, Known, Reached, Watcher
  <2>7. Begun' => Begun
    BY <2>1 DEF Begun
  <2>8. Parting'
    BY <1>1, <2>1, <2>2, <2>7 DEF Parting
  <2> QED
    BY <2>4, <2>5, <2>6, <2>8 DEF IInv
<1> QED
  BY <1>2, <1>3, <1>4, <1>5, <1>6, <1>7, <1>9, <1>10, <1>11, <1>12 DEF Worker

(* The watch or the field is let go of.                                    *)
LEMMA LetGo ==
  ASSUME IInv,
         UNCHANGED <<executor, isProbablyRunning, worker, queue, executorActive, killer, events,
                     crashed, adb, dir, shell, daemon, deaths, failed, blind, late>>,
         watching' = watching \/ watching' = FALSE,
         fileObserverG20' = fileObserverG20 \/ fileObserverG20' = FALSE,
         \/ observer' = observer
         \/ observer = "stop" /\ observer' = "asleep" /\ ~watching',
         \/ main' = main
         \/ main = "bound" /\ main' = "stopped"
         \/ main = "stopped" /\ main' = "active" /\ ~fileObserverG20'
  PROVE  IInv'
<1>1. Types /\ Errand /\ Shelled /\ Single /\ Seen /\ Known /\ Reached /\ Parting
  BY DEF IInv
<1>2. /\ Idle' = Idle /\ AllGone' = AllGone /\ OneLeft' = OneLeft /\ NoneUp' = NoneUp
      /\ OneUp' = OneUp /\ OneBusy' = OneBusy /\ Cleared' = Cleared
      /\ ShellType' = ShellType /\ DaemonType' = DaemonType
  BY SameOuter
<1>3. Flags'
  BY <1>1 DEF Types, Flags
<1>4. Steps'
  BY <1>1 DEF Types, Steps
<1>5. Types'
  BY <1>1, <1>2, <1>3, <1>4 DEF Types
<1>6. Errand' /\ Shelled' /\ Single'
  BY <1>1, <1>2 DEF Errand, Shelled, Single, Resting
<1>7. Seen' /\ Known' /\ Reached'
  BY <1>1, <1>2 DEF Seen, Known, Reached
<1>8. Begun' => Begun
  BY DEF Begun
<1>9. Parting'
  BY <1>1, <1>2, <1>8 DEF Parting
<1> QED
  BY <1>5, <1>6, <1>7, <1>9 DEF IInv

(* The observer's thread.                                                  *)
LEMMA ObserverKeeps ==
  ASSUME Prompt, IInv, Observer
  PROVE  IInv'
<1>0. Types /\ Errand /\ Shelled /\ Single /\ Seen /\ Known /\ Reached /\ Parting
  BY DEF IInv
<1>1. CASE OnEvent
  <2>1. /\ observer = "idle" /\ events > 0 /\ events' = events - 1
        /\ isProbablyRunning' = FALSE /\ observer' = "stop"
        /\ UNCHANGED <<watching, executor, fileObserverG20, worker, queue, main, executorActive, killer,
                       crashed, adb, dir, shell, daemon, deaths, failed, blind, late>>
    BY <1>1 DEF OnEvent, At, pool, unbind, android, ghosts
  <2>2. /\ Idle' = Idle /\ AllGone' = AllGone /\ OneLeft' = OneLeft /\ NoneUp' = NoneUp
        /\ OneUp' = OneUp /\ OneBusy' = OneBusy /\ Cleared' = Cleared
        /\ ShellType' = ShellType /\ DaemonType' = DaemonType
    BY <2>1, SameOuter
  <2>3. events' = 0 /\ AllGone /\ NoneUp /\ main # "new" /\ worker = "none" /\ queue = 0 /\ Idle
    BY <1>0, <2>1, Outer DEF Types, Flags, Steps, Errand, Shelled, Seen, Resting
  <2>4. Begun' => Begun
    BY <2>1 DEF Begun
  <2>5. Types'
    <3>1. Flags'
      BY <1>0, <2>1 DEF Types, Flags
    <3>2. Steps' /\ ShellType' /\ DaemonType'
      BY <1>0, <2>1, <2>2, <2>3 DEF Types, Steps
    <3> QED
      BY <3>1, <3>2 DEF Types
  <2>6. Errand' /\ Shelled' /\ Single'
    <3>1. /\ observer' = "stop" /\ events' = 0 /\ queue' = 0
          /\ worker' = "none" /\ main' # "new"
      BY <2>1, <2>3
    <3>2. Errand'
      BY <3>1 DEF Errand
    <3>3. Shelled' /\ Single'
      BY <1>0, <2>2, <2>3 DEF Shelled, Single
    <3> QED
      BY <3>2, <3>3
  <2>7. Seen' /\ Known' /\ Reached'
    BY <1>0, <2>1, <2>2, <2>3 DEF Seen, Known, Reached, Watcher
  <2>8. Parting'
    BY <1>0, <2>1, <2>2, <2>4 DEF Parting
  <2> QED
    BY <2>5, <2>6, <2>7, <2>8 DEF IInv
<1>2. CASE StopWatching
  BY <1>2, LetGo
     DEF StopWatching, At, fields, pool, unbind, android, inotify, ghosts
<1>3. CASE Wake
  <2>1. UNCHANGED <<shell, daemon>>
    BY <1>3 DEF Wake, android
  <2> QED
    BY <1>3, <2>1, SameOuter
       DEF Wake, At, IInv, Types, Flags, Steps, Errand, Shelled, Single, Seen, Known,
           Reached, Parting, Begun, Watcher, Resting, fields, pool, unbind, inotify, android, ghosts
<1>4. CASE Restart
  <2>1. UNCHANGED <<shell, daemon>>
    BY <1>4 DEF Restart, android
  <2> QED
    BY <1>4, <2>1, SameOuter
       DEF Restart, At, IInv, Types, Flags, Steps, Errand, Shelled, Single, Seen, Known,
           Reached, Parting, Begun, Watcher, Resting, fields, pool, unbind, inotify, android, ghosts
<1> QED
  BY <1>1, <1>2, <1>3, <1>4 DEF Observer

(* The main thread and the one that stops the daemon.                      *)
LEMMA MainKeeps ==
  ASSUME IInv, onServiceConnected \/ onUnbind \/ Unbinding \/ Killer
  PROVE  IInv'
<1>0. Types /\ Errand /\ Shelled /\ Single /\ Seen /\ Known /\ Reached /\ Parting
  BY DEF IInv
<1>1. CASE onServiceConnected
  <2>1. /\ main = "new" /\ main' = "bound" /\ executor' = "open" /\ fileObserverG20' = TRUE
        /\ isProbablyRunning' = FALSE /\ queue' = 1
        /\ UNCHANGED <<worker, executorActive, killer, observer, watching, events,
                       crashed, adb, dir, shell, daemon, deaths, failed, blind, late>>
    BY <1>1 DEF onServiceConnected, At, inotify, android, ghosts
  <2>2. /\ Idle' = Idle /\ AllGone' = AllGone /\ OneLeft' = OneLeft /\ NoneUp' = NoneUp
        /\ OneUp' = OneUp /\ OneBusy' = OneBusy /\ Cleared' = Cleared
        /\ ShellType' = ShellType /\ DaemonType' = DaemonType
    BY <2>1, SameOuter
  <2>3. Resting /\ Idle /\ killer = "none"
    BY <1>0, <2>1 DEF Types, Flags, Steps, Errand, Parting
  <2>4. Types'
    <3>1. Flags'
      BY <1>0, <2>1 DEF Types, Flags
    <3>2. Steps' /\ ShellType' /\ DaemonType'
      BY <1>0, <2>1, <2>2 DEF Types, Steps
    <3> QED
      BY <3>1, <3>2 DEF Types
  <2>5. Errand' /\ Shelled' /\ Single'
    BY <1>0, <2>1, <2>2, <2>3 DEF Errand, Shelled, Single, Resting
  <2>6. Seen' /\ Known' /\ Reached'
    BY <1>0, <2>1, <2>2, <2>3 DEF Seen, Known, Reached, Watcher, Resting
  <2>7. Parting'
    BY <2>1, <2>3 DEF Parting
  <2> QED
    BY <2>4, <2>5, <2>6, <2>7 DEF IInv
<1>2. CASE onUnbind
  BY <1>2, LetGo
     DEF onUnbind, At, fields, pool, unbind, android, inotify, ghosts
<1>3. CASE UnbindForget
  BY <1>3, LetGo
     DEF UnbindForget, At, fields, pool, unbind, android, inotify, ghosts
<1>4. CASE UnbindActive
  <2>1. UNCHANGED <<shell, daemon>>
    BY <1>4 DEF UnbindActive, android
  <2> QED
    BY <1>4, <2>1, SameOuter
       DEF UnbindActive, At, IInv, Types, Flags, Steps, Errand, Shelled, Single, Seen, Known,
           Reached, Parting, Begun, Watcher, Resting, fields, pool, unbind, inotify, android, ghosts
<1>5. CASE UnbindDecide
  <2>1. /\ main = "decide" /\ ~crashed
        /\ executor' = IF executorActive THEN "shutdown" ELSE executor
        /\ main' = IF executorActive THEN "await" ELSE IF isProbablyRunning THEN "kill" ELSE "unbound"
        /\ late' = (late \/ (main' = "unbound" /\ (worker # "none" \/ Starting)))
        /\ UNCHANGED <<fileObserverG20, isProbablyRunning, worker, queue, executorActive, killer,
                       observer, watching, events, crashed, adb, dir, shell, daemon, deaths, failed, blind>>
    BY <1>5 DEF UnbindDecide, At, pool, inotify, android
  <2>2. /\ Idle' = Idle /\ AllGone' = AllGone /\ OneLeft' = OneLeft /\ NoneUp' = NoneUp
        /\ OneUp' = OneUp /\ OneBusy' = OneBusy /\ Cleared' = Cleared
        /\ ShellType' = ShellType /\ DaemonType' = DaemonType
    BY <2>1, SameOuter
  <2>3. executor = "open" /\ killer = "none" /\ ~fileObserverG20 /\ main' # "new"
    BY <1>0, <2>1 DEF Types, Flags, Steps, Parting
  <2>4. Types'
    <3>1. Flags'
      BY <1>0, <2>1 DEF Types, Flags
    <3>2. Steps' /\ ShellType' /\ DaemonType'
      BY <1>0, <2>1, <2>2 DEF Types, Steps, Flags
    <3> QED
      BY <3>1, <3>2 DEF Types
  <2>5. Errand' /\ Shelled' /\ Single'
    BY <1>0, <2>1, <2>2, <2>3 DEF Errand, Shelled, Single
  <2>6. Seen' /\ Known' /\ Reached'
    BY <1>0, <2>1, <2>2 DEF Seen, Known, Reached, Watcher
  <2>7. ASSUME main' = "unbound", ~late', ~failed
        PROVE  NoneUp /\ Idle /\ ~Begun'
    <3>1. /\ worker = "none" /\ ~Starting /\ ~isProbablyRunning /\ ~executorActive
          /\ executor' = "open"
      BY <1>0, <2>1, <2>3, <2>7 DEF Types, Flags
    <3>2. Idle /\ queue = 0 /\ observer # "start"
      BY <1>0, <2>3, <3>1 DEF Starting, Idle, Types, Steps
    <3>3. NoneUp
      BY <1>0, <2>1, <2>3, <2>7, <3>1, <3>2 DEF Known
    <3> QED
      BY <2>1, <3>1, <3>2, <3>3 DEF Begun
  <2>8. Parting'
    <3>1. main' = "kill" => adb
      BY <1>0, <2>1 DEF Reached, Types, Flags
    <3>2. main' \in {"await", "kill", "unbound"}
      BY <2>1
    <3> QED
      BY <2>1, <2>2, <2>3, <2>7, <3>1, <3>2 DEF Parting
  <2> QED
    BY <2>4, <2>5, <2>6, <2>8 DEF IInv
<1>6. CASE UnbindAwait
  <2>1. UNCHANGED <<shell, daemon>>
    BY <1>6 DEF UnbindAwait, android
  <2> QED
    BY <1>6, <2>1, SameOuter
       DEF UnbindAwait, At, IInv, Types, Flags, Steps, Errand, Shelled, Single, Seen, Known,
           Reached, Parting, Begun, Watcher, Resting, fields, pool, unbind, inotify, android, ghosts
<1>7. CASE UnbindNull
  <2>1. UNCHANGED <<shell, daemon>>
    BY <1>7 DEF UnbindNull, android
  <2> QED
    BY <1>7, <2>1, SameOuter
       DEF UnbindNull, At, IInv, Types, Flags, Steps, Errand, Shelled, Single, Seen, Known,
           Reached, Parting, Begun, Watcher, Resting, fields, pool, unbind, inotify, android, ghosts
<1>8. CASE UnbindKill
  <2>1. UNCHANGED <<shell, daemon>>
    BY <1>8 DEF UnbindKill, android
  <2> QED
    BY <1>8, <2>1, SameOuter
       DEF UnbindKill, At, IInv, Types, Flags, Steps, Errand, Shelled, Single, Seen, Known,
           Reached, Parting, Begun, Watcher, Resting, fields, pool, unbind, inotify, android, ghosts
<1>9. CASE Killer
  <2>1. /\ killer = "connect" /\ main = "unbound"
        /\ UNCHANGED <<executor, isProbablyRunning, worker, queue, main, observer, crashed,
                       watching, adb, shell, failed>>
        /\ UNCHANGED <<fileObserverG20, executorActive, dir, deaths, blind>>
        /\ late' = (late \/ Starting)
    BY <1>0, <1>9 DEF Parting, Killer, At, fields, pool
  <2>2. ~Starting => Idle /\ ~Begun
    BY DEF Starting, Begun, Idle
  <2>3. \/ killer' = "failed" /\ UNCHANGED <<daemon, events>>
        \/ killer' = "done" /\ EndDaemons(Running)
    BY <1>9 DEF Killer
  <2>4. /\ DaemonType' /\ (killer' = "done" => NoneUp') /\ events' \in Nat
        /\ Errand' /\ Shelled' /\ Single' /\ Seen' /\ Known' /\ Reached'
    <3>1. CASE EndDaemons(Running) /\ killer' = "done"
      BY <2>1, <3>1, EndOuter, EndService
    <3>2. CASE killer' = "failed" /\ UNCHANGED <<daemon, events>>
      <4>1. /\ Idle' = Idle /\ AllGone' = AllGone /\ OneLeft' = OneLeft /\ NoneUp' = NoneUp
            /\ OneUp' = OneUp /\ OneBusy' = OneBusy /\ Cleared' = Cleared
            /\ DaemonType' = DaemonType
        BY <2>1, <3>2, SameOuter
      <4>2. DaemonType' /\ events' \in Nat
        BY <1>0, <3>2, <4>1 DEF Types, Steps
      <4>3. Errand' /\ Shelled' /\ Single'
        BY <1>0, <2>1, <3>2, <4>1 DEF Errand, Resting, Shelled, Single
      <4>4. Seen' /\ Known' /\ Reached'
        BY <1>0, <2>1, <3>2, <4>1 DEF Seen, Known, Reached
      <4> QED
        BY <3>2, <4>2, <4>3, <4>4
    <3> QED
      BY <2>3, <3>1, <3>2
  <2>5. Types'
    <3>1. Flags'
      BY <1>0, <2>1 DEF Types, Flags
    <3>2. Steps' /\ ShellType'
      BY <1>0, <2>1, <2>3, <2>4 DEF Types, Steps, ShellType
    <3> QED
      BY <2>4, <3>1, <3>2 DEF Types
  <2>6. Parting'
    BY <1>0, <2>1, <2>2, <2>3, <2>4 DEF Parting, Begun, Idle
  <2> QED
    BY <2>4, <2>5, <2>6 DEF IInv
<1> QED
  BY <1>1, <1>2, <1>3, <1>4, <1>5, <1>6, <1>7, <1>8, <1>9 DEF Unbinding

-----------------------------------------------------------------------------
LEMMA StepPreserves ==
  ASSUME Prompt
  PROVE  IInv /\ [Next]_vars => IInv'
<1> SUFFICES ASSUME IInv, [Next]_vars
             PROVE  IInv'
  OBVIOUS
<1>1. CASE UNCHANGED vars
  <2>1. UNCHANGED <<shell, daemon>>
    BY <1>1 DEF vars, android
  <2> QED
    BY <1>1, <2>1, SameOuter
       DEF vars, IInv, Types, Flags, Steps, Errand, Shelled, Single, Seen, Known,
           Reached, Parting, Begun, Watcher, Resting, fields, pool, unbind, inotify, android, ghosts
<1>2. CASE Outside
  BY <1>2, OutsideKeeps
<1>3. CASE Worker
  BY <1>3, WorkerKeeps
<1>4. CASE Observer
  BY <1>4, ObserverKeeps
<1>5. CASE onServiceConnected \/ onUnbind \/ Unbinding \/ Killer
  BY <1>5, MainKeeps
<1> QED
  BY <1>1, <1>2, <1>3, <1>4, <1>5 DEF Next, App

(* If the delays suffice, the service's state keeps its types; of events   *)
(* and tasks at most one waits.                                            *)
THEOREM TypeCorrect == ASSUME Prompt PROVE Spec => []TypeOK
<1>1. IInv => TypeOK
  <2> SUFFICES ASSUME IInv
               PROVE  TypeOK
    OBVIOUS
  <2>1. Types /\ Errand /\ Seen
    BY DEF IInv
  <2>2. queue \in 0 .. 1 /\ events \in 0 .. 1
    BY <2>1 DEF Types, Flags, Steps, Errand, Seen
  <2> QED
    BY <2>1, <2>2 DEF Types, Flags, Steps, ShellType, DaemonType, TypeOK
<1>2. IInv /\ [Next]_vars => IInv'
  BY StepPreserves
<1> QED
  BY <1>1, <1>2, InitEstablishes, PTL DEF Spec

(* If the delays suffice, killall before exec keeps it at one daemon,      *)
(* through any number of restarts and with any number of shells.           *)
THEOREM NeverTwo == ASSUME Prompt PROVE Spec => []OneDaemon
<1>1. IInv => OneDaemon
  <2> SUFFICES ASSUME \A d, e \in Running : d = e
               PROVE  Cardinality(Running) <= 1
    BY DEF IInv, Single, OneUp, OneDaemon
  <2>1. CASE Running = {}
    BY <2>1, FS_EmptySet
  <2>2. CASE Running # {}
    <3>1. PICK d \in Running : Running = {d}
      BY <2>2
    <3> QED
      BY <3>1, FS_Singleton
  <2> QED
    BY <2>1, <2>2
<1>2. IInv /\ [Next]_vars => IInv'
  BY StepPreserves
<1> QED
  BY <1>1, <1>2, InitEstablishes, PTL DEF Spec

(* If the delays suffice, what onEvent starts anew is a daemon that died.  *)
THEOREM RestartsTheDead == ASSUME Prompt PROVE Spec => RestartOnlyAfterDeath
<1>1. IInv => (observer = "start" /\ observer' = "idle" => Running = {})
  <2> SUFFICES ASSUME IInv, observer = "start"
               PROVE  Running = {}
    OBVIOUS
  <2>1. AllGone /\ DaemonType
    BY DEF IInv, Seen, Types, Flags, Steps
  <2> QED
    BY <2>1, Outer DEF NoneUp
<1>2. IInv /\ [Next]_vars => IInv'
  BY StepPreserves
<1>3. IInv => [observer = "start" /\ observer' = "idle" => Running = {}]_vars
  BY <1>1
<1> QED
  BY <1>2, <1>3, InitEstablishes, PTL DEF Spec, RestartOnlyAfterDeath

(* If the delays suffice, isProbablyRunning may decide alone.              *)
THEOREM KnownToRun == ASSUME Prompt PROVE Spec => []RunningIsKnown
<1>1. IInv => RunningIsKnown
  BY DEF IInv, Types, Flags, Steps, Known, RunningIsKnown, NoneUp
<1>2. IInv /\ [Next]_vars => IInv'
  BY StepPreserves
<1> QED
  BY <1>1, <1>2, InitEstablishes, PTL DEF Spec

(* If the delays suffice, an unbound service leaves no daemon and none     *)
(* comes up again, whatever its threads were at and whatever died while it *)
(* was unbound, if its killall gets through and no start was under way.    *)
THEOREM UnbindLeavesNone == ASSUME Prompt PROVE Spec => []UnbindStops
<1>1. IInv => UnbindStops
  BY DEF IInv, Parting, UnbindStops, NoneUp
<1>2. IInv /\ [Next]_vars => IInv'
  BY StepPreserves
<1> QED
  BY <1>1, <1>2, InitEstablishes, PTL DEF Spec
=============================================================================
