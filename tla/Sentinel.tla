------------------------------- MODULE Sentinel -------------------------------
(***************************************************************************)
(* The daemon's processes and their descriptors (native/g20dispatcher.c,   *)
(* daemonise, main up to the loop, start_cmd): from the process the shell  *)
(* becomes to the one that opens the sentinel and the children it spawns.  *)
(* A kernel that closes a descriptor when its last holder is gone, and an  *)
(* observer that is told then, are the outside.                            *)
(***************************************************************************)
EXTENDS Naturals, FiniteSets

CONSTANTS
  MaxProcs,   (* bound: processes there can be                             *)
  MaxNumber   (* bound: descriptor numbers                                 *)
ASSUME SentinelAssumption ==
  MaxProcs \in Nat \ {0} /\ MaxNumber \in Nat /\ MaxNumber > 4

VARIABLES
  pc,         (* where a process is                                        *)
  fd,         (* its descriptors                                           *)
  session,    (* the process that leads its session; 0 is the shell's      *)
  signed      (* the observer was told that the sentinel was closed        *)
vars == <<pc, fd, session, signed>>

Procs   == 1 .. MaxProcs
Numbers == 0 .. MaxNumber
None    == "none"
Std     == 0 .. 2
Opened  == {"unlink", "setup", "loop", "vfork"}
Dead    == {"unborn", "dead"}
CloseOnExec == {"binder"}

Open(i, f, n) ==
  [k \in Numbers |->
     IF i[k] = None /\ Cardinality({l \in Numbers : l < k /\ i[l] = None}) < n
     THEN f ELSE i[k]]
Close(i, K) == [k \in Numbers |-> IF k \in K THEN None ELSE i[k]]

HoldersIn(where, fds) ==
  {p \in Procs : where[p] \notin Dead /\ \E k \in Numbers : fds[p][k] = "sentinel"}
Holders == HoldersIn(pc, fd)

(* Processes come to new places with new descriptors; the observer is told *)
(* when the last holder of the sentinel is gone.                           *)
Become(where, fds) ==
  /\ pc' = where /\ fd' = fds
  /\ signed' = (signed \/ (Holders # {} /\ HoldersIn(where, fds) = {}))

Goto(p, from, to, fds) ==
  pc[p] = from /\ Become([pc EXCEPT ![p] = to], [fd EXCEPT ![p] = fds])

(* A call that fails ends the process.                                     *)
End(P) ==
  /\ Become([p \in Procs |-> IF p \in P THEN "dead" ELSE pc[p]], fd)
  /\ UNCHANGED session

Child == CHOOSE q \in Procs : pc[q] = "unborn"

Fork(p, from, to, childTo) ==
  /\ pc[p] = from /\ \E q \in Procs : pc[q] = "unborn"
  /\ Become([pc EXCEPT ![p] = to, ![Child] = childTo], [fd EXCEPT ![Child] = fd[p]])
  /\ session' = [session EXCEPT ![Child] = session[p]]

-----------------------------------------------------------------------------
(* daemonise.                                                              *)
InheritAll(p)     == Goto(p, "close", "fork1", fd[p]) /\ UNCHANGED session  (* mutant *)
CloseInherited(p) == Goto(p, "close", "fork1", Close(fd[p], Numbers \ Std)) /\ UNCHANGED session
Fork1(p)          == Fork(p, "fork1", "exit", "setsid")
Setsid(p) ==
  /\ Goto(p, "setsid", "std", fd[p])
  /\ session' = [session EXCEPT ![p] = p]
CloseNone(p)      == Goto(p, "std", "fork2", fd[p]) /\ UNCHANGED session  (* mutant *)
CloseStd(p)       == Goto(p, "std", "fork2", Close(fd[p], Std)) /\ UNCHANGED session
Fork2(p)          == Fork(p, "fork2", "exit", "null")
OpenNull(p)       == Goto(p, "null", "open", Open(fd[p], "null", 3)) /\ UNCHANGED session

(* main.                                                                   *)
OpenSentinel(p)   == Goto(p, "open", "unlink", Open(fd[p], "sentinel", 1)) /\ UNCHANGED session
UnlinkAndClose(p) == Goto(p, "unlink", "setup", Close(fd[p], {3})) /\ UNCHANGED session  (* mutant *)
Unlink(p)         == Goto(p, "unlink", "setup", fd[p]) /\ UNCHANGED session
Setup(p) ==
  /\ Goto(p, "setup", "loop", Open(Open(fd[p], "inotify", 1), "binder", 1))
  /\ UNCHANGED session

(* start_cmd: the parent waits until the child has come to exec.           *)
Spawn(p) == Fork(p, "loop", "vfork", "exec")
Resume(q, to) ==
  /\ pc[q] = "exec"
  /\ Become([p \in Procs |-> IF p = q THEN to ELSE IF pc[p] = "vfork" THEN "loop" ELSE pc[p]],
            [fd EXCEPT ![q] = Close(@, {k \in Numbers : @[k] \in CloseOnExec})])
  /\ UNCHANGED session
Exec(q) == Resume(q, "cmd") \/ Resume(q, "dead")

Exit(p) == pc[p] \in {"exit", "cmd"} /\ End({p})

(* A call that fails: the process ends.  A daemon can die in its loop.     *)
Fails(p) == pc[p] \notin Dead \cup {"exit", "cmd", "exec"} /\ End({p})

(* From outside: killall matches all but cmd; a shell that hangs up takes  *)
(* its session along.                                                      *)
KillAll == End({p \in Procs : pc[p] \notin Dead \cup {"cmd"}})
HangUp  == End({p \in Procs : pc[p] \notin Dead /\ session[p] = 0})

-----------------------------------------------------------------------------
Init ==
  /\ pc = [p \in Procs |-> IF p = 1 THEN "close" ELSE "unborn"]
  /\ fd \in {[p \in Procs |-> IF p = 1 THEN [k \in Numbers |-> IF k \in K THEN "shell" ELSE None]
                                       ELSE [k \in Numbers |-> None]] :
               K \in {K \in SUBSET Numbers : Std \subseteq K}}
  /\ session = [p \in Procs |-> 0]
  /\ signed = FALSE

Step(p) ==
  \/ CloseInherited(p) \/ Fork1(p) \/ Setsid(p) \/ CloseStd(p) \/ Fork2(p) \/ OpenNull(p)
  \/ OpenSentinel(p) \/ Unlink(p) \/ Setup(p) \/ Spawn(p)
Child_(p) == Exec(p) \/ Exit(p)

Next == KillAll \/ HangUp \/ \E p \in Procs : Step(p) \/ Child_(p) \/ Fails(p)

(* A child comes to its end: cmd asks the activity manager and leaves.     *)
Spec == Init /\ [][Next]_vars /\ \A p \in Procs : WF_vars(Child_(p))

-----------------------------------------------------------------------------
(* Types; every descriptor the daemon wants finds a number.                *)
TypeOK ==
  /\ pc \in [Procs -> Opened \cup Dead \cup
       {"close", "fork1", "setsid", "std", "fork2", "null", "open", "exit", "exec", "cmd"}]
  /\ fd \in [Procs -> [Numbers -> {None, "shell", "null", "sentinel", "inotify", "binder"}]]
  /\ session \in [Procs -> Procs \cup {0}]
  /\ signed \in BOOLEAN
  /\ \A p \in Procs : pc[p] = "loop" =>
       {"sentinel", "inotify", "binder"} \subseteq {fd[p][k] : k \in Numbers}

(* A daemon that has opened its sentinel is rid of the shell: descriptors  *)
(* 0 to 2 are /dev/null, none of the shell's is left (adb's stream would   *)
(* never end), and it is neither in the shell's session (a hang-up would   *)
(* kill it) nor the leader of its own.                                     *)
Detached ==
  \A p \in Procs : pc[p] \in Opened =>
    /\ \A k \in Numbers : fd[p][k] = "null" <=> k \in Std
    /\ \A k \in Numbers : fd[p][k] # "shell"
    /\ session[p] \notin {0, p}

(* The sentinel is the sign it is meant to be: the observer is told after  *)
(* the daemon is dead, never before, and is told in the end, when the last *)
(* child that inherited the descriptor is done.                            *)
daemon ==
  IF \E p \in Procs : pc[p] \in Opened THEN "up"
  ELSE IF Holders # {} THEN "lost"
  ELSE IF \A p \in Procs : pc[p] \in Dead \cup {"exit", "exec", "cmd"} THEN "gone"
  ELSE "starting"
Promise == INSTANCE DeathSign WITH daemon <- daemon
SignsDeath == Promise!Spec

(* "Only one open process should hold an open file descriptor to the file" *)
(* (README): that the file is closed would then mean the daemon has ended, *)
(* and the other way round.  A child that has not come to exec has all its *)
(* parent's descriptors whatever their flags, and is not counted.          *)
OneHolder == Cardinality({p \in Holders : pc[p] # "exec"}) <= 1
=============================================================================
