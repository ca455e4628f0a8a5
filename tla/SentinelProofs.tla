---------------------------- MODULE SentinelProofs ----------------------------
(***************************************************************************)
(* Proofs about the daemon's processes, for any number of processes and    *)
(* descriptor numbers: types, a daemon that is detached from its shell,    *)
(* and the refinement of DeathSign, initial states and steps (that the     *)
(* sign comes in the end is liveness, and is model-checked).               *)
(***************************************************************************)
EXTENDS Sentinel, FiniteSetTheorems, TLAPS

(* Where a process is on its way to the sentinel, or has it: the line of   *)
(* processes that daemonise goes through.                                  *)
Early == {"close", "fork1", "setsid", "std", "fork2", "null", "open"}
Line  == Early \cup Opened

(* What a process has open, by where it is.                                *)
Shape ==
  \A p \in Procs : \A k \in Numbers :
    /\ pc[p] \in {"fork1", "setsid", "std"} /\ k \notin Std => fd[p][k] = None
    /\ pc[p] \in {"fork2", "null"} => fd[p][k] = None
    /\ pc[p] = "open" => fd[p][k] = IF k \in Std THEN "null" ELSE None
    /\ pc[p] \in {"unlink", "setup"} =>
         fd[p][k] = IF k \in Std THEN "null" ELSE IF k = 3 THEN "sentinel" ELSE None
    /\ pc[p] \in {"loop", "vfork"} =>
         fd[p][k] = IF k \in Std THEN "null" ELSE IF k = 3 THEN "sentinel"
                    ELSE IF k = 4 THEN "inotify" ELSE IF k = 5 THEN "binder" ELSE None
    /\ pc[p] \in {"exit"} \cup Early => fd[p][k] # "sentinel"

(* Who leads a session, and who has left the shell's.                      *)
Sessions ==
  \A p \in Procs :
    /\ pc[p] \in {"std", "fork2"} => session[p] = p
    /\ pc[p] \in {"null", "open"} \cup Opened => session[p] \notin {0, p}

(* Of the processes of the line there is one at a time.                    *)
OneLine == \A p, q \in Procs : pc[p] \in Line /\ pc[q] \in Line => p = q

(* Until the sentinel is open there is no sign and nothing was spawned.    *)
Before ==
  \A p \in Procs : pc[p] \in Early =>
    ~signed /\ \A q \in Procs : pc[q] \notin {"exec", "cmd"}

(* Once the sign was given nobody holds the sentinel.                      *)
Told == signed => Holders = {}

(* The inductive invariant; Types is TypeOK without what Shape says.       *)
Content == {None, "shell", "null", "sentinel", "inotify", "binder"}
Types ==
  /\ pc \in [Procs -> Line \cup Dead \cup {"exit", "exec", "cmd"}]
  /\ fd \in [Procs -> [Numbers -> Content]]
  /\ session \in [Procs -> Procs \cup {0}]
  /\ signed \in BOOLEAN

IInv == Types /\ Shape /\ Sessions /\ OneLine /\ Before /\ Told

-----------------------------------------------------------------------------
(* open gives the lowest number that is free.                              *)
LEMMA OpenLowest ==
  ASSUME NEW S, NEW i \in [Numbers -> S], NEW f, NEW n \in Numbers,
         i[n] = None, \A k \in Numbers : k < n => i[k] # None
  PROVE  Open(i, f, 1) = [i EXCEPT ![n] = f]
<1> DEFINE Lower(k) == {l \in Numbers : l < k /\ i[l] = None}
<1> USE SentinelAssumption
<1>1. Lower(n) = {}
  BY DEF Numbers
<1>2. ASSUME NEW k \in Numbers, k > n
      PROVE  ~(Cardinality(Lower(k)) < 1)
  <2>1. IsFiniteSet(Lower(k))
    <3>1. IsFiniteSet(0 .. MaxNumber)
      BY FS_Interval
    <3>2. Lower(k) \in SUBSET (0 .. MaxNumber)
      BY DEF Numbers
    <3>3. QED
      BY <3>1, <3>2, FS_Subset
  <2>2. n \in Lower(k)
    BY <1>2
  <2>3. Cardinality(Lower(k)) # 0 /\ Cardinality(Lower(k)) \in Nat
    BY <2>1, <2>2, FS_EmptySet, FS_CardinalityType
  <2>4. QED
    BY <2>3
<1>3. Cardinality(Lower(n)) = 0
  BY <1>1, FS_EmptySet
<1>4. ASSUME NEW k \in Numbers
      PROVE  (IF i[k] = None /\ Cardinality(Lower(k)) < 1 THEN f ELSE i[k])
               = [i EXCEPT ![n] = f][k]
  <2> HIDE DEF Lower
  <2>1. CASE k = n
    BY <2>1, <1>3
  <2>2. CASE k > n
    BY <2>2, <1>2
  <2>3. CASE k < n
    BY <2>3
  <2>4. QED
    BY <2>1, <2>2, <2>3 DEF Numbers
<1>5. QED
  BY <1>4 DEF Open

(* Three of them, with nothing open, are the standard descriptors.         *)
LEMMA OpenThree ==
  ASSUME NEW S, NEW i \in [Numbers -> S], NEW f, \A k \in Numbers : i[k] = None
  PROVE  Open(i, f, 3) = [k \in Numbers |-> IF k \in Std THEN f ELSE None]
<1> DEFINE Lower(k) == {l \in Numbers : l < k /\ i[l] = None}
<1> USE SentinelAssumption
<1>1. ASSUME NEW k \in Numbers PROVE Cardinality(Lower(k)) = k
  <2>1. Lower(k) = 0 .. (k - 1)
    BY DEF Numbers
  <2>2. 0 \in Int /\ k - 1 \in Int /\ k \in Nat
    BY DEF Numbers
  <2>3. Cardinality(0 .. (k - 1)) = IF 0 > k - 1 THEN 0 ELSE (k - 1) - 0 + 1
    BY <2>2, FS_Interval
  <2>4. Cardinality(0 .. (k - 1)) = k
    BY <2>2, <2>3
  <2>5. QED
    BY <2>1, <2>4
<1>2. ASSUME NEW k \in Numbers
      PROVE  (IF i[k] = None /\ Cardinality(Lower(k)) < 3 THEN f ELSE i[k])
               = IF k \in Std THEN f ELSE None
  <2> HIDE DEF Lower
  <2> QED BY <1>1, <1>2 DEF Numbers, Std
<1>3. QED
  BY <1>2 DEF Open

(* fork makes a process that was not there.                                *)
LEMMA ChildUnborn ==
  ASSUME NEW q \in Procs, pc[q] = "unborn"
  PROVE  Child \in Procs /\ pc[Child] = "unborn"
BY DEF Child

(* Types and Shape give TypeOK: all the daemon wants has a number.         *)
LEMMA TypesOK ==
  ASSUME Types, Shape
  PROVE  TypeOK
<1> USE SentinelAssumption DEF Procs, Numbers, None, Std, Dead, Opened, Early, Line, Content
<1>1. ASSUME NEW p \in Procs, pc[p] = "loop"
      PROVE  {"sentinel", "inotify", "binder"} \subseteq {fd[p][k] : k \in Numbers}
  <2>1. fd[p][3] = "sentinel" /\ fd[p][4] = "inotify" /\ fd[p][5] = "binder"
    BY <1>1 DEF Shape
  <2>2. QED
    BY <2>1
<1>2. QED
  BY <1>1 DEF Types, TypeOK

(* A process that is on its way is not waited for by an old sentinel.      *)
LEMMA EarlyNone ==
  ASSUME IInv, NEW p \in Procs, pc[p] \in Early
  PROVE  Holders = {} /\ ~signed
<1>1. ASSUME NEW q \in Procs, pc[q] \notin Dead, NEW k \in Numbers, fd[q][k] = "sentinel" PROVE FALSE
  <2>1. CASE pc[q] \in Line
    BY <2>1, <1>1 DEF IInv, OneLine, Line, Shape
  <2>2. CASE pc[q] \in {"exit", "exec", "cmd"}
    BY <2>2, <1>1 DEF IInv, Before, Shape
  <2>3. QED
    BY <1>1, <2>1, <2>2 DEF IInv, Types
<1>2. QED
  BY <1>1 DEF IInv, Before, Holders, HoldersIn

(* A daemon that has opened its sentinel holds it.                         *)
LEMMA OpenedHolds ==
  ASSUME IInv, NEW p \in Procs, pc[p] \in Opened
  PROVE  p \in Holders /\ ~signed
<1>1. 3 \in Numbers /\ fd[p][3] = "sentinel"
  BY SentinelAssumption DEF IInv, Shape, Opened, Numbers, Std
<1>2. pc[p] \notin Dead
  BY DEF Opened, Dead
<1>3. QED
  BY <1>1, <1>2 DEF IInv, Told, Holders, HoldersIn

(* The invariant holds initially.                                          *)
LEMMA InitInv == Init => IInv
<1> SUFFICES ASSUME Init PROVE IInv
  OBVIOUS
<1> USE SentinelAssumption
    DEF Init, Procs, Numbers, None, Std, Dead, Opened, Early, Line, Content
<1>1. PICK K \in SUBSET Numbers :
        fd = [p \in Procs |-> IF p = 1 THEN [k \in Numbers |-> IF k \in K THEN "shell" ELSE None]
                                      ELSE [k \in Numbers |-> None]]
  OBVIOUS
<1>2. Types
  BY <1>1 DEF Types
<1>3. Shape
  BY <1>1 DEF Shape
<1>4. Sessions /\ OneLine /\ Before /\ Told
  BY DEF Sessions, OneLine, Before, Told
<1>5. QED
  BY <1>2, <1>3, <1>4 DEF IInv

(* It is preserved by the end of any processes, and by each action.        *)
LEMMA EndKeeps ==
  ASSUME IInv, NEW P, End(P)
  PROVE  IInv'
<1> USE SentinelAssumption
    DEF IInv, End, Become, Procs, Numbers, None, Std, Dead, Opened, Early, Line, Content
<1>1. Types' BY DEF Types
<1>2. Shape' BY DEF Shape, Types
<1>3. Sessions' BY DEF Sessions, Types
<1>4. OneLine' BY DEF OneLine, Types
<1>5. Told' BY DEF Told, Types, Holders, HoldersIn
<1>6. Before' BY EarlyNone, OpenedHolds DEF Before, Types, OneLine
<1>7. QED BY <1>1, <1>2, <1>3, <1>4, <1>5, <1>6

LEMMA CloseInheritedKeeps ==
  ASSUME IInv, NEW p \in Procs, CloseInherited(p)
  PROVE  IInv'
<1> USE SentinelAssumption
    DEF IInv, CloseInherited, Goto, Close, Become, Procs, Numbers, None, Std, Dead, Opened, Early, Line, Content
<1>1. Types' BY DEF Types
<1>2. Shape' BY DEF Shape, Types
<1>3. Sessions' BY DEF Sessions, Types
<1>4. OneLine' BY DEF OneLine, Types
<1>5. Told' BY EarlyNone DEF Told, Holders
<1>6. Before' BY EarlyNone, OpenedHolds DEF Before, Types, OneLine
<1>7. QED BY <1>1, <1>2, <1>3, <1>4, <1>5, <1>6

LEMMA Fork1Keeps ==
  ASSUME IInv, NEW p \in Procs, Fork1(p)
  PROVE  IInv'
<1> USE SentinelAssumption
    DEF IInv, Fork1, Fork, Become, Procs, Numbers, None, Std, Dead, Opened, Early, Line, Content
<1>0. Child \in Procs /\ pc[Child] = "unborn" /\ Child # p
  BY ChildUnborn
<1>1. Types' BY <1>0 DEF Types
<1>2. Shape' BY <1>0 DEF Shape, Types
<1>3. Sessions' BY <1>0 DEF Sessions, Types
<1>4. OneLine' BY <1>0 DEF OneLine, Types
<1>5. Told' BY <1>0, EarlyNone DEF Told, Holders
<1>6. Before' BY <1>0, EarlyNone, OpenedHolds DEF Before, Types, OneLine
<1>7. QED BY <1>1, <1>2, <1>3, <1>4, <1>5, <1>6

LEMMA SetsidKeeps ==
  ASSUME IInv, NEW p \in Procs, Setsid(p)
  PROVE  IInv'
<1> USE SentinelAssumption
    DEF IInv, Setsid, Goto, Close, Become, Procs, Numbers, None, Std, Dead, Opened, Early, Line, Content
<1>1. Types' BY DEF Types
<1>2. Shape' BY DEF Shape, Types
<1>3. Sessions' BY DEF Sessions, Types
<1>4. OneLine' BY DEF OneLine, Types
<1>5. Told' BY EarlyNone DEF Told, Holders
<1>6. Before' BY EarlyNone, OpenedHolds DEF Before, Types, OneLine
<1>7. QED BY <1>1, <1>2, <1>3, <1>4, <1>5, <1>6

LEMMA CloseStdKeeps ==
  ASSUME IInv, NEW p \in Procs, CloseStd(p)
  PROVE  IInv'
<1> USE SentinelAssumption
    DEF IInv, CloseStd, Goto, Close, Become, Procs, Numbers, None, Std, Dead, Opened, Early, Line, Content
<1>1. Types' BY DEF Types
<1>2. Shape' BY DEF Shape, Types
<1>3. Sessions' BY DEF Sessions, Types
<1>4. OneLine' BY DEF OneLine, Types
<1>5. Told' BY EarlyNone DEF Told, Holders
<1>6. Before' BY EarlyNone, OpenedHolds DEF Before, Types, OneLine
<1>7. QED BY <1>1, <1>2, <1>3, <1>4, <1>5, <1>6

LEMMA Fork2Keeps ==
  ASSUME IInv, NEW p \in Procs, Fork2(p)
  PROVE  IInv'
<1> USE SentinelAssumption
    DEF IInv, Fork2, Fork, Become, Procs, Numbers, None, Std, Dead, Opened, Early, Line, Content
<1>0. Child \in Procs /\ pc[Child] = "unborn" /\ Child # p
  BY ChildUnborn
<1>1. Types' BY <1>0 DEF Types
<1>2. Shape' BY <1>0 DEF Shape, Types
<1>3. Sessions' BY <1>0 DEF Sessions, Types
<1>4. OneLine' BY <1>0 DEF OneLine, Types
<1>5. Told' BY <1>0, EarlyNone DEF Told, Holders
<1>6. Before' BY <1>0, EarlyNone, OpenedHolds DEF Before, Types, OneLine
<1>7. QED BY <1>1, <1>2, <1>3, <1>4, <1>5, <1>6

LEMMA OpenNullKeeps ==
  ASSUME IInv, NEW p \in Procs, OpenNull(p)
  PROVE  IInv'
<1>i. fd[p] \in [Numbers -> Content] /\ \A k \in Numbers : fd[p][k] = None
  BY DEF IInv, Types, Shape, OpenNull, Goto
<1>j. Open(fd[p], "null", 3) = [k \in Numbers |-> IF k \in Std THEN "null" ELSE None]
  BY <1>i, OpenThree
<1>0. fd' = [fd EXCEPT ![p] = [k \in Numbers |-> IF k \in Std THEN "null" ELSE None]]
  BY <1>j DEF OpenNull, Goto, Become
<1> USE SentinelAssumption
    DEF IInv, OpenNull, Goto, Close, Become, Procs, Numbers, None, Std, Dead, Opened, Early, Line, Content
<1>1. Types' BY <1>0 DEF Types
<1>2. Shape' BY <1>0 DEF Shape, Types
<1>3. Sessions' BY <1>0 DEF Sessions, Types
<1>4. OneLine' BY <1>0 DEF OneLine, Types
<1>5. Told' BY <1>0, EarlyNone DEF Told, Holders
<1>6. Before' BY <1>0, EarlyNone, OpenedHolds DEF Before, Types, OneLine
<1>7. QED BY <1>1, <1>2, <1>3, <1>4, <1>5, <1>6

LEMMA OpenSentinelKeeps ==
  ASSUME IInv, NEW p \in Procs, OpenSentinel(p)
  PROVE  IInv'
<1>h. 3 \in Numbers /\ \A k \in Numbers : k < 3 <=> k \in Std
  BY SentinelAssumption DEF Numbers, Std
<1>i. fd[p] \in [Numbers -> Content] /\ fd[p][3] = None /\ \A k \in Numbers : k < 3 => fd[p][k] # None
  BY <1>h DEF IInv, Types, Shape, OpenSentinel, Goto, None, Std
<1>j. Open(fd[p], "sentinel", 1) = [fd[p] EXCEPT ![3] = "sentinel"]
  BY <1>h, <1>i, OpenLowest
<1> DEFINE j == [fd[p] EXCEPT ![3] = "sentinel"]
<1>0. fd' = [fd EXCEPT ![p] = j] /\ j \in [Numbers -> Content] /\ \A k \in Numbers :
        j[k] = IF k = 3 THEN "sentinel" ELSE fd[p][k]
  BY <1>i, <1>j DEF OpenSentinel, Goto, Become, Content
<1> HIDE DEF j
<1> USE SentinelAssumption
    DEF IInv, OpenSentinel, Goto, Close, Become, Procs, Numbers, None, Std, Dead, Opened, Early, Line, Content
<1>1. Types' BY <1>0 DEF Types
<1>2. Shape' BY <1>0 DEF Shape, Types
<1>3. Sessions' BY <1>0 DEF Sessions, Types
<1>4. OneLine' BY <1>0 DEF OneLine, Types
<1>5. Told' BY <1>0, EarlyNone DEF Told, Holders
<1>6. Before' BY <1>0, EarlyNone, OpenedHolds DEF Before, Types, OneLine
<1>7. QED BY <1>1, <1>2, <1>3, <1>4, <1>5, <1>6

LEMMA UnlinkKeeps ==
  ASSUME IInv, NEW p \in Procs, Unlink(p)
  PROVE  IInv'
<1> USE SentinelAssumption
    DEF IInv, Unlink, Goto, Close, Become, Procs, Numbers, None, Std, Dead, Opened, Early, Line, Content
<1>1. Types' BY DEF Types
<1>2. Shape' BY DEF Shape, Types
<1>3. Sessions' BY DEF Sessions, Types
<1>4. OneLine' BY DEF OneLine, Types
<1>5. Told' BY OpenedHolds DEF Told, Holders
<1>6. Before' BY EarlyNone, OpenedHolds DEF Before, Types, OneLine
<1>7. QED BY <1>1, <1>2, <1>3, <1>4, <1>5, <1>6

LEMMA SetupKeeps ==
  ASSUME IInv, NEW p \in Procs, Setup(p)
  PROVE  IInv'
<1> DEFINE i == [fd[p] EXCEPT ![4] = "inotify"]
<1>h. 4 \in Numbers /\ 5 \in Numbers /\ \A k \in Numbers :
        (k < 4 <=> k \in Std \/ k = 3) /\ (k < 5 <=> k \in Std \/ k \in {3, 4})
  BY SentinelAssumption DEF Numbers, Std
<1>i. fd[p] \in [Numbers -> Content] /\ fd[p][4] = None /\ fd[p][5] = None
      /\ \A k \in Numbers : k < 4 => fd[p][k] # None
  BY <1>h DEF IInv, Types, Shape, Setup, Goto, None, Std
<1>j. Open(fd[p], "inotify", 1) = i
  BY <1>h, <1>i, OpenLowest
<1>k. i \in [Numbers -> Content] /\ i[5] = None /\ \A k \in Numbers : k < 5 => i[k] # None
  BY <1>h, <1>i DEF Content, None, Std
<1>l. Open(i, "binder", 1) = [i EXCEPT ![5] = "binder"]
  <2> HIDE DEF i
  <2> QED BY <1>h, <1>k, OpenLowest
<1>m. fd' = [fd EXCEPT ![p] = [i EXCEPT ![5] = "binder"]]
  BY <1>j, <1>l DEF Setup, Goto, Become
<1> DEFINE j == [i EXCEPT ![5] = "binder"]
<1>0. fd' = [fd EXCEPT ![p] = j] /\ j \in [Numbers -> Content] /\ \A k \in Numbers :
        j[k] = IF k = 5 THEN "binder" ELSE IF k = 4 THEN "inotify" ELSE fd[p][k]
  BY <1>m, <1>k, <1>i DEF Content
<1> HIDE DEF j
<1> USE SentinelAssumption
    DEF IInv, Setup, Goto, Close, Become, Procs, Numbers, None, Std, Dead, Opened, Early, Line, Content
<1>1. Types' BY <1>0 DEF Types
<1>2. Shape' BY <1>0 DEF Shape, Types
<1>3. Sessions' BY <1>0 DEF Sessions, Types
<1>4. OneLine' BY <1>0 DEF OneLine, Types
<1>5. Told' BY <1>0, OpenedHolds DEF Told, Holders
<1>6. Before' BY <1>0, EarlyNone, OpenedHolds DEF Before, Types, OneLine
<1>7. QED BY <1>1, <1>2, <1>3, <1>4, <1>5, <1>6

LEMMA SpawnKeeps ==
  ASSUME IInv, NEW p \in Procs, Spawn(p)
  PROVE  IInv'
<1> USE SentinelAssumption
    DEF IInv, Spawn, Fork, Become, Procs, Numbers, None, Std, Dead, Opened, Early, Line, Content
<1>0. Child \in Procs /\ pc[Child] = "unborn" /\ Child # p
  BY ChildUnborn
<1>1. Types' BY <1>0 DEF Types
<1>2. Shape' BY <1>0 DEF Shape, Types
<1>3. Sessions' BY <1>0 DEF Sessions, Types
<1>4. OneLine' BY <1>0 DEF OneLine, Types
<1>5. Told' BY <1>0, OpenedHolds DEF Told, Holders
<1>6. Before' BY <1>0, EarlyNone, OpenedHolds DEF Before, Types, OneLine
<1>7. QED BY <1>1, <1>2, <1>3, <1>4, <1>5, <1>6

LEMMA ExecKeeps ==
  ASSUME IInv, NEW q \in Procs, Exec(q)
  PROVE  IInv'
<1>a. PICK to \in {"cmd", "dead"} : Resume(q, to)
  BY DEF Exec
<1> DEFINE rest == Close(fd[q], {k \in Numbers : fd[q][k] \in CloseOnExec})
<1>b. /\ fd' = [fd EXCEPT ![q] = rest] /\ rest \in [Numbers -> Content]
      /\ \A k \in Numbers : rest[k] = "sentinel" => fd[q][k] = "sentinel"
  BY <1>a DEF Resume, Become, Close, IInv, Types, Content, None
<1>c. pc' = [p \in Procs |-> IF p = q THEN to ELSE IF pc[p] = "vfork" THEN "loop" ELSE pc[p]]
  BY <1>a DEF Resume, Become
<1>d. pc[q] = "exec" /\ UNCHANGED session
      /\ signed' = (signed \/ (Holders # {} /\ Holders' = {}))
  BY <1>a DEF Resume, Become, Holders
<1> HIDE DEF rest
<1> USE DEF IInv, Procs, Numbers, None, Std, Dead, Opened, Early, Line, Content
<1>1. Types' BY <1>b, <1>c, <1>d DEF Types
<1>2. Shape' BY <1>b, <1>c, <1>d DEF Shape, Types
<1>3. Sessions' BY <1>b, <1>c, <1>d DEF Sessions, Types
<1>4. OneLine' BY <1>b, <1>c, <1>d DEF OneLine, Types
<1>5. Told' BY <1>b, <1>c, <1>d DEF Told, Types, Holders, HoldersIn
<1>6. Before' BY <1>b, <1>c, <1>d, EarlyNone, OpenedHolds DEF Before, Types, OneLine
<1>7. QED BY <1>1, <1>2, <1>3, <1>4, <1>5, <1>6


(* It is preserved by every step.                                          *)
LEMMA NextKeeps == IInv /\ [Next]_vars => IInv'
<1> SUFFICES ASSUME IInv, [Next]_vars PROVE IInv'
  OBVIOUS
<1>1. CASE KillAll \/ HangUp
  BY <1>1, EndKeeps DEF KillAll, HangUp
<1>2. ASSUME NEW p \in Procs, Step(p) PROVE IInv'
  BY <1>2, CloseInheritedKeeps, Fork1Keeps, SetsidKeeps, CloseStdKeeps, Fork2Keeps,
     OpenNullKeeps, OpenSentinelKeeps, UnlinkKeeps, SetupKeeps, SpawnKeeps DEF Step
<1>3. ASSUME NEW p \in Procs, Child_(p) \/ Fails(p) PROVE IInv'
  BY <1>3, ExecKeeps, EndKeeps DEF Child_, Exit, Fails
<1>4. CASE UNCHANGED vars
  BY <1>4 DEF vars, IInv, Types, Shape, Sessions, OneLine, Before, Told, Holders, HoldersIn
<1>5. QED
  BY <1>1, <1>2, <1>3, <1>4 DEF Next

(* It is an invariant.                                                     *)
LEMMA Invariance == Spec => []IInv
BY InitInv, NextKeeps, PTL DEF Spec

-----------------------------------------------------------------------------
(* What every step does to the line and the holders: nobody comes to the   *)
(* line anew, nobody to the sentinel but by the line, and the sign is      *)
(* given when the last holder goes.                                        *)
AnyIn(P) == \E p \in Procs : pc[p] \in P

Onward ==
  /\ AnyIn(Early)' => AnyIn(Early)
  /\ AnyIn(Opened)' => AnyIn(Opened) \/ AnyIn(Early)
  /\ Holders' # {} => Holders # {} \/ AnyIn(Opened)'
  /\ signed' = (signed \/ (Holders # {} /\ Holders' = {}))

(* Onward holds of the end of any processes and of each kind of step.      *)
LEMMA EndOnward ==
  ASSUME IInv, NEW P, End(P)
  PROVE  Onward
BY
    DEF IInv, Types, End, Become, Holders, HoldersIn, AnyIn, Onward, Procs, Numbers, None, Std, Dead, Opened, Early, Line, Content

LEMMA ExecOnward ==
  ASSUME IInv, NEW q \in Procs, Exec(q)
  PROVE  Onward
<1>a. PICK to \in {"cmd", "dead"} : Resume(q, to)
  BY DEF Exec
<1> DEFINE rest == Close(fd[q], {k \in Numbers : fd[q][k] \in CloseOnExec})
<1>b. fd' = [fd EXCEPT ![q] = rest] /\ \A k \in Numbers : rest[k] = "sentinel" => fd[q][k] = "sentinel"
  BY <1>a DEF Resume, Become, Close, None
<1>c. pc' = [p \in Procs |-> IF p = q THEN to ELSE IF pc[p] = "vfork" THEN "loop" ELSE pc[p]]
  BY <1>a DEF Resume, Become
<1>d. pc[q] = "exec" /\ signed' = (signed \/ (Holders # {} /\ Holders' = {}))
  BY <1>a DEF Resume, Become, Holders
<1> HIDE DEF rest
<1>1. AnyIn(Early)' => AnyIn(Early)
  BY <1>c, <1>d DEF AnyIn, Procs, Numbers, None, Std, Dead, Opened, Early, Line, Content
<1>2. AnyIn(Opened)' => AnyIn(Opened)
  BY <1>c, <1>d DEF AnyIn, Procs, Numbers, None, Std, Dead, Opened, Early, Line, Content
<1>3. Holders' # {} => Holders # {}
  BY <1>b, <1>c, <1>d
    DEF IInv, Types, Holders, HoldersIn, Procs, Numbers, None, Std, Dead, Opened, Early, Line, Content
<1>4. QED
  BY <1>1, <1>2, <1>3, <1>d DEF Onward

LEMMA ForkOnward ==
  ASSUME IInv, NEW p \in Procs, NEW from, NEW to, NEW childTo, Fork(p, from, to, childTo),
         \/ from \in Early /\ to = "exit" /\ childTo \in Early
         \/ from \in Opened /\ to \in Opened /\ childTo = "exec"
  PROVE  Onward
<1>1. Child \in Procs /\ pc[Child] = "unborn" /\ Child # p
  BY ChildUnborn DEF Fork, Early, Opened
<1>2. /\ pc[p] = from
      /\ pc' = [pc EXCEPT ![p] = to, ![Child] = childTo]
      /\ fd' = [fd EXCEPT ![Child] = fd[p]]
      /\ signed' = (signed \/ (Holders # {} /\ Holders' = {}))
  BY DEF Fork, Become, Holders
<1>3. AnyIn(Early)' => AnyIn(Early)
  BY <1>1, <1>2
    DEF IInv, Types, AnyIn, Procs, Numbers, None, Std, Dead, Opened, Early, Line, Content
<1>4. AnyIn(Opened)' => AnyIn(Opened)
  BY <1>1, <1>2
    DEF IInv, Types, AnyIn, Procs, Numbers, None, Std, Dead, Opened, Early, Line, Content
<1>5. Holders' # {} => Holders # {}
  BY <1>1, <1>2
    DEF IInv, Types, Holders, HoldersIn, Procs, Numbers, None, Std, Dead, Opened, Early, Line, Content
<1>6. QED
  BY <1>2, <1>3, <1>4, <1>5 DEF Onward

LEMMA GotoOnward ==
  ASSUME IInv, NEW p \in Procs, NEW from, NEW to, NEW fds, Goto(p, from, to, fds),
         \/ from \in Early /\ to \in Early /\ \A k \in Numbers : fds[k] = "sentinel" => fd[p][k] = "sentinel"
         \/ from \in Line /\ to \in Opened
  PROVE  Onward
<1>1. /\ pc[p] = from
      /\ pc' = [pc EXCEPT ![p] = to]
      /\ fd' = [fd EXCEPT ![p] = fds]
      /\ signed' = (signed \/ (Holders # {} /\ Holders' = {}))
  BY DEF Goto, Become, Holders
<1>2. AnyIn(Early)' => AnyIn(Early)
  BY <1>1 DEF IInv, Types, AnyIn, Procs, Numbers, None, Std, Dead, Opened, Early, Line, Content
<1>3. AnyIn(Opened)' => AnyIn(Opened) \/ AnyIn(Early)
  BY <1>1 DEF IInv, Types, AnyIn, Procs, Numbers, None, Std, Dead, Opened, Early, Line, Content
<1>4. Holders' # {} => Holders # {} \/ AnyIn(Opened)'
  <2>1. CASE from \in Early /\ to \in Early
    BY <2>1, <1>1
      DEF IInv, Types, Holders, HoldersIn, Procs, Numbers, None, Std, Dead, Opened, Early, Line, Content
  <2>2. CASE to \in Opened
    BY <2>2, <1>1 DEF IInv, Types, AnyIn
  <2>3. QED
    BY <2>1, <2>2, <1>1 DEF Early, Opened
<1>5. QED
  BY <1>1, <1>2, <1>3, <1>4 DEF Onward

(* It holds of every step.                                                 *)
LEMMA NextOnward ==
  ASSUME IInv, Next
  PROVE  Onward
<1>1. CASE KillAll \/ HangUp
  BY <1>1, EndOnward DEF KillAll, HangUp
<1>2. ASSUME NEW p \in Procs, Step(p) PROVE Onward
  <2>1. CASE CloseInherited(p)
    <3>1. \A k \in Numbers : Close(fd[p], Numbers \ Std)[k] = "sentinel" => fd[p][k] = "sentinel"
      BY DEF Close, None
    <3>2. QED
      BY <2>1, <3>1, GotoOnward DEF CloseInherited, Early
  <2>2. CASE Setsid(p)
    BY <2>2, GotoOnward DEF Setsid, Early
  <2>3. CASE CloseStd(p)
    <3>1. \A k \in Numbers : Close(fd[p], Std)[k] = "sentinel" => fd[p][k] = "sentinel"
      BY DEF Close, None
    <3>2. QED
      BY <2>3, <3>1, GotoOnward DEF CloseStd, Early
  <2>4. CASE OpenNull(p)
    <3>1. \A k \in Numbers : Open(fd[p], "null", 3)[k] = "sentinel" => fd[p][k] = "sentinel"
      BY DEF Open
    <3>2. QED
      BY <2>4, <3>1, GotoOnward DEF OpenNull, Early
  <2>5. CASE OpenSentinel(p) \/ Unlink(p) \/ Setup(p)
    BY <2>5, GotoOnward DEF OpenSentinel, Unlink, Setup, Early, Opened, Line
  <2>6. CASE Fork1(p) \/ Fork2(p) \/ Spawn(p)
    BY <2>6, ForkOnward DEF Fork1, Fork2, Spawn, Early, Opened
  <2>7. QED
    BY <1>2, <2>1, <2>2, <2>3, <2>4, <2>5, <2>6 DEF Step
<1>3. ASSUME NEW p \in Procs, Child_(p) \/ Fails(p) PROVE Onward
  BY <1>3, ExecOnward, EndOnward DEF Child_, Exit, Fails
<1>4. QED
  BY <1>1, <1>2, <1>3 DEF Next

(* The states of DeathSign, by the line and the holders.                   *)
Stage ==
  /\ daemon \in {"starting", "up", "lost", "gone"}
  /\ daemon = "up" <=> AnyIn(Opened)
  /\ daemon = "lost" <=> ~AnyIn(Opened) /\ Holders # {}
  /\ daemon = "starting" <=> AnyIn(Early)
  /\ AnyIn(Early) => Holders = {} /\ ~signed /\ ~AnyIn(Opened)
  /\ AnyIn(Opened) => Holders # {} /\ ~signed
  /\ signed \in BOOLEAN

(* The invariant tells the stages apart.                                   *)
LEMMA Stages == IInv => Stage
<1> SUFFICES ASSUME IInv PROVE Stage
  OBVIOUS
<1>1. AnyIn(Early) => Holders = {} /\ ~signed
  BY EarlyNone DEF AnyIn
<1>2. AnyIn(Opened) => Holders # {} /\ ~signed
  BY OpenedHolds DEF AnyIn
<1>3. ~AnyIn(Early) /\ ~AnyIn(Opened) <=> \A p \in Procs : pc[p] \in Dead \cup {"exit", "exec", "cmd"}
  BY DEF IInv, Types, AnyIn, Early, Opened, Line, Dead
<1>4. QED
  BY <1>1, <1>2, <1>3 DEF Stage, daemon, AnyIn, IInv, Types

(* A step from stage to stage is a step of DeathSign, or none.             *)
LEMMA StepMaps ==
  ASSUME Stage, Stage', Onward
  PROVE  [Promise!Next]_(Promise!vars)
<1> USE DEF Stage, Onward, Promise!Next, Promise!vars
<1>1. CASE daemon = "starting"
  BY <1>1 DEF Promise!Opens, Promise!Fails
<1>2. CASE daemon = "up"
  BY <1>2 DEF Promise!Dies, Promise!Sign
<1>3. CASE daemon = "lost"
  BY <1>3 DEF Promise!Sign
<1>4. CASE daemon = "gone"
  BY <1>4
<1>5. QED
  BY <1>1, <1>2, <1>3, <1>4

(* The first state is DeathSign's.                                         *)
LEMMA InitMaps == Init => Promise!Init
<1> SUFFICES ASSUME Init PROVE Promise!Init
  OBVIOUS
<1>1. pc[1] = "close" /\ 1 \in Procs
  BY SentinelAssumption DEF Init, Procs
<1>2. daemon = "starting"
  BY <1>1, InitInv, Stages DEF Stage, AnyIn, Early
<1>3. QED
  BY <1>2 DEF Init, Promise!Init

-----------------------------------------------------------------------------
(* The processes' state keeps its types, and a daemon in its loop has its  *)
(* three descriptors.                                                      *)
THEOREM TypeCorrect == Spec => []TypeOK
<1>1. IInv => TypeOK
  BY TypesOK DEF IInv
<1>2. QED
  BY <1>1, Invariance, PTL

(* A daemon with its sentinel open is rid of the shell's descriptors and   *)
(* session, and cannot get a terminal, whatever was inherited and however  *)
(* its start was interrupted.                                              *)
THEOREM Detachment == Spec => []Detached
<1>1. IInv => Detached
  BY SentinelAssumption DEF IInv, Shape, Sessions, Detached, Opened, Numbers, Std, None
<1>2. QED
  BY <1>1, Invariance, PTL

(* The closing of the sentinel is a sign of death as DeathSign specifies   *)
(* it: every state and step of the processes is one of DeathSign's, or no  *)
(* change.                                                                 *)
THEOREM Implements == Spec => Promise!Init /\ [][Promise!Next]_(Promise!vars)
<1>1. Stage /\ Stage' /\ IInv /\ [Next]_vars => [Promise!Next]_(Promise!vars)
  <2>1. CASE Next
    BY <2>1, NextOnward, StepMaps
  <2>2. CASE UNCHANGED vars
    BY <2>2 DEF vars, Promise!vars, daemon, Holders, HoldersIn
  <2>3. QED
    BY <2>1, <2>2
<1>2. QED
  BY <1>1, InitMaps, Stages, Invariance, PTL DEF Spec
=============================================================================
