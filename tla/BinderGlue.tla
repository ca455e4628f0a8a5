------------------------------ MODULE BinderGlue ------------------------------
(***************************************************************************)
(* The daemon's two Binder clients (native/BinderGlue.cpp and the          *)
(* connection in native/IsKodiTopmostApp.cpp): the proxies of the input    *)
(* and activity_task services, their obituaries, and the injection of a    *)
(* key as a key down and a key up.                                         *)
(*                                                                         *)
(* The services are processes of Android: they die, come back as another   *)
(* life and register again, while the service manager may still hand out   *)
(* the life that died.  The driver tells the daemon of a death it asked    *)
(* about by a command the daemon reads in its loop (OnBinderReadReady);    *)
(* commands are not read inside a call (external: obituaries are queued to *)
(* the process, and its one thread is waiting for a reply).  The daemon    *)
(* can be killed at any moment.                                            *)
(***************************************************************************)
EXTENDS Naturals, Sequences

CONSTANT Lives     (* bound: lives of each service                         *)
ASSUME LivesAssumption == Lives \in Nat \ {0}

Services == {"input", "activity_task"}
Life     == 1 .. Lives
NoProxy  == 0
Binders  == Services \X Life

VARIABLES
  (* the services and the service manager                                  *)
  life,        (* the current life of each service, 0 before the first     *)
  up,          (* is that life running?                                    *)
  registered,  (* the life the service manager hands out, 0 if none        *)
  down,        (* the lives of input that have seen a key go down only     *)
  (* the driver *)
  linked,      (* binders whose death the daemon will be told              *)
  obits,       (* obituaries the daemon has not read, in their order       *)
  (* the daemon *)
  proxy,       (* input and activity_task                                  *)
  pc,          (* the next step                                            *)
  svc,         (* the service being connected                              *)
  ready,       (* POLLIN of Binder's pollfd in this turn                   *)
  press        (* what this turn's event dispatches: "none", a "plain"     *)
               (* key, or a key that "asks" whether Kodi is on top         *)

android == <<life, up, registered>>
driver  == <<linked, obits>>
vars    == <<android, down, driver, proxy, pc, svc, ready, press>>

Alive(s, i) == life[s] = i /\ up[s]
Pending     == {obits[n] : n \in DOMAIN obits}

-----------------------------------------------------------------------------
(* Android.                                                                *)

Start(s) ==
  /\ ~up[s] /\ life[s] < Lives
  /\ life' = [life EXCEPT ![s] = @ + 1]
  /\ up' = [up EXCEPT ![s] = TRUE]
  /\ UNCHANGED <<registered, down, driver, proxy, pc, svc, ready, press>>

Register(s) ==
  /\ up[s] /\ registered[s] # life[s]
  /\ registered' = [registered EXCEPT ![s] = life[s]]
  /\ UNCHANGED <<life, up, down, driver, proxy, pc, svc, ready, press>>

Die(s) ==
  /\ up[s]
  /\ up' = [up EXCEPT ![s] = FALSE]
  /\ obits' = IF <<s, life[s]>> \in linked THEN Append(obits, <<s, life[s]>>) ELSE obits
  /\ UNCHANGED <<life, registered, down, linked, proxy, pc, svc, ready, press>>

(* The service manager reads its own obituary of a service.                *)
Unregister(s) ==
  /\ registered[s] # 0 /\ ~Alive(s, registered[s])
  /\ registered' = [registered EXCEPT ![s] = 0]
  /\ UNCHANGED <<life, up, down, driver, proxy, pc, svc, ready, press>>

(* killall.                                                                *)
Kill ==
  /\ pc # "killed"
  /\ pc' = "killed"
  /\ UNCHANGED <<android, down, driver, proxy, svc, ready, press>>

Outside == Kill \/ \E s \in Services : Start(s) \/ Register(s) \/ Die(s) \/ Unregister(s)

-----------------------------------------------------------------------------
(* The loop, as far as Binder sees it: commands first, then the event.     *)

Poll(p) ==
  /\ pc = "poll"
  /\ p = "none" => obits # <<>>
  /\ ready' = (obits # <<>>)
  /\ press' = p
  /\ pc' = "commands"
  /\ UNCHANGED <<android, down, driver, proxy, svc>>

(* OnBinderReadReady: one read of the driver ends with the first obituary. *)
(* binderDied forgets the proxy whoever died; it is kept (mutant).         *)
KeepsDeadProxy ==
  /\ pc = "commands"
  /\ IF ready
     THEN obits' = Tail(obits) /\ linked' = linked \ {Head(obits)}
     ELSE UNCHANGED driver
  /\ pc' = "event"
  /\ UNCHANGED <<android, down, proxy, svc, ready, press>>

OnBinderReadReady ==
  /\ pc = "commands"
  /\ IF ready
     THEN /\ obits' = Tail(obits)
          /\ linked' = linked \ {Head(obits)}
          /\ proxy' = [proxy EXCEPT ![Head(obits)[1]] = NoProxy]
     ELSE UNCHANGED <<driver, proxy>>
  /\ pc' = "event"
  /\ UNCHANGED <<android, down, svc, ready, press>>

-----------------------------------------------------------------------------
(* Connecting.                                                             *)

(* Use a service through its proxy, or connect to it; connect always       *)
(* (mutant).                                                               *)
ConnectAlways(s, step) == pc' = "get" /\ svc' = s
Use(s, step) ==
  IF proxy[s] = NoProxy THEN pc' = "get" /\ svc' = s
                        ELSE pc' = step /\ UNCHANGED svc

(* The event of this turn: nothing for Binder, a key to inject, or a key   *)
(* whose meaning depends on Kodi (IsKodiTopmostApp).                       *)
Dispatch ==
  /\ pc = "event"
  /\ CASE press = "none"  -> pc' = "poll" /\ UNCHANGED svc
       [] press = "plain" -> Use("input", "down")
       [] press = "asks"  -> Use("activity_task", "tasks")
  /\ UNCHANGED <<android, down, driver, proxy, ready, press>>

(* getService and interface_cast.  Without activity_task Kodi is not on    *)
(* top; without input the key is dropped.  The binder is not looked at     *)
(* (mutant).                                                               *)
Unchecked ==
  /\ pc = "get"
  /\ proxy' = [proxy EXCEPT ![svc] = registered[svc]]
  /\ pc' = "link"
  /\ UNCHANGED <<android, down, driver, svc, ready, press>>

GetService ==
  /\ pc = "get"
  /\ proxy' = [proxy EXCEPT ![svc] = registered[svc]]
  /\ IF registered[svc] # NoProxy THEN pc' = "link" /\ UNCHANGED svc
     ELSE IF svc = "activity_task" THEN Use("input", "down")
     ELSE pc' = "poll" /\ UNCHANGED svc
  /\ UNCHANGED <<android, down, driver, ready, press>>

(* linkToDeath: the death of a binder already dead is told as well.  The   *)
(* caller goes on with the use it connected for; main connects without     *)
(* one.  A connection that is not linked (mutant).                         *)
Resume ==
  pc' = IF press = "none" THEN "poll" ELSE IF svc = "input" THEN "down" ELSE "tasks"

NoLink == pc = "link" /\ Resume /\ UNCHANGED <<android, down, driver, proxy, svc, ready, press>>

LinkToDeath ==
  /\ pc = "link"
  /\ linked' = linked \cup {<<svc, proxy[svc]>>}
  /\ obits' = IF Alive(svc, proxy[svc]) THEN obits ELSE Append(obits, <<svc, proxy[svc]>>)
  /\ Resume
  /\ UNCHANGED <<android, down, proxy, svc, ready, press>>

-----------------------------------------------------------------------------
(* Calls.  A call to a dead service fails, and nobody looks at the result. *)

(* getTasks: the answer chooses between two keys, or fails.                *)
GetTasks ==
  /\ pc = "tasks"
  /\ Use("input", "down")
  /\ UNCHANGED <<android, down, driver, proxy, ready, press>>

InjectDown ==
  /\ pc = "down"
  /\ down' = IF Alive("input", proxy["input"]) THEN down \cup {proxy["input"]} ELSE down
  /\ pc' = "up"
  /\ UNCHANGED <<android, driver, proxy, svc, ready, press>>

(* The key up; forgotten (mutant).                                         *)
NoUp ==
  /\ pc = "up"
  /\ pc' = "poll"
  /\ UNCHANGED <<android, down, driver, proxy, svc, ready, press>>

InjectUp ==
  /\ pc = "up"
  /\ down' = IF Alive("input", proxy["input"]) THEN down \ {proxy["input"]} ELSE down
  /\ pc' = "poll"
  /\ UNCHANGED <<android, driver, proxy, svc, ready, press>>

Step ==
  \/ OnBinderReadReady \/ Dispatch \/ GetService \/ LinkToDeath
  \/ GetTasks \/ InjectDown \/ InjectUp

-----------------------------------------------------------------------------
(* The daemon starts while the services run, or are still coming up: main  *)
(* connects to input before the loop.                                      *)
Init ==
  /\ life \in [Services -> 0 .. 1]
  /\ up = [s \in Services |-> life[s] = 1]
  /\ registered \in [Services -> 0 .. 1]
  /\ \A s \in Services : registered[s] <= life[s]
  /\ down = {}
  /\ linked = {} /\ obits = <<>>
  /\ proxy = [s \in Services |-> NoProxy]
  /\ pc = "get" /\ svc = "input"
  /\ ready = FALSE
  /\ press = "none"

Next == Outside \/ Step \/ \E p \in {"none", "plain", "asks"} : Poll(p)

(* The daemon runs, and reads its commands when there are some.            *)
Spec == Init /\ [][Next]_vars /\ WF_vars(Step) /\ WF_vars(Poll("none"))

-----------------------------------------------------------------------------
Steps == {"poll", "commands", "event", "get", "link", "tasks", "down", "up", "killed"}

(* The types of the glue's state; an obituary is only of a binder whose    *)
(* death was asked for, and a pointer in use is not null (the second       *)
(* injection does not look at it again).                                   *)
TypeOK ==
  /\ life \in [Services -> 0 .. Lives] /\ up \in [Services -> BOOLEAN]
  /\ registered \in [Services -> 0 .. Lives]
  /\ down \subseteq Life
  /\ linked \subseteq Binders /\ obits \in Seq(linked)
  /\ proxy \in [Services -> Life \cup {NoProxy}]
  /\ pc \in Steps /\ svc \in Services
  /\ ready \in BOOLEAN
  /\ press \in {"none", "plain", "asks"}
  /\ pc = "link" => proxy[svc] # NoProxy
  /\ pc = "tasks" => proxy["activity_task"] # NoProxy
  /\ pc \in {"down", "up"} => proxy["input"] # NoProxy

(* connectInputService ignores the result of linkToDeath, and getService   *)
(* may return a service that is dead: still, outside those two calls a     *)
(* proxy is that of a living service or its obituary is on the way, so no  *)
(* dead proxy is kept for good.                                            *)
ProxyAliveOrObituary ==
  \A s \in Services :
    proxy[s] # NoProxy =>
      \/ Alive(s, proxy[s])
      \/ <<s, proxy[s]>> \in Pending
      \/ pc \in {"link", "killed"} /\ svc = s

(* binderDied clears the pointer without looking at who died.  That is     *)
(* right because an obituary that is still to be read is always of the     *)
(* proxy in use, and of no other.                                          *)
ObituaryIsCurrent ==
  \A o \in Pending : proxy[o[1]] = o[2]

(* A key injectInputEvent pressed is released again: no service that is    *)
(* alive sees a key held except between the two injections, or for good if *)
(* the daemon is killed between them.                                      *)
KeyHeldOnlyInCall ==
  \A i \in down :
    Alive("input", i) => pc \in {"up", "killed"} /\ proxy["input"] = i

(* A restart of the input service costs presses but never the daemon's     *)
(* connection: once a life of it stays registered, and keys keep being     *)
(* pressed, they arrive there again.                                       *)
RecoversFromRestart ==
  \A i \in Life :
    /\ <>[](Alive("input", i) /\ registered["input"] = i /\ pc # "killed")
    /\ []<>(pc = "event" /\ press # "none")
    => []<>(i \in down)
=============================================================================
