------------------------------ MODULE EventLoop ------------------------------
(***************************************************************************)
(* The daemon's main loop (native/g20dispatcher.c): it finds the remote    *)
(* among the nodes of /dev/input, follows its arrival and departure        *)
(* through inotify, polls three descriptors and decodes the remote's       *)
(* events.                                                                 *)
(*                                                                         *)
(* The daemon is one thread, so its state changes one step of the loop at  *)
(* a time (pc).  Around it run the kernel, ueventd and the person holding  *)
(* the remote, which can act between any two of those steps: a device      *)
(* leaves while its node is still there, a node is reused before the       *)
(* daemon has read the notification of its removal, a second remote        *)
(* connects, buttons are pushed on all of them.                            *)
(*                                                                         *)
(* A device is one connection of a piece of hardware: a remote that comes  *)
(* back is another device.  This bounds the runs without counters.         *)
(***************************************************************************)
EXTENDS KeyDecoder, Sequences, FiniteSets

CONSTANTS
  Nodes,      (* names under /dev/input                                    *)
  Devices,    (* input devices, each connected at most once                *)
  Remotes,    (* those named "RemoteG20 Consumer Control"                  *)
  Fds,        (* descriptors open() may return for an input device         *)
  NoNode, NoDevice, NoFd,
  BatchSize,  (* inotify events one read of event_buf holds                *)
  BufBound,   (* bound: events waiting in one evdev client buffer          *)
  Times,      (* time stamps the events of a run carry                     *)
  Binder      (* does Binder ever have something for the daemon?           *)

ASSUME LoopAssumption ==
  /\ NoNode \notin Nodes /\ NoDevice \notin Devices /\ NoFd \notin Fds
  /\ Remotes \subseteq Devices
  /\ BatchSize \in Nat \ {0}
  /\ BufBound \in Nat
  /\ Times \subseteq Stamp
  /\ Binder \in BOOLEAN

(* A descriptor is opened before the one in the slot is closed.            *)
ASSUME FdsAssumption == \E f, g \in Fds : f # g

VARIABLES
  (* the outside *)
  node,      (* the device each node belongs to, NoDevice if none          *)
  phase,     (* a device is "new", "live", "leaving" or "gone"             *)
  button,    (* the button held on each device                             *)
  inq,       (* inotify's queue for the watch on /dev/input                *)
  command,   (* is a Binder command waiting for the daemon?                *)
  client,    (* the daemon's open file on each descriptor: device, events  *)
  (* the daemon *)
  pc,        (* the next step of main                                      *)
  dir,       (* readdir: names it must and names it may still return       *)
  batch,     (* inotify events read into event_buf and not handled yet     *)
  path,      (* g20_open_device_path                                       *)
  fd,        (* ufds[UFDS_IDX_G20].fd                                      *)
  nfds,
  revents,   (* POLLIN in the revents of the three pollfds                 *)
  press,     (* press_keycode and press_usec                               *)
  (* auxiliary *)
  latest,    (* the remote that connected last since the watch exists      *)
  overlap,   (* were two remotes ever connected at the same time?          *)
  carried    (* was the press being tracked begun on a descriptor since    *)
             (* closed, with no turn of the loop that saw the slot empty?  *)

kernel  == <<node, phase, button, client>>
slot    == <<path, fd, nfds>>
decoder == <<press, carried>>
history == <<latest, overlap>>
vars    == <<node, phase, button, inq, command, client, pc, dir, batch, path,
             fd, nfds, revents, press, latest, overlap, carried>>

Closed   == [dev |-> NoDevice, events |-> <<>>]

(* The watch on /dev/input exists; one made after the scan (mutant).       *)
WatchingLate == pc \notin {"start", "opendir", "scan"}
Watching     == pc # "start"

(* The device behind the slot of the remote in ufds.                       *)
Served == IF fd = NoFd THEN NoDevice ELSE client[fd].dev

-----------------------------------------------------------------------------
(* The outside: kernel, ueventd, hand.                                     *)

Notice(op, n) ==
  inq' = IF Watching THEN Append(inq, [op |-> op, node |-> n]) ELSE inq

(* A device connects and ueventd makes its node.  A remote often connects  *)
(* because a button is pushed on it: k is held from the start.             *)
Plug(d, n, k) ==
  /\ phase[d] = "new"
  /\ node[n] = NoDevice
  /\ node' = [node EXCEPT ![n] = d]
  /\ phase' = [phase EXCEPT ![d] = "live"]
  /\ button' = [button EXCEPT ![d] = k]
  /\ Notice("CREATE", n)
  /\ latest' = IF d \in Remotes /\ Watching THEN d ELSE latest
  /\ overlap' = (overlap \/ (d \in Remotes /\ \E r \in Remotes : phase[r] = "live"))
  /\ UNCHANGED <<command, client, pc, dir, batch, slot, revents, decoder>>

Deliver(d, events) ==
  /\ \A f \in Fds : client[f].dev = d =>
       Len(client[f].events) + Len(events) <= BufBound
  /\ client' = [f \in Fds |-> IF client[f].dev = d
                              THEN [client[f] EXCEPT !.events = @ \o events]
                              ELSE client[f]]

Push(d, k, t) ==
  /\ phase[d] = "live" /\ button[d] = NoKey
  /\ button' = [button EXCEPT ![d] = k]
  /\ Deliver(d, <<Msc(k), Key(1, t), Syn>>)
  /\ UNCHANGED <<node, phase, inq, command, pc, dir, batch, slot, revents,
                 decoder, history>>

Release(d, t) ==
  /\ phase[d] = "live" /\ button[d] # NoKey
  /\ button' = [button EXCEPT ![d] = NoKey]
  /\ Deliver(d, <<Msc(button[d]), Key(0, t), Syn>>)
  /\ UNCHANGED <<node, phase, inq, command, pc, dir, batch, slot, revents,
                 decoder, history>>

(* The device disconnects.  The input core first releases what is held,    *)
(* without a scan value (input_dev_release_keys); opening fails from here. *)
Leave(d, t) ==
  /\ phase[d] = "live"
  /\ phase' = [phase EXCEPT ![d] = "leaving"]
  /\ button' = [button EXCEPT ![d] = NoKey]
  /\ IF button[d] = NoKey THEN UNCHANGED client
                          ELSE Deliver(d, <<Key(0, t), Syn>>)
  /\ UNCHANGED <<node, inq, command, pc, dir, batch, slot, revents, decoder,
                 history>>

(* evdev marks the device dead: readers get ENODEV, poll reports POLLHUP.  *)
HangUp(d) ==
  /\ phase[d] = "leaving"
  /\ phase' = [phase EXCEPT ![d] = "gone"]
  /\ UNCHANGED <<node, button, inq, command, client, pc, dir, batch, slot,
                 revents, decoder, history>>

(* ueventd removes the node of a device that is gone.                      *)
RemoveNode(n) ==
  /\ node[n] # NoDevice
  /\ phase[node[n]] = "gone"
  /\ node' = [node EXCEPT ![n] = NoDevice]
  /\ dir' = [must |-> dir.must \ {n}, may |-> dir.may \cup (dir.must \cap {n})]
  /\ Notice("DELETE", n)
  /\ UNCHANGED <<phase, button, command, client, pc, batch, slot, revents,
                 decoder, history>>

(* Binder has something for the daemon, such as a death notification.      *)
BinderCommand ==
  /\ Binder /\ ~command
  /\ command' = TRUE
  /\ UNCHANGED <<kernel, inq, pc, dir, batch, slot, revents, decoder,
                 history>>

Outside ==
  \/ \E d \in Devices, n \in Nodes, k \in Keys \cup {NoKey} :
       (k # NoKey => d \in Remotes) /\ Plug(d, n, k)
  \/ \E d \in Remotes, k \in Keys, t \in Times : Push(d, k, t)
  \/ \E d \in Remotes, t \in Times : Release(d, t)
  \/ \E d \in Devices, t \in Times : Leave(d, t)
  \/ \E d \in Devices : HangUp(d)
  \/ \E n \in Nodes : RemoveNode(n)
  \/ BinderCommand

-----------------------------------------------------------------------------
(* The slot of the remote.                                                 *)

close_g20_device ==
  /\ path' = NoNode
  /\ fd' = NoFd
  /\ nfds' = 2
  /\ client' = IF fd = NoFd THEN client ELSE [client EXCEPT ![fd] = Closed]

(* open() on the node succeeds: the device is live, a descriptor is free.  *)
Free == {f \in Fds : client[f] = Closed}
Opens(n) ==
  /\ node[n] # NoDevice
  /\ phase[node[n]] = "live"
  /\ Free # {}

(* EVIOCGNAME names the device.  Any other device is closed again at once. *)
IsG20(n) == Opens(n) /\ node[n] \in Remotes

(* Mutants: the remote found first is kept; the old descriptor leaks.      *)
open_first_g20(n) ==
  IF IsG20(n) /\ fd = NoFd
  THEN \E f \in Free :
         /\ path' = n /\ fd' = f /\ nfds' = 3
         /\ client' = [client EXCEPT ![f] = [dev |-> node[n], events |-> <<>>]]
  ELSE UNCHANGED <<slot, client>>

open_and_leak(n) ==
  IF IsG20(n)
  THEN \E f \in Free :
         /\ path' = n /\ fd' = f /\ nfds' = 3
         /\ client' = [client EXCEPT ![f] = [dev |-> node[n], events |-> <<>>]]
  ELSE UNCHANGED <<slot, client>>

open_g20_device(n) ==
  IF IsG20(n)
  THEN \E f \in Free :
         /\ path' = n
         /\ fd' = f
         /\ nfds' = 3
         /\ client' = [g \in Fds |->
              IF g = f THEN [dev |-> node[n], events |-> <<>>]
              ELSE IF g = fd THEN Closed
              ELSE client[g]]
  ELSE UNCHANGED <<slot, client>>

-----------------------------------------------------------------------------
(* Start-up: the watch comes before the scan.                              *)

AddWatch ==
  /\ pc = "start"
  /\ pc' = "opendir"
  /\ UNCHANGED <<kernel, inq, command, dir, batch, slot, revents, decoder,
                 history>>

OpenDir ==
  /\ pc = "opendir"
  /\ LET present == {n \in Nodes : node[n] # NoDevice}
     IN  dir' = [must |-> present, may |-> Nodes \ present]
  /\ pc' = "scan"
  /\ UNCHANGED <<kernel, inq, command, batch, slot, revents, decoder,
                 history>>

(* readdir returns a name, in any order; the scan ends at the first remote.*)
ScanNode(n) ==
  /\ pc = "scan"
  /\ n \in dir.must \cup dir.may
  /\ node[n] # NoDevice
  /\ open_g20_device(n)
  /\ dir' = [must |-> dir.must \ {n}, may |-> dir.may \ {n}]
  /\ pc' = IF IsG20(n) THEN "poll" ELSE "scan"
  /\ UNCHANGED <<node, phase, button, inq, command, batch, revents, decoder,
                 history>>

ScanEnd ==
  /\ pc = "scan"
  /\ dir.must = {}
  /\ pc' = "poll"
  /\ UNCHANGED <<kernel, inq, command, dir, batch, slot, revents, decoder,
                 history>>

-----------------------------------------------------------------------------
(* One turn of the loop.                                                   *)

Readable == client[fd].events # <<>>
HungUp   == phase[client[fd].dev] = "gone"

(* poll writes revents for the first nfds entries only: with the remote's  *)
(* slot outside, its revents keep what they held.                          *)
Poll ==
  /\ pc = "poll"
  /\ inq # <<>> \/ command \/ (nfds = 3 /\ (Readable \/ HungUp))
  /\ revents' = [notify |-> inq # <<>>,
                 binder |-> command,
                 g20    |-> IF nfds = 3 THEN Readable ELSE revents.g20]
  /\ pc' = "notify"
  /\ UNCHANGED <<kernel, inq, command, dir, batch, slot, decoder, history>>

(* How many of the queued notices one read returns; all of them (mutant).  *)
FitsAll(q) == Len(q)
Fits(q)    == IF Len(q) < BatchSize THEN Len(q) ELSE BatchSize

(* read_notify_from_device_path: read as many events as event_buf holds.   *)
ReadNotify ==
  /\ pc = "notify"
  /\ pc' = "handle"
  /\ IF revents.notify
     THEN /\ batch' = SubSeq(inq, 1, Fits(inq))
          /\ inq' = SubSeq(inq, Fits(inq) + 1, Len(inq))
     ELSE UNCHANGED <<batch, inq>>
  /\ UNCHANGED <<kernel, command, dir, slot, revents, decoder, history>>

(* One turn of its while loop.  Mutants: only the first event of a batch   *)
(* is handled; any removal closes the remote.                              *)
HandleFirstNotice ==
  /\ pc = "handle"
  /\ batch # <<>>
  /\ LET e == Head(batch) IN
       IF e.op = "CREATE"   THEN open_g20_device(e.node)
       ELSE IF path = e.node THEN close_g20_device
       ELSE UNCHANGED <<slot, client>>
  /\ batch' = <<>>
  /\ carried' = (carried \/ (fd # NoFd /\ fd' # fd /\ press # Idle))
  /\ UNCHANGED <<node, phase, button, inq, command, pc, dir, revents, press,
                 history>>

CloseOnAnyRemoval ==
  /\ pc = "handle"
  /\ batch # <<>>
  /\ IF Head(batch).op = "CREATE" THEN open_g20_device(Head(batch).node)
                                  ELSE close_g20_device
  /\ batch' = Tail(batch)
  /\ carried' = (carried \/ (fd # NoFd /\ fd' # fd /\ press # Idle))
  /\ UNCHANGED <<node, phase, button, inq, command, pc, dir, revents, press,
                 history>>

HandleNotice ==
  /\ pc = "handle"
  /\ batch # <<>>
  /\ LET e == Head(batch) IN
       IF e.op = "CREATE"   THEN open_g20_device(e.node)
       ELSE IF path = e.node THEN close_g20_device
       ELSE UNCHANGED <<slot, client>>
  /\ batch' = Tail(batch)
  /\ carried' = (carried \/ (fd # NoFd /\ fd' # fd /\ press # Idle))
  /\ UNCHANGED <<node, phase, button, inq, command, pc, dir, revents, press,
                 history>>

(* OnBinderReadReady, when its pollfd says so.                             *)
HandleBinder ==
  /\ pc = "handle"
  /\ batch = <<>>
  /\ command' = (command /\ ~revents.binder)
  /\ pc' = "check"
  /\ UNCHANGED <<kernel, inq, dir, batch, slot, revents, decoder, history>>

(* Nothing to read from the remote: forget the press if it is not open;    *)
(* it is never forgotten (mutant).                                         *)
CheckSlotKeeps ==
  /\ pc = "check"
  /\ pc' = IF nfds = 3 /\ revents.g20 THEN "read" ELSE "poll"
  /\ carried' = (carried /\ nfds = 3)
  /\ UNCHANGED <<kernel, inq, command, dir, batch, slot, revents, press,
                 history>>

CheckSlot ==
  /\ pc = "check"
  /\ IF nfds < 3 THEN press' = Idle /\ carried' = FALSE
                 ELSE UNCHANGED decoder
  /\ pc' = IF nfds = 3 /\ revents.g20 THEN "read" ELSE "poll"
  /\ UNCHANGED <<kernel, inq, command, dir, batch, slot, revents, history>>

(* read() of one input_event.  The descriptor is blocking: while it has no *)
(* event and its device is there, the daemon waits here.                   *)
ReadEvent ==
  /\ pc = "read"
  /\ ~HungUp
  /\ Readable
  /\ press' = Decode(press, Head(client[fd].events))
  /\ carried' = (carried /\ press'.keycode # NoKey)
  /\ client' = [client EXCEPT ![fd].events = Tail(@)]
  /\ pc' = "poll"
  /\ UNCHANGED <<node, phase, button, inq, command, dir, batch, slot,
                 revents, history>>

(* The read is given up, the loop goes on; it is tried again (mutant).     *)
ReadFailsRetries ==
  /\ pc = "read"
  /\ HungUp
  /\ UNCHANGED vars

ReadFails ==
  /\ pc = "read"
  /\ HungUp
  /\ pc' = "poll"
  /\ UNCHANGED <<kernel, inq, command, dir, batch, slot, revents, decoder,
                 history>>

Daemon ==
  \/ AddWatch \/ OpenDir \/ (\E n \in Nodes : ScanNode(n)) \/ ScanEnd
  \/ Poll \/ ReadNotify \/ HandleNotice \/ HandleBinder \/ CheckSlot
  \/ ReadEvent \/ ReadFails

-----------------------------------------------------------------------------
(* The daemon starts with some devices already there.                      *)
Init ==
  /\ node \in {N \in [Nodes -> Devices \cup {NoDevice}] :
                 \A m, n \in Nodes : N[m] = N[n] /\ N[m] # NoDevice => m = n}
  /\ phase = [d \in Devices |-> IF \E n \in Nodes : node[n] = d THEN "live" ELSE "new"]
  /\ button = [d \in Devices |-> NoKey]
  /\ inq = <<>>
  /\ command = FALSE
  /\ client = [f \in Fds |-> Closed]
  /\ pc = "start"
  /\ dir = [must |-> {}, may |-> {}]
  /\ batch = <<>>
  /\ path = NoNode /\ fd = NoFd /\ nfds = 2
  /\ revents = [notify |-> FALSE, binder |-> FALSE, g20 |-> FALSE]
  /\ press = Idle /\ carried = FALSE
  /\ latest = NoDevice
  /\ overlap = \E r, s \in Remotes : r # s /\ phase[r] = "live" /\ phase[s] = "live"

Next == Outside \/ Daemon

(* The scheduler runs the daemon, evdev finishes a disconnection and       *)
(* ueventd removes the node; nobody has to connect or push anything.       *)
Fairness ==
  /\ WF_vars(Daemon)
  /\ \A d \in Devices : WF_vars(HangUp(d))
  /\ \A n \in Nodes : WF_vars(RemoveNode(n))

Spec == Init /\ [][Next]_vars /\ Fairness

-----------------------------------------------------------------------------
Ops == [op : {"CREATE", "DELETE"}, node : Nodes]

Events ==
       [type : {"MSC"}, value : Keys]
  \cup [type : {"KEY"}, value : {0, 1}, time : Times]
  \cup {Syn}

Steps == {"start", "opendir", "scan", "poll", "notify", "handle", "check", "read"}

(* The types of the loop's state; a batch fits event_buf and is empty      *)
(* outside read_notify_from_device_path, and the loop reads from a remote  *)
(* only while one is open (main, lines 257-268).                           *)
TypeOK ==
  /\ node \in [Nodes -> Devices \cup {NoDevice}]
  /\ phase \in [Devices -> {"new", "live", "leaving", "gone"}]
  /\ button \in [Devices -> Keys \cup {NoKey}]
  /\ inq \in Seq(Ops)
  /\ command \in BOOLEAN
  /\ client \in [Fds -> [dev : Devices \cup {NoDevice}, events : Seq(Events)]]
  /\ pc \in Steps
  /\ dir \in [must : SUBSET Nodes, may : SUBSET Nodes]
  /\ batch \in Seq(Ops) /\ Len(batch) <= BatchSize
  /\ path \in Nodes \cup {NoNode}
  /\ fd \in Fds \cup {NoFd}
  /\ nfds \in {2, 3}
  /\ revents \in [notify : BOOLEAN, binder : BOOLEAN, g20 : BOOLEAN]
  /\ press \in Press /\ (press.keycode = NoKey => press.usec = 0)
  /\ latest \in Remotes \cup {NoDevice}
  /\ overlap \in BOOLEAN
  /\ carried \in BOOLEAN
  /\ pc # "handle" => batch = <<>>
  /\ pc = "read" => nfds = 3

(* open_g20_device and close_g20_device keep the three statics of the slot *)
(* in step and leak no descriptor: whatever order devices come and go in,  *)
(* the daemon's open input files are exactly the one in ufds, it is a      *)
(* remote's, and nfds and g20_open_device_path say whether there is one.   *)
DescriptorOwned ==
  /\ {f \in Fds : client[f].dev # NoDevice} = {fd} \ {NoFd}
  /\ Served \in Remotes \cup {NoDevice}
  /\ nfds = 3 <=> fd # NoFd
  /\ path = NoNode <=> fd = NoFd

pending == batch \o inq

(* The slot never goes stale unnoticed: a daemon whose open remote is no   *)
(* longer behind the path it remembers - removed, or the node reused by    *)
(* another device - has the notice of that removal before it, so the       *)
(* string compare at line 103 will close the descriptor.                   *)
TracksNode ==
  fd # NoFd /\ node[path] # Served =>
    \E i \in DOMAIN pending : pending[i] = [op |-> "DELETE", node |-> path]

(* "The latest connected one wins": while the remote that connected last   *)
(* is there, the daemon serves it or has the notice of its arrival before  *)
(* it; no stale notice about a reused node and no order of the scan and    *)
(* the watch makes it settle for an earlier remote.                        *)
LatestWins ==
  latest # NoDevice /\ phase[latest] = "live" =>
    \/ Served = latest
    \/ \E i \in DOMAIN pending :
         pending[i].op = "CREATE" /\ node[pending[i].node] = latest

(* No remote falls between the scan and the watch: when nothing is left to *)
(* handle and remotes were never connected two at a time, the one that is  *)
(* connected is the one being served.                                      *)
RemoteFound ==
  pc = "poll" /\ inq = <<>> /\ ~overlap =>
    \A n \in Nodes :
      node[n] \in Remotes /\ phase[node[n]] = "live" => Served = node[n]

(* The switch is entered by the push of a button, not by its release, only *)
(* if the press being tracked was begun on a descriptor that was replaced  *)
(* by another before the loop could see an empty slot and reset (lines     *)
(* 257-261).                                                               *)
PushActsOnlyAfterSwap ==
  [][(ReadEvent /\ Dispatches(press, Head(client[fd].events))
               /\ Head(client[fd].events).value # 0)
       => carried
    ]_vars

(* The README says that key presses are only dispatched when the button is *)
(* released.                                                               *)
OnlyReleasesAct ==
  [][(ReadEvent /\ Dispatches(press, Head(client[fd].events)))
       => Head(client[fd].events).value = 0
    ]_vars

(* A remote that is gone is dropped: neither the hang-up poll reports over *)
(* and over nor a failing read keeps the loop from the notice of removal.  *)
DisconnectNoticed ==
  \A d \in Devices : (Served = d /\ phase[d] = "gone") ~> (Served # d)

(* A remote that stays connected, and never shared the daemon with another *)
(* one, ends up being served for good: no late notice about another device *)
(* or about an earlier use of its node takes it away again.                *)
RemoteServed ==
  \A d \in Remotes :
    [](~overlap) /\ <>[](phase[d] = "live") => <>[](Served = d)

(* With several remotes the last one to connect is served for good if it   *)
(* stays, unless the loop is stuck in the read of an earlier one: the      *)
(* stale revents at line 263 is the only thing that can cheat it.          *)
LatestServedUnlessStuck ==
  \A d \in Remotes :
    <>[](latest = d /\ phase[d] = "live") => <>[](Served = d) \/ <>[](pc = "read")

(* The README says that in the case of multiple remotes the latest         *)
(* connected one wins.                                                     *)
LatestServed ==
  \A d \in Remotes :
    <>[](latest = d /\ phase[d] = "live") => <>(Served = d)
=============================================================================
