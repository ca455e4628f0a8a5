---------------------------- MODULE DiscoveryProofs ----------------------------
(***************************************************************************)
(* Proofs about which remote EventLoop serves: the latest one wins, and no *)
(* remote is missed between the watch and the scan.                        *)
(*                                                                         *)
(* Both rest on the order of the notices still to be handled: one that     *)
(* would take the remote away (the removal of a node that is in use again, *)
(* the arrival of another remote) always has a newer one behind it that    *)
(* brings the remote back.                                                 *)
(*                                                                         *)
(* The last part is about what a press meets when the remote is replaced.  *)
(***************************************************************************)
EXTENDS EventLoopProofs

Waiting == 1 .. Len(pending)

(* The notice of d's arrival has still to be handled.                      *)
News(d) ==
  \E j \in Waiting : pending[j].op = "CREATE" /\ node[pending[j].node] = d

(* The removal of a node that is in use again has its creation behind it.  *)
Renewed ==
  \A i \in Waiting : pending[i].op = "DELETE" /\ node[pending[i].node] # NoDevice =>
    \E j \in Waiting : j > i /\ pending[j].op = "CREATE"
                             /\ pending[j].node = pending[i].node

(* Another remote's arrival has that of the latest behind it.              *)
LiveLatest == latest # NoDevice /\ phase[latest] = "live"
Superseded ==
  LiveLatest =>
    \A i \in Waiting :
      pending[i].op = "CREATE" /\ node[pending[i].node] \in Remotes \ {latest} =>
        \E j \in Waiting : j > i /\ pending[j].op = "CREATE"
                                 /\ node[pending[j].node] = latest

Newest == LiveLatest => Served = latest \/ News(latest)

(* The scan has not begun, or must still return the node.                  *)
ToBeScanned(n) == pc \in {"start", "opendir"} \/ (pc = "scan" /\ n \in dir.must)

Connected(n) == node[n] \in Remotes /\ phase[node[n]] = "live"
Found ==
  ~overlap => \A n \in Nodes :
    Connected(n) => Served = node[n] \/ News(node[n]) \/ ToBeScanned(n)

(* A descriptor that is not open has nothing to read.                      *)
Clean == \A f \in Fds : client[f].dev = NoDevice => client[f] = Closed

(* Before the loop: no remote is open until the scan finds one, and        *)
(* nothing is known of arrivals until the watch exists.                    *)
Starting ==
  /\ pc = "scan" => fd = NoFd
  /\ pc = "start" => latest = NoDevice /\ pending = <<>>

(* An open remote is behind its path, or gone.                             *)
Placed == fd # NoFd => phase[Served] = "gone" \/ node[path] = Served

Alone ==
  ~overlap => \A r, s \in Remotes : phase[r] = "live" /\ phase[s] = "live" => r = s

Order == Renewed /\ Superseded
Rest  == Clean /\ Starting /\ Placed /\ Alone
WInv  == NInv /\ Rest /\ Order /\ Newest /\ Found

-----------------------------------------------------------------------------
(* What WInv says of the types.                                            *)
LEMMA Basics ==
  ASSUME NInv
  PROVE  /\ TypeOK /\ SlotOK /\ RestOK /\ DescriptorOwned /\ Early
         /\ batch \in Seq(Ops) /\ inq \in Seq(Ops) /\ pending \in Seq(Ops)
         /\ Len(pending) \in Nat
         /\ \A i \in Waiting : pending[i] \in Ops
         /\ fd # NoFd => /\ fd \in Fds /\ path \in Nodes
                         /\ Served \in Remotes /\ Served # NoDevice
         /\ fd = NoFd => Served = NoDevice
<1>1. TypeOK /\ SlotOK /\ RestOK /\ DescriptorOwned /\ Early
  BY TypeParts DEF NInv, IInv
<1>2. batch \in Seq(Ops) /\ inq \in Seq(Ops)
  BY <1>1 DEF RestOK
<1>3. pending \in Seq(Ops)
  BY <1>2, ConcatProperties DEF pending
<1>4. Len(pending) \in Nat /\ \A i \in Waiting : pending[i] \in Ops
  BY <1>3, LenProperties, ElementOfSeq DEF Waiting
<1> QED
  BY <1>1, <1>2, <1>3, <1>4, LoopAssumption DEF SlotOK, DescriptorOwned, Served

(* What becomes of the notices that are waiting.                           *)
LEMMA Queued ==
  ASSUME batch \in Seq(Ops), inq \in Seq(Ops), NEW n \in Nodes,
         NEW op \in {"CREATE", "DELETE"}, Notice(op, n), Watching, UNCHANGED batch
  PROVE  /\ Len(pending') = Len(pending) + 1
         /\ \A i \in Waiting : pending'[i] = pending[i]
         /\ pending'[Len(pending) + 1] = [op |-> op, node |-> n]
<1> DEFINE x == [op |-> op, node |-> n]
<1>1. x \in Ops /\ inq' = Append(inq, x)
  BY DEF Ops, Notice
<1>2. /\ Len(batch) \in Nat /\ Len(inq) \in Nat
      /\ Len(pending) = Len(batch) + Len(inq)
      /\ \A i \in 1 .. Len(batch) + Len(inq) :
           pending[i] = IF i <= Len(batch) THEN batch[i] ELSE inq[i - Len(batch)]
  BY ConcatProperties, LenProperties DEF pending
<1>3. /\ inq' \in Seq(Ops) /\ Len(inq') = Len(inq) + 1
      /\ \A i \in 1 .. Len(inq) : inq'[i] = inq[i]
      /\ inq'[Len(inq) + 1] = x
  BY <1>1, AppendProperties
<1>4. /\ Len(pending') = Len(batch) + Len(inq')
      /\ \A i \in 1 .. Len(batch) + Len(inq') :
           pending'[i] = IF i <= Len(batch) THEN batch[i] ELSE inq'[i - Len(batch)]
  BY <1>3, ConcatProperties DEF pending
<1> HIDE DEF x
<1>5. pending'[Len(pending) + 1] = x
  <2>1. Len(pending) + 1 \in 1 .. Len(batch) + Len(inq') /\ Len(pending) + 1 > Len(batch)
    BY <1>2, <1>3
  <2>2. Len(pending) + 1 - Len(batch) = Len(inq) + 1
    BY <1>2
  <2> QED
    BY <1>2, <1>3, <1>4, <2>1, <2>2
<1>6. ASSUME NEW i \in Waiting PROVE pending'[i] = pending[i]
  <2>1. i \in 1 .. Len(batch) + Len(inq) /\ i \in 1 .. Len(batch) + Len(inq')
    BY <1>2, <1>3 DEF Waiting
  <2>2. CASE i <= Len(batch)
    BY <1>2, <1>4, <2>1, <2>2
  <2>3. CASE ~(i <= Len(batch))
    <3>1. i - Len(batch) \in 1 .. Len(inq)
      BY <1>2, <2>1, <2>3
    <3>2. inq'[i - Len(batch)] = inq[i - Len(batch)]
      BY <1>3, <3>1
    <3> QED
      BY <1>2, <1>4, <2>1, <2>3, <3>2
  <2> QED
    BY <2>2, <2>3
<1> QED
  BY <1>2, <1>3, <1>4, <1>5, <1>6 DEF x

LEMMA Taken ==
  ASSUME batch \in Seq(Ops), inq \in Seq(Ops), batch # <<>>,
         batch' = Tail(batch), UNCHANGED inq
  PROVE  /\ 1 \in Waiting /\ pending[1] = Head(batch)
         /\ Len(pending') = Len(pending) - 1
         /\ \A i \in Waiting' : pending'[i] = pending[i + 1]
<1>1. /\ Len(batch) \in Nat \ {0} /\ Len(inq) \in Nat
      /\ Len(pending) = Len(batch) + Len(inq)
      /\ \A i \in 1 .. Len(batch) + Len(inq) :
           pending[i] = IF i <= Len(batch) THEN batch[i] ELSE inq[i - Len(batch)]
  BY ConcatProperties, LenProperties DEF pending
<1>2. /\ Tail(batch) \in Seq(Ops) /\ Len(Tail(batch)) = Len(batch) - 1
      /\ Head(batch) = batch[1]
      /\ \A i \in 1 .. Len(Tail(batch)) : Tail(batch)[i] = batch[i + 1]
  BY HeadTailProperties
<1>3. /\ Len(pending') = Len(batch') + Len(inq)
      /\ \A i \in 1 .. Len(batch') + Len(inq) :
           pending'[i] = IF i <= Len(batch') THEN batch'[i] ELSE inq[i - Len(batch')]
  BY <1>2, ConcatProperties DEF pending
<1>4. ASSUME NEW i \in Waiting' PROVE pending'[i] = pending[i + 1]
  <2>1. i \in 1 .. Len(batch') + Len(inq) /\ i + 1 \in 1 .. Len(batch) + Len(inq)
    BY <1>1, <1>2, <1>3 DEF Waiting
  <2>2. i + 1 - Len(batch) = i - Len(batch')
    BY <1>1, <1>2, <2>1
  <2> QED
    BY <1>1, <1>2, <1>3, <2>1, <2>2
<1> QED
  BY <1>1, <1>2, <1>3, <1>4 DEF Waiting

LEMMA Batched ==
  ASSUME NInv, ReadNotify
  PROVE  pending' = pending
<1>1. inq \in Seq(Ops) /\ batch = <<>>
  BY Basics DEF ReadNotify, RestOK
<1>2. pending = inq
  BY <1>1, ConcatEmptySeq DEF pending
<1>3. CASE revents.notify
  <2>1. /\ Len(inq) \in Nat /\ Fits(inq) \in 0 .. Len(inq)
        /\ 1 \in 1 .. Len(inq) + 1 /\ Fits(inq) \in 1 - 1 .. Len(inq)
        /\ Len(inq) \in Fits(inq) .. Len(inq)
    BY <1>1, LenProperties, LoopAssumption DEF Fits
  <2>2. SubSeq(inq, 1, Fits(inq)) \o SubSeq(inq, Fits(inq) + 1, Len(inq))
          = SubSeq(inq, 1, Len(inq))
    BY ONLY <2>1, <1>1, ConcatAdjacentSubSeq
  <2>3. SubSeq(inq, 1, Len(inq)) = inq
    BY <1>1, SubSeqFull
  <2> QED
    BY <1>2, <1>3, <2>2, <2>3 DEF ReadNotify, pending
<1>4. CASE ~revents.notify
  BY <1>4 DEF ReadNotify, pending
<1> QED
  BY <1>3, <1>4

-----------------------------------------------------------------------------
(* Opening the node of a live remote serves it: a descriptor is free,      *)
(* since at most one is taken.                                             *)
LEMMA OpenServes ==
  ASSUME NInv, Clean, NEW n \in Nodes, Connected(n), open_g20_device(n)
  PROVE  /\ IsG20(n) /\ Clean'
         /\ path' = n /\ fd' \in Fds /\ fd' # NoFd /\ Served' = node[n]
<1>1. SlotOK /\ DescriptorOwned
  BY Basics
<1>2. Free # {}
  <2>1. PICK f, g \in Fds : f # g
    BY FdsAssumption
  <2>2. client[f].dev = NoDevice \/ client[g].dev = NoDevice
    BY <1>1, <2>1 DEF DescriptorOwned
  <2> QED
    BY <2>2 DEF Clean, Free
<1>3. IsG20(n)
  BY <1>2, LoopAssumption DEF Connected, IsG20, Opens
<1>4. PICK f \in Free :
        /\ path' = n /\ fd' = f
        /\ client' = [g \in Fds |->
             IF g = f THEN [dev |-> node[n], events |-> <<>>]
             ELSE IF g = fd THEN Closed
             ELSE client[g]]
  BY <1>3 DEF open_g20_device
<1>5. f \in Fds /\ f # NoFd
  BY LoopAssumption DEF Free
<1>6. Served' = node[n]
  BY <1>4, <1>5 DEF Served
<1>7. Clean'
  BY <1>4, LoopAssumption DEF Clean, Connected
<1> QED
  BY <1>3, <1>4, <1>5, <1>6, <1>7

LEMMA OpenIgnores ==
  ASSUME NEW n \in Nodes, ~Connected(n), open_g20_device(n)
  PROVE  ~IsG20(n) /\ UNCHANGED <<slot, client>>
BY DEF Connected, IsG20, Opens, open_g20_device

(* A step that queues and handles nothing, moves no node and leaves the    *)
(* slot with its device.  Devices may leave.                               *)
Steady ==
  /\ UNCHANGED <<node, pending, latest, overlap, path, fd>>
  /\ Served' = Served
  /\ \A d \in Devices :
       /\ phase'[d] = "live" => phase[d] = "live"
       /\ phase[d] = "gone" => phase'[d] = "gone"
  /\ pc' = "start" => pc = "start"
  /\ pc' = "scan" => fd = NoFd
  /\ \A n \in Nodes : Connected(n) /\ ToBeScanned(n) => ToBeScanned(n)'


LEMMA SteadyKeeps ==
  ASSUME WInv, NInv', Clean', Steady
  PROVE  WInv'
<1>1. UNCHANGED <<node, pending, latest, overlap, path, fd>> /\ Served' = Served
  BY DEF Steady
<1>2. NInv /\ Rest /\ Order /\ Newest /\ Found
  BY DEF WInv
<1>3. node \in [Nodes -> Devices \cup {NoDevice}] /\ latest \in Remotes \cup {NoDevice}
  BY <1>2, Basics DEF RestOK
<1>4. fd # NoFd => Served \in Devices
  BY <1>2, Basics, LoopAssumption
<1>5. Starting' /\ Alone'
  BY <1>1, <1>2, LoopAssumption DEF Steady, Starting, Alone, Rest
<1>6. Placed'
  BY <1>1, <1>2, <1>4 DEF Steady, Placed, Rest
<1>7. LiveLatest' => LiveLatest
  BY <1>1, <1>3, LoopAssumption DEF Steady, LiveLatest
<1>8. \A d : News(d) => News(d)'
  BY <1>1 DEF News, Waiting
<1>9. Renewed'
  BY <1>1, <1>2 DEF Order, Renewed, Waiting
<1>10. Superseded'
  BY <1>1, <1>2, <1>7 DEF Order, Superseded, Waiting
<1>11. Newest'
  BY <1>1, <1>2, <1>7, <1>8 DEF Newest
<1>12. Found'
  <2> SUFFICES ASSUME ~overlap, NEW n \in Nodes, Connected(n)'
               PROVE  Served' = node'[n] \/ News(node[n])' \/ ToBeScanned(n)'
    BY <1>1 DEF Found, News
  <2>1. Connected(n)
    BY <1>1, LoopAssumption DEF Connected, Steady
  <2>2. Served = node[n] \/ News(node[n]) \/ ToBeScanned(n)
    BY <1>2, <2>1 DEF Found
  <2> QED
    BY <1>1, <1>8, <2>1, <2>2 DEF Steady
<1> QED
  BY <1>5, <1>6, <1>9, <1>10, <1>11, <1>12 DEF WInv, Rest, Order

LEMMA WInvInit == Init => WInv
<1> SUFFICES ASSUME Init
             PROVE  WInv
  OBVIOUS
<1>1. NInv
  BY NInvInit
<1>2. batch = <<>> /\ inq = <<>> /\ fd = NoFd /\ pc = "start" /\ latest = NoDevice
  BY DEF Init
<1>3. pending = <<>>
  BY <1>2 DEF pending
<1>4. ~\E i : i \in Waiting
  BY <1>3 DEF Waiting
<1>5. Clean /\ Starting /\ Placed
  BY <1>2, <1>3 DEF Init, Clean, Starting, Placed
<1>6. Alone
  BY DEF Init, Alone
<1>7. Order /\ Newest /\ Found
  BY <1>2, <1>4 DEF Order, Renewed, Superseded, Newest, LiveLatest, Found, ToBeScanned
<1> QED
  BY <1>1, <1>5, <1>6, <1>7 DEF WInv, Rest

-----------------------------------------------------------------------------
(* The steps that are steady.                                              *)

LEMMA DeliverSteady ==
  ASSUME NInv, Clean, NEW d \in Devices, NEW events \in Seq(Events),
         Deliver(d, events), UNCHANGED slot
  PROVE  Served' = Served /\ Clean'
<1>1. \A f \in Fds : client'[f].dev = client[f].dev
  BY Basics, DeliverKeeps
<1>2. \A f \in Fds : client[f].dev # d => client'[f] = client[f]
  BY DEF Deliver
<1>3. Clean'
  BY <1>1, <1>2, LoopAssumption DEF Clean
<1>4. Served' = Served
  BY <1>1, Basics DEF Served, slot
<1> QED
  BY <1>3, <1>4

LEMMA QuietSteady ==
  ASSUME WInv,
         \/ \E d \in Remotes, k \in Keys, t \in Times : Push(d, k, t)
         \/ \E d \in Remotes, t \in Times : Release(d, t)
         \/ \E d \in Devices, t \in Times : Leave(d, t)
         \/ \E d \in Devices : HangUp(d)
         \/ BinderCommand \/ AddWatch \/ OpenDir \/ ScanEnd \/ Poll
         \/ ReadNotify \/ HandleBinder \/ CheckSlot \/ ReadEvent \/ ReadFails
         \/ UNCHANGED vars
  PROVE  Clean' /\ Steady
<1>1. NInv /\ Clean /\ TypeOK /\ SlotOK /\ RestOK /\ Early /\ Starting
  BY Basics DEF WInv, Rest
<1> DEFINE Same   == UNCHANGED <<node, pending, latest, overlap, path, fd>>
           Scan   == /\ pc' = "start" => pc = "start"
                     /\ pc' = "scan" => fd = NoFd
                     /\ \A n \in Nodes : Connected(n) /\ ToBeScanned(n) => ToBeScanned(n)'
           Leaves == \A d \in Devices :
                       /\ phase'[d] = "live" => phase[d] = "live"
                       /\ phase[d] = "gone" => phase'[d] = "gone"
<1>a. ASSUME Same, Served' = Served, Clean', Scan, Leaves PROVE Clean' /\ Steady
  BY <1>a DEF Steady
<1>b. ASSUME UNCHANGED <<pc, dir>> PROVE Scan
  BY <1>1, <1>b DEF Starting, ToBeScanned
<1>c. ASSUME UNCHANGED <<slot, client>> PROVE Served' = Served /\ Clean'
  BY <1>1, <1>c DEF Served, Clean, slot
<1>d. ASSUME UNCHANGED phase PROVE Leaves
  BY <1>d
<1>e. ASSUME pc \notin {"start", "opendir", "scan"}, pc' \notin {"start", "opendir", "scan"}
      PROVE  Scan
  BY <1>e DEF ToBeScanned
<1> HIDE DEF Scan, Leaves
<1>2. ASSUME NEW d \in Remotes, NEW k \in Keys, NEW t \in Times, Push(d, k, t)
      PROVE  Clean' /\ Steady
  <2>1. <<Msc(k), Key(1, t), Syn>> \in Seq(Events)
    BY DEF Events, Msc, Key, Syn
  <2>2. Served' = Served /\ Clean'
    BY <1>1, <1>2, <2>1, DeliverSteady, LoopAssumption DEF Push
  <2>3. Same /\ Scan /\ Leaves
    BY <1>b, <1>d, <1>2 DEF Push, pending, slot, history
  <2> QED
    BY <1>a, <2>2, <2>3
<1>3. ASSUME NEW d \in Remotes, NEW t \in Times, Release(d, t)
      PROVE  Clean' /\ Steady
  <2>1. <<Msc(button[d]), Key(0, t), Syn>> \in Seq(Events)
    BY <1>1, <1>3, LoopAssumption DEF Release, RestOK, Events, Msc, Key, Syn
  <2>2. Served' = Served /\ Clean'
    BY <1>1, <1>3, <2>1, DeliverSteady, LoopAssumption DEF Release
  <2>3. Same /\ Scan /\ Leaves
    BY <1>b, <1>d, <1>3 DEF Release, pending, slot, history
  <2> QED
    BY <1>a, <2>2, <2>3
<1>4. ASSUME NEW d \in Devices, NEW t \in Times, Leave(d, t)
      PROVE  Clean' /\ Steady
  <2>1. <<Key(0, t), Syn>> \in Seq(Events)
    BY DEF Events, Key, Syn
  <2>2. Served' = Served /\ Clean'
    <3>1. CASE button[d] = NoKey
      BY <1>c, <1>4, <3>1 DEF Leave
    <3>2. CASE button[d] # NoKey
      BY <1>1, <1>4, <2>1, <3>2, DeliverSteady DEF Leave
    <3> QED
      BY <3>1, <3>2
  <2>3. Leaves
    BY <1>1, <1>4 DEF Leave, Leaves, RestOK
  <2>4. Same /\ Scan
    BY <1>b, <1>4 DEF Leave, pending, slot, history
  <2> QED
    BY <1>a, <2>2, <2>3, <2>4
<1>5. ASSUME NEW d \in Devices, HangUp(d)
      PROVE  Clean' /\ Steady
  <2>1. Leaves
    BY <1>1, <1>5 DEF HangUp, Leaves, RestOK
  <2>2. Same /\ Scan
    BY <1>b, <1>5 DEF HangUp, pending, slot, history
  <2>3. Served' = Served /\ Clean'
    BY <1>c, <1>5 DEF HangUp
  <2> QED
    BY <1>a, <2>1, <2>2, <2>3
<1>6. CASE BinderCommand \/ UNCHANGED vars
  <2>1. Same /\ Scan /\ Leaves
    BY <1>b, <1>d, <1>6 DEF BinderCommand, vars, kernel, pending, slot, history
  <2>2. Served' = Served /\ Clean'
    BY <1>c, <1>6 DEF BinderCommand, vars, kernel, slot
  <2> QED
    BY <1>a, <2>1, <2>2
<1>7. CASE AddWatch
  <2>1. Scan
    BY <1>7 DEF AddWatch, Scan, ToBeScanned
  <2>2. Same /\ Leaves
    BY <1>d, <1>7 DEF AddWatch, kernel, pending, slot, history
  <2>3. Served' = Served /\ Clean'
    BY <1>c, <1>7 DEF AddWatch, kernel
  <2> QED
    BY <1>a, <2>1, <2>2, <2>3
<1>8. CASE OpenDir
  <2>1. Scan
    BY <1>1, <1>8, LoopAssumption DEF OpenDir, Scan, ToBeScanned, Connected, Early
  <2>2. Same /\ Leaves
    BY <1>d, <1>8 DEF OpenDir, kernel, pending, slot, history
  <2>3. Served' = Served /\ Clean'
    BY <1>c, <1>8 DEF OpenDir, kernel
  <2> QED
    BY <1>a, <2>1, <2>2, <2>3
<1>9. CASE ScanEnd
  <2>1. Scan
    BY <1>9 DEF ScanEnd, Scan, ToBeScanned
  <2>2. Same /\ Leaves
    BY <1>d, <1>9 DEF ScanEnd, kernel, pending, slot, history
  <2>3. Served' = Served /\ Clean'
    BY <1>c, <1>9 DEF ScanEnd, kernel
  <2> QED
    BY <1>a, <2>1, <2>2, <2>3
<1>10. CASE Poll \/ HandleBinder \/ CheckSlot \/ ReadFails
  <2>1. Scan
    BY <1>e, <1>10 DEF Poll, HandleBinder, CheckSlot, ReadFails
  <2>2. Same /\ Leaves
    BY <1>d, <1>10 DEF Poll, HandleBinder, CheckSlot, ReadFails, kernel, pending, slot, history
  <2>3. Served' = Served /\ Clean'
    BY <1>c, <1>10 DEF Poll, HandleBinder, CheckSlot, ReadFails, kernel
  <2> QED
    BY <1>a, <2>1, <2>2, <2>3
<1>11. CASE ReadNotify
  <2>1. Scan
    BY <1>e, <1>11 DEF ReadNotify
  <2>2. pending' = pending
    BY <1>1, <1>11, Batched
  <2>3. Same /\ Leaves
    BY <1>d, <1>11, <2>2 DEF ReadNotify, kernel, slot, history
  <2>4. Served' = Served /\ Clean'
    BY <1>c, <1>11 DEF ReadNotify, kernel
  <2> QED
    BY <1>a, <2>1, <2>3, <2>4
<1>12. CASE ReadEvent
  <2>1. Scan
    BY <1>e, <1>12 DEF ReadEvent
  <2>2. Same /\ Leaves
    BY <1>d, <1>12 DEF ReadEvent, slot, history, pending
  <2>3. fd # NoFd /\ Served # NoDevice
    BY <1>1, <1>12, Basics DEF ReadEvent, RestOK, DescriptorOwned
  <2>4. /\ \A f \in Fds : client'[f].dev = client[f].dev
        /\ \A f \in Fds \ {fd} : client'[f] = client[f]
    BY <1>1, <1>12 DEF ReadEvent, SlotOK, Open
  <2>5. Served' = Served
    BY <1>1, <1>12, <2>3, <2>4, Basics DEF Served, ReadEvent, slot
  <2>6. Clean'
    BY <1>1, <2>3, <2>4 DEF Clean, Served
  <2> QED
    BY <1>a, <2>1, <2>2, <2>5, <2>6
<1> QED
  BY <1>2, <1>3, <1>4, <1>5, <1>6, <1>7, <1>8, <1>9, <1>10, <1>11, <1>12

-----------------------------------------------------------------------------
(* The steps that queue a notice, handle one or open a remote.             *)

LEMMA PlugKeeps ==
  ASSUME WInv, NInv', NEW d \in Devices, NEW n \in Nodes, NEW k \in Keys \cup {NoKey},
         Plug(d, n, k)
  PROVE  WInv'
<1>1. /\ NInv /\ Rest /\ Order /\ Newest /\ Found
      /\ Clean /\ Starting /\ Placed /\ Alone /\ Renewed /\ Superseded
  BY DEF WInv, Rest, Order
<1>2. /\ RestOK /\ Len(pending) \in Nat
      /\ \A i \in Waiting : pending[i] \in Ops
      /\ fd # NoFd => Served \in Devices \ {NoDevice} /\ path \in Nodes
  BY <1>1, Basics, LoopAssumption
<1>3. /\ node[n] = NoDevice /\ node'[n] = d /\ d # NoDevice
      /\ \A m \in Nodes \ {n} : node'[m] = node[m]
      /\ phase[d] = "new" /\ phase'[d] = "live"
      /\ \A e \in Devices \ {d} : phase'[e] = phase[e]
      /\ UNCHANGED <<pc, dir, slot, client, batch>> /\ Served' = Served
  BY <1>2, LoopAssumption DEF Plug, RestOK, slot, Served
<1>4. CASE ~Watching
  <2>1. pc = "start" /\ latest' = NoDevice /\ pending' = <<>> /\ fd = NoFd
    BY <1>1, <1>4, Basics DEF Watching, Starting, Early, Plug, Notice, pending
  <2>2. ~\E i : i \in Waiting'
    BY <2>1 DEF Waiting
  <2>3. Order' /\ Newest' /\ Found'
    BY <1>3, <2>1, <2>2 DEF Order, Renewed, Superseded, LiveLatest, Newest, Found, ToBeScanned
  <2>4. Clean' /\ Starting' /\ Placed'
    BY <1>1, <1>3, <2>1 DEF Clean, Starting, Placed, slot
  <2>5. Alone'
    BY <1>1, <1>3, LoopAssumption DEF Alone, Plug
  <2> QED
    BY <2>3, <2>4, <2>5 DEF WInv, Rest
<1>5. CASE Watching
  <2>1. /\ Len(pending') = Len(pending) + 1
        /\ \A i \in Waiting : pending'[i] = pending[i]
        /\ pending'[Len(pending) + 1] = [op |-> "CREATE", node |-> n]
    BY <1>1, <1>5, Queued, Basics DEF Plug
  <2>2. /\ Len(pending) + 1 \in Waiting'
        /\ \A i \in Waiting : i \in Waiting' /\ i < Len(pending) + 1 /\ pending[i].node \in Nodes
        /\ \A i \in Waiting' : i \in Waiting \/ i = Len(pending) + 1
    BY <1>2, <2>1 DEF Waiting, Ops
  <2>3. News(d)'
    BY <1>3, <2>1, <2>2 DEF News
  <2>4. \A e \in Devices : News(e) => News(e)'
    BY <1>3, <2>1, <2>2, LoopAssumption DEF News
  <2>5. Renewed'
    <3> SUFFICES ASSUME NEW i \in Waiting', pending'[i].op = "DELETE",
                        node'[pending'[i].node] # NoDevice
                 PROVE  \E j \in Waiting' : j > i /\ pending'[j].op = "CREATE"
                                                  /\ pending'[j].node = pending'[i].node
      BY DEF Renewed
    <3>1. i \in Waiting /\ pending[i].op = "DELETE" /\ pending'[i] = pending[i]
      BY <2>1, <2>2
    <3>2. CASE pending[i].node = n
      BY <2>1, <2>2, <3>1, <3>2
    <3>3. CASE pending[i].node # n
      BY <1>1, <1>3, <2>1, <2>2, <3>1, <3>3 DEF Renewed
    <3> QED
      BY <3>2, <3>3
  <2>6. ASSUME d \in Remotes PROVE Superseded' /\ Newest'
    <3>1. latest' = d
      BY <1>5, <2>6 DEF Plug
    <3>2. Superseded'
      BY <1>3, <2>1, <2>2, <3>1 DEF Superseded
    <3> QED
      BY <2>3, <3>1, <3>2 DEF Newest, LiveLatest, News
  <2>7. ASSUME d \notin Remotes PROVE Superseded' /\ Newest'
    <3>1. latest' = latest /\ (LiveLatest' => LiveLatest) /\ latest # d
      BY <1>2, <1>3, <2>7, LoopAssumption DEF Plug, LiveLatest, RestOK
    <3>2. Superseded'
      <4> SUFFICES ASSUME LiveLatest, NEW i \in Waiting', pending'[i].op = "CREATE",
                          node'[pending'[i].node] \in Remotes \ {latest}
                   PROVE  \E j \in Waiting' : j > i /\ pending'[j].op = "CREATE"
                                                    /\ node'[pending'[j].node] = latest
        BY <3>1 DEF Superseded
      <4>1. i \in Waiting /\ pending'[i] = pending[i] /\ pending[i].node \in Nodes \ {n}
        BY <1>3, <2>1, <2>2, <2>7
      <4>2. PICK j \in Waiting : j > i /\ pending[j].op = "CREATE"
                                       /\ node[pending[j].node] = latest
        BY <1>1, <1>3, <4>1 DEF Superseded
      <4>3. pending[j].node \in Nodes \ {n}
        BY <1>3, <2>2, <4>2 DEF LiveLatest
      <4> QED
        BY <1>3, <2>1, <2>2, <4>2, <4>3
    <3>3. Newest'
      <4>1. LiveLatest => latest \in Devices
        BY <1>2, LoopAssumption DEF LiveLatest, RestOK
      <4> QED
        BY <1>1, <1>3, <2>4, <3>1, <4>1 DEF Newest, News
    <3> QED
      BY <3>2, <3>3
  <2>8. Superseded' /\ Newest'
    BY <2>6, <2>7
  <2>9. Found'
    <3> SUFFICES ASSUME ~overlap', NEW m \in Nodes, Connected(m)'
                 PROVE  (Served = node[m] \/ News(node[m]) \/ ToBeScanned(m))'
      BY DEF Found, News
    <3>1. CASE node'[m] = d
      BY <2>3, <3>1 DEF News
    <3>2. CASE node'[m] # d
      <4>1. node'[m] = node[m] /\ node[m] \in Devices /\ Connected(m)
        BY <1>3, <3>2, LoopAssumption DEF Connected
      <4>2. ~overlap
        BY DEF Plug
      <4>3. Served = node[m] \/ News(node[m]) \/ ToBeScanned(m)
        BY <1>1, <4>1, <4>2 DEF Found
      <4>4. News(node[m]) => News(node[m])'
        BY <2>4, <4>1 DEF News
      <4> QED
        BY <1>3, <4>1, <4>3, <4>4 DEF ToBeScanned
    <3> QED
      BY <3>1, <3>2
  <2>10. Placed'
    BY <1>1, <1>2, <1>3 DEF Placed, slot
  <2>11. Clean' /\ Starting'
    BY <1>1, <1>3, <1>5 DEF Clean, Starting, Watching, slot
  <2>12. Alone'
    BY <1>1, <1>3, LoopAssumption DEF Alone, Plug
  <2> QED
    BY <2>5, <2>8, <2>9, <2>10, <2>11, <2>12 DEF WInv, Rest, Order
<1> QED
  BY <1>4, <1>5

LEMMA RemoveKeeps ==
  ASSUME WInv, NInv', NEW n \in Nodes, RemoveNode(n)
  PROVE  WInv'
<1>1. /\ NInv /\ Rest /\ Order /\ Newest /\ Found
      /\ Clean /\ Starting /\ Placed /\ Alone /\ Renewed /\ Superseded
  BY DEF WInv, Rest, Order
<1>2. /\ RestOK /\ Len(pending) \in Nat
      /\ \A i \in Waiting : pending[i] \in Ops
      /\ fd # NoFd => Served # NoDevice /\ path \in Nodes
  BY <1>1, Basics, LoopAssumption
<1>3. /\ phase[node[n]] = "gone" /\ node'[n] = NoDevice
      /\ \A m \in Nodes \ {n} : node'[m] = node[m]
      /\ UNCHANGED <<pc, slot, client, batch, phase, latest, overlap>> /\ Served' = Served
  BY <1>2 DEF RemoveNode, RestOK, slot, Served, history
<1>4. Clean' /\ Alone'
  BY <1>1, <1>3 DEF Clean, Alone
<1>5. Placed'
  BY <1>1, <1>2, <1>3 DEF Placed, slot
<1>6. CASE ~Watching
  <2>1. pc = "start" /\ latest = NoDevice /\ pending' = <<>> /\ fd = NoFd
    BY <1>1, <1>6, Basics DEF Watching, Starting, Early, RemoveNode, Notice, pending
  <2>2. ~\E i : i \in Waiting'
    BY <2>1 DEF Waiting
  <2>3. Order' /\ Newest' /\ Found' /\ Starting'
    BY <1>3, <2>1, <2>2
       DEF Order, Renewed, Superseded, LiveLatest, Newest, Found, ToBeScanned, Starting
  <2> QED
    BY <1>4, <1>5, <2>3 DEF WInv, Rest
<1>7. CASE Watching
  <2>1. /\ Len(pending') = Len(pending) + 1
        /\ \A i \in Waiting : pending'[i] = pending[i]
        /\ pending'[Len(pending) + 1] = [op |-> "DELETE", node |-> n]
    BY <1>1, <1>7, Queued, Basics DEF RemoveNode
  <2>2. /\ Len(pending) + 1 \in Waiting'
        /\ \A i \in Waiting : i \in Waiting' /\ pending[i].node \in Nodes
        /\ \A i \in Waiting' : i \in Waiting \/ i = Len(pending) + 1
    BY <1>2, <2>1 DEF Waiting, Ops
  <2>3. ASSUME NEW e \in Devices, phase[e] = "live", News(e)
        PROVE  News(e)'
    BY <1>3, <2>1, <2>2, <2>3 DEF News
  <2>4. Renewed'
    <3> SUFFICES ASSUME NEW i \in Waiting', pending'[i].op = "DELETE",
                        node'[pending'[i].node] # NoDevice
                 PROVE  \E j \in Waiting' : j > i /\ pending'[j].op = "CREATE"
                                                  /\ pending'[j].node = pending'[i].node
      BY DEF Renewed
    <3>1. i \in Waiting /\ pending'[i] = pending[i] /\ pending[i].node \in Nodes \ {n}
      BY <1>3, <2>1, <2>2
    <3> QED
      BY <1>1, <1>3, <2>1, <2>2, <3>1 DEF Renewed
  <2>5. latest' = latest /\ LiveLatest' = LiveLatest
    BY <1>3 DEF LiveLatest
  <2>6. Superseded'
    <3> SUFFICES ASSUME LiveLatest, NEW i \in Waiting', pending'[i].op = "CREATE",
                        node'[pending'[i].node] \in Remotes \ {latest}
                 PROVE  \E j \in Waiting' : j > i /\ pending'[j].op = "CREATE"
                                                  /\ node'[pending'[j].node] = latest
      BY <2>5 DEF Superseded
    <3>1. i \in Waiting /\ pending'[i] = pending[i] /\ pending[i].node \in Nodes \ {n}
      BY <1>3, <2>1, <2>2, LoopAssumption
    <3>2. PICK j \in Waiting : j > i /\ pending[j].op = "CREATE"
                                     /\ node[pending[j].node] = latest
      BY <1>1, <1>3, <3>1 DEF Superseded
    <3>3. pending[j].node \in Nodes \ {n}
      BY <1>3, <2>2, <3>2 DEF LiveLatest
    <3> QED
      BY <1>3, <2>1, <2>2, <3>2, <3>3
  <2>7. Newest'
    <3>1. LiveLatest => latest \in Devices /\ phase[latest] = "live"
      BY <1>2, LoopAssumption DEF LiveLatest, RestOK
    <3> QED
      BY <1>1, <1>3, <2>3, <2>5, <3>1 DEF Newest, News
  <2>8. Found'
    <3> SUFFICES ASSUME ~overlap, NEW m \in Nodes, Connected(m)'
                 PROVE  (Served = node[m] \/ News(node[m]) \/ ToBeScanned(m))'
      BY <1>3 DEF Found, News
    <3>1. m # n /\ node'[m] = node[m] /\ Connected(m)
      BY <1>3, LoopAssumption DEF Connected
    <3>2. node[m] \in Devices /\ phase[node[m]] = "live"
      BY <3>1, LoopAssumption DEF Connected
    <3>3. Served = node[m] \/ News(node[m]) \/ ToBeScanned(m)
      BY <1>1, <3>1 DEF Found
    <3>4. News(node[m]) => News(node[m])'
      BY <2>3, <3>1, <3>2 DEF News
    <3>5. ToBeScanned(m) => ToBeScanned(m)'
      BY <1>3, <3>1 DEF ToBeScanned, RemoveNode
    <3> QED
      BY <1>3, <3>1, <3>3, <3>4, <3>5
  <2>9. Starting'
    BY <1>1, <1>3, <1>7 DEF Starting, Watching, slot
  <2> QED
    BY <1>4, <1>5, <2>4, <2>6, <2>7, <2>8, <2>9 DEF WInv, Rest, Order
<1> QED
  BY <1>6, <1>7

(* A connected remote just opened is the only one there can be to find.    *)
LEMMA OpenKeepsFound ==
  ASSUME NInv, Alone, NEW n \in Nodes, Connected(n), Served' = node[n],
         path' = n, UNCHANGED <<node, phase, overlap>>
  PROVE  Found' /\ Placed' /\ Alone'
<1>1. Alone'
  BY DEF Alone
<1>2. Placed'
  BY DEF Placed
<1>3. Found'
  <2> SUFFICES ASSUME ~overlap, NEW m \in Nodes, Connected(m)
               PROVE  Served' = node[m]
    BY DEF Found, Connected
  <2> QED
    BY DEF Alone, Connected
<1> QED
  BY <1>1, <1>2, <1>3

LEMMA ScanKeeps ==
  ASSUME WInv, NInv', NEW n \in Nodes, ScanNode(n)
  PROVE  WInv'
<1>1. /\ NInv /\ Rest /\ Order /\ Newest /\ Found
      /\ Clean /\ Starting /\ Placed /\ Alone /\ Renewed /\ Superseded
  BY DEF WInv, Rest, Order
<1>2. fd = NoFd /\ Served = NoDevice
  BY <1>1, Basics DEF Starting, ScanNode
<1>3. UNCHANGED <<node, phase, pending, latest, overlap>>
  BY DEF ScanNode, pending, history
<1>4. CASE Connected(n)
  <2>1. IsG20(n) /\ Clean' /\ path' = n /\ Served' = node[n]
    BY <1>1, <1>4, OpenServes DEF ScanNode
  <2>2. Found' /\ Placed' /\ Alone'
    BY <1>1, <1>3, <1>4, <2>1, OpenKeepsFound
  <2>3. Starting'
    BY <2>1 DEF ScanNode, Starting
  <2>4. Newest'
    BY <1>1, <1>2, <1>3 DEF Newest, LiveLatest, News, Waiting
  <2>5. Order'
    BY <1>1, <1>3 DEF Order, Renewed, Superseded, LiveLatest, Waiting
  <2> QED
    BY <2>1, <2>2, <2>3, <2>4, <2>5 DEF WInv, Rest
<1>5. CASE ~Connected(n)
  <2>1. ~IsG20(n) /\ UNCHANGED <<slot, client>>
    BY <1>5, OpenIgnores DEF ScanNode
  <2>2. Clean' /\ Served' = Served
    BY <1>1, <2>1 DEF Clean, Served, slot
  <2>3. \A m \in Nodes : Connected(m) /\ ToBeScanned(m) => ToBeScanned(m)'
    BY <1>5, <2>1 DEF ScanNode, ToBeScanned
  <2>4. Steady
    BY <1>2, <1>3, <2>1, <2>2, <2>3 DEF Steady, ScanNode, slot
  <2> QED
    BY <2>2, <2>4, SteadyKeeps
<1> QED
  BY <1>4, <1>5

(* One notice fewer: what was behind another notice is still there.        *)
LEMMA TakenKeeps ==
  ASSUME WInv, HandleNotice
  PROVE  /\ 1 \in Waiting /\ pending[1] = Head(batch) /\ pending[1] \in Ops
         /\ Order'
         /\ \A d : \A j \in Waiting :
              j > 1 /\ pending[j].op = "CREATE" /\ node[pending[j].node] = d => News(d)'
<1>1. NInv /\ Order /\ Len(pending) \in Nat /\ \A i \in Waiting : pending[i] \in Ops
  BY Basics DEF WInv
<1>2. /\ 1 \in Waiting /\ pending[1] = Head(batch)
      /\ Len(pending') = Len(pending) - 1
      /\ \A i \in Waiting' : pending'[i] = pending[i + 1]
  BY <1>1, Basics, Taken DEF HandleNotice
<1>3. UNCHANGED <<node, phase, latest>>
  BY DEF HandleNotice, history
<1>4. /\ \A i \in Waiting' : i + 1 \in Waiting
      /\ \A j \in Waiting : j > 1 =>
           j - 1 \in Waiting' /\ pending'[j - 1] = pending[j]
  BY <1>1, <1>2 DEF Waiting
<1>5. \A i \in Waiting' : i \in Nat
  BY <1>1, <1>2 DEF Waiting
<1>6. \A i \in Waiting', j \in Waiting : j > i + 1 =>
        j - 1 \in Waiting' /\ j - 1 > i /\ pending'[j - 1] = pending[j]
  BY <1>1, <1>2 DEF Waiting
<1>7. Renewed'
  <2> SUFFICES ASSUME NEW i \in Waiting', pending'[i].op = "DELETE",
                      node[pending'[i].node] # NoDevice
               PROVE  \E j \in Waiting' : j > i /\ pending'[j].op = "CREATE"
                                                /\ pending'[j].node = pending'[i].node
    BY <1>3 DEF Renewed
  <2>1. i + 1 \in Waiting /\ pending'[i] = pending[i + 1]
    BY <1>2, <1>4
  <2>2. PICK j \in Waiting : j > i + 1 /\ pending[j].op = "CREATE"
                                       /\ pending[j].node = pending[i + 1].node
    BY <1>1, <2>1 DEF Order, Renewed
  <2> QED
    BY <1>6, <2>1, <2>2
<1>8. Superseded'
  <2> SUFFICES ASSUME LiveLatest, NEW i \in Waiting', pending'[i].op = "CREATE",
                      node[pending'[i].node] \in Remotes \ {latest}
               PROVE  \E j \in Waiting' : j > i /\ pending'[j].op = "CREATE"
                                                /\ node[pending'[j].node] = latest
    BY <1>3 DEF Superseded, LiveLatest
  <2>1. i + 1 \in Waiting /\ pending'[i] = pending[i + 1]
    BY <1>2, <1>4
  <2>2. PICK j \in Waiting : j > i + 1 /\ pending[j].op = "CREATE"
                                       /\ node[pending[j].node] = latest
    BY <1>1, <2>1 DEF Order, Superseded
  <2> QED
    BY <1>6, <2>1, <2>2
<1>9. \A d : \A j \in Waiting :
        j > 1 /\ pending[j].op = "CREATE" /\ node[pending[j].node] = d => News(d)'
  BY <1>3, <1>4 DEF News
<1> QED
  BY <1>1, <1>2, <1>7, <1>8, <1>9 DEF Order

(* A notice that changes nothing was no news; one that opens another       *)
(* remote, or closes the slot, has the news it takes away behind it.       *)
LEMMA HandleKeeps ==
  ASSUME WInv, NInv', HandleNotice
  PROVE  WInv'
<1>1. /\ NInv /\ Rest /\ Newest /\ Found
      /\ Clean /\ Starting /\ Placed /\ Alone /\ Renewed /\ Superseded
  BY DEF WInv, Rest, Order
<1>2. /\ 1 \in Waiting /\ pending[1] = Head(batch) /\ pending[1] \in Ops
      /\ Order'
      /\ \A d : \A j \in Waiting :
           j > 1 /\ pending[j].op = "CREATE" /\ node[pending[j].node] = d => News(d)'
  BY TakenKeeps
<1>3. UNCHANGED <<node, phase, latest, overlap, pc>> /\ pc = "handle"
  BY <1>1, Basics DEF HandleNotice, RestOK, history
<1>4. Starting'
  BY <1>3 DEF Starting
<1>5. \A m \in Nodes : ~ToBeScanned(m)
  BY <1>3 DEF ToBeScanned
<1> DEFINE n == pending[1].node
<1>6. n \in Nodes /\ pending[1].op \in {"CREATE", "DELETE"}
  BY <1>2 DEF Ops
<1>7. \A j \in Waiting : j > 1 \/ j = 1
  BY DEF Waiting
<1> HIDE DEF n
<1>8. ASSUME pending[1].op = "CREATE", Connected(n)
      PROVE  WInv'
  <2>1. Clean' /\ path' = n /\ Served' = node[n]
    BY <1>1, <1>2, <1>6, <1>8, OpenServes DEF HandleNotice, n
  <2>2. Found' /\ Placed' /\ Alone'
    BY <1>1, <1>3, <1>6, <1>8, <2>1, OpenKeepsFound
  <2>3. Newest'
    <3> SUFFICES ASSUME LiveLatest, node[n] # latest
                 PROVE  News(latest)'
      BY <1>3, <2>1 DEF Newest, LiveLatest, News
    <3>1. PICK j \in Waiting : j > 1 /\ pending[j].op = "CREATE"
                                     /\ node[pending[j].node] = latest
      BY <1>1, <1>2, <1>8 DEF Superseded, Connected, n
    <3>2. ASSUME NEW d, d = latest PROVE News(d)'
      BY <1>2, <3>1, <3>2
    <3> QED
      BY <1>3, <3>2 DEF News
  <2> QED
    BY <1>2, <1>4, <2>1, <2>2, <2>3 DEF WInv, Rest
<1>9. ASSUME ~(pending[1].op = "CREATE" /\ Connected(n))
      PROVE  WInv'
  (* What is news of a live remote is not this notice.                     *)
  <2>1. ASSUME NEW d \in Remotes, phase[d] = "live", News(d)
        PROVE  News(d)'
    <3>1. PICK j \in Waiting : pending[j].op = "CREATE" /\ node[pending[j].node] = d
      BY <2>1 DEF News
    <3>2. j # 1
      BY <1>9, <2>1, <3>1 DEF Connected, n
    <3> QED
      BY <1>2, <1>7, <3>1, <3>2
  <2>2. \/ UNCHANGED <<slot, client>>
        \/ pending[1].op = "DELETE" /\ path = n /\ close_g20_device
    BY <1>2, <1>6, <1>9, OpenIgnores DEF HandleNotice, n
  (* A live remote that is served goes on, or its news is behind.          *)
  <2>3. ASSUME NEW d \in Remotes, phase[d] = "live", Served = d
        PROVE  Served' = d \/ News(d)'
    <3>1. CASE UNCHANGED <<slot, client>>
      BY <2>3, <3>1 DEF Served, slot
    <3>2. CASE pending[1].op = "DELETE" /\ path = n
      <4>1. fd # NoFd /\ d # NoDevice
        BY <1>1, <2>3, Basics, LoopAssumption
      <4>2. node[n] = d
        BY <1>1, <2>3, <3>2, <4>1 DEF Placed
      <4>3. PICK j \in Waiting : j > 1 /\ pending[j].op = "CREATE" /\ pending[j].node = n
        BY <1>1, <1>2, <3>2, <4>1, <4>2 DEF Renewed, n
      <4> QED
        BY <1>2, <4>2, <4>3
    <3> QED
      BY <2>2, <3>1, <3>2
  <2>4. Newest'
    <3> SUFFICES ASSUME LiveLatest
                 PROVE  (Served = latest \/ News(latest))'
      BY <1>3 DEF Newest, LiveLatest
    <3>1. latest \in Remotes /\ phase[latest] = "live"
      BY <1>1, Basics DEF RestOK, LiveLatest
    <3>2. Served = latest \/ News(latest)
      BY <1>1 DEF Newest
    <3>3. PICK d \in Remotes : d = latest
      BY <3>1
    <3>4. Served' = d \/ News(d)'
      BY <2>1, <2>3, <3>1, <3>2, <3>3 DEF News
    <3> QED
      BY <1>3, <3>3, <3>4 DEF News
  <2>5. Found'
    <3> SUFFICES ASSUME ~overlap, NEW m \in Nodes, Connected(m)
                 PROVE  (Served = node[m] \/ News(node[m]))'
      BY <1>3 DEF Found, Connected
    <3>1. Served = node[m] \/ News(node[m])
      BY <1>1, <1>5 DEF Found
    <3>2. PICK d \in Remotes : d = node[m]
      BY DEF Connected
    <3>3. Served' = d \/ News(d)'
      BY <2>1, <2>3, <3>1, <3>2 DEF News, Connected
    <3> QED
      BY <1>3, <3>2, <3>3 DEF News
  <2>6. Placed' /\ Alone' /\ Clean'
    <3>1. Alone'
      BY <1>1, <1>3 DEF Alone
    <3>2. CASE UNCHANGED <<slot, client>>
      BY <1>1, <1>3, <3>1, <3>2 DEF Placed, Clean, Served, slot
    <3>3. CASE close_g20_device
      BY <1>1, <3>1, <3>3, Basics DEF close_g20_device, Placed, Clean, SlotOK
    <3> QED
      BY <2>2, <3>2, <3>3
  <2> QED
    BY <1>2, <1>4, <2>4, <2>5, <2>6 DEF WInv, Rest
<1> QED
  BY <1>8, <1>9

-----------------------------------------------------------------------------
LEMMA WInvStep == WInv /\ [Next]_vars => WInv'
<1> SUFFICES ASSUME WInv, [Next]_vars
             PROVE  WInv'
  OBVIOUS
<1>1. NInv'
  BY NInvStep DEF WInv
<1>2. ASSUME NEW d \in Devices, NEW n \in Nodes, NEW k \in Keys \cup {NoKey},
             Plug(d, n, k)
      PROVE  WInv'
  BY <1>1, <1>2, PlugKeeps
<1>3. ASSUME NEW n \in Nodes, RemoveNode(n)
      PROVE  WInv'
  BY <1>1, <1>3, RemoveKeeps
<1>4. ASSUME NEW n \in Nodes, ScanNode(n)
      PROVE  WInv'
  BY <1>1, <1>4, ScanKeeps
<1>5. CASE HandleNotice
  BY <1>1, <1>5, HandleKeeps
<1>6. ASSUME \/ \E d \in Remotes, k \in Keys, t \in Times : Push(d, k, t)
             \/ \E d \in Remotes, t \in Times : Release(d, t)
             \/ \E d \in Devices, t \in Times : Leave(d, t)
             \/ \E d \in Devices : HangUp(d)
             \/ BinderCommand \/ AddWatch \/ OpenDir \/ ScanEnd \/ Poll
             \/ ReadNotify \/ HandleBinder \/ CheckSlot \/ ReadEvent \/ ReadFails
             \/ UNCHANGED vars
      PROVE  WInv'
  BY <1>1, <1>6, QuietSteady, SteadyKeeps
<1> QED
  BY <1>2, <1>3, <1>4, <1>5, <1>6 DEF Next, Outside, Daemon

(* "The latest connected one wins", as far as safety goes: while the       *)
(* remote that connected last is there, the daemon serves it or has the    *)
(* notice of its arrival before it, for any number of remotes and nodes    *)
(* and however the notices are cut into batches.                           *)
THEOREM LatestRemoteWins == Spec => []LatestWins
<1>1. WInv => LatestWins
  <2> SUFFICES ASSUME WInv, latest # NoDevice, phase[latest] = "live", Served # latest
               PROVE  \E i \in DOMAIN pending :
                        pending[i].op = "CREATE" /\ node[pending[i].node] = latest
    BY DEF LatestWins
  <2>1. News(latest)
    BY DEF WInv, Newest, LiveLatest
  <2>2. DOMAIN pending = Waiting
    BY Basics, LenProperties DEF WInv, Waiting
  <2> QED
    BY <2>1, <2>2 DEF News
<1> QED
  BY <1>1, WInvInit, WInvStep, PTL DEF Spec

(* The watch comes before the scan, so no remote falls between them: with  *)
(* nothing left to handle, a remote that never shared the daemon with      *)
(* another is served whenever it is connected.                             *)
THEOREM RemoteIsFound == Spec => []RemoteFound
<1>1. WInv => RemoteFound
  <2> SUFFICES ASSUME WInv, pc = "poll", inq = <<>>, ~overlap,
                      NEW n \in Nodes, node[n] \in Remotes, phase[node[n]] = "live"
               PROVE  Served = node[n]
    BY DEF RemoteFound
  <2>1. batch = <<>>
    BY Basics DEF WInv, RestOK
  <2>2. pending = <<>>
    BY <2>1 DEF pending
  <2>3. ~News(node[n])
    BY <2>2 DEF News, Waiting
  <2>4. ~ToBeScanned(n)
    BY DEF ToBeScanned
  <2> QED
    BY <2>3, <2>4 DEF WInv, Found, Connected
<1> QED
  BY <1>1, WInvInit, WInvStep, PTL DEF Spec

-----------------------------------------------------------------------------
(* When a push acts (PushActsOnlyAfterSwap): whatever devices come and go, *)
(* the decoder may mistake a push for a release only while it tracks a     *)
(* press begun on a descriptor that was replaced before the loop could see *)
(* an empty slot.                                                          *)
(*                                                                         *)
(* A device has one button down at a time, so in the stream of one open    *)
(* file pushes and releases alternate; a press that was not carried over   *)
(* is the push that was read last from this very stream, and the next key  *)
(* event there is its release.                                             *)

(* What the daemon has still to read from the remote it has open.          *)
stream == client[fd].events

IsPush(e)  == e.type = "KEY" /\ e.value = 1
IsLift(e)  == e.type = "KEY" /\ e.value = 0

(* Place 0 stands for the push being timed, if it came from this stream.   *)
Pushed(i) == IF i = 0 THEN press.usec # 0 /\ ~carried ELSE IsPush(stream[i])
Lifted(i) == IsLift(stream[i])

Alternate ==
  fd # NoFd =>
    \A i, j \in 0 .. Len(stream) : i < j /\ Pushed(i) /\ Pushed(j) =>
      \E m \in 1 .. Len(stream) : i < m /\ m < j /\ Lifted(m)
Closing ==
  fd # NoFd /\ button[Served] = NoKey =>
    \A i \in 0 .. Len(stream) : Pushed(i) =>
      \E m \in 1 .. Len(stream) : i < m /\ Lifted(m)

(* Buttons are held on connected devices only.                             *)
Held == \A d \in Devices : button[d] # NoKey => phase[d] = "live"

(* Nothing is tracked before the loop, and with no remote open only what   *)
(* was begun on one that is closed.                                        *)
Apart ==
  /\ pc \in {"start", "opendir", "scan"} => press = Idle
  /\ fd = NoFd => press = Idle \/ carried

Turns == Alternate /\ Closing
PInv  == NInv /\ Held /\ Apart /\ Turns

-----------------------------------------------------------------------------
(* What NInv says of the open remote and of the decoder.                   *)
LEMMA OpenRemote ==
  ASSUME NInv
  PROVE  /\ SlotOK /\ RestOK /\ DescriptorOwned
         /\ carried \in BOOLEAN /\ press \in Press
         /\ press.keycode = NoKey => press.usec = 0
         /\ button \in [Devices -> Keys \cup {NoKey}]
         /\ fd # NoFd => /\ fd \in Fds /\ client[fd].dev = Served
                         /\ Served \in Devices /\ Served # NoDevice
                         /\ stream \in Seq(Events) /\ Len(stream) \in Nat
                         /\ \A i \in 1 .. Len(stream) : stream[i] \in Events
<1>1. SlotOK /\ RestOK /\ DescriptorOwned
  BY TypeParts DEF NInv, IInv
<1>2. ASSUME fd # NoFd
      PROVE  /\ fd \in Fds /\ client[fd].dev = Served
             /\ Served \in Devices /\ Served # NoDevice
             /\ stream \in Seq(Events)
  BY <1>1, <1>2, LoopAssumption DEF SlotOK, DescriptorOwned, Served, Open, stream
<1>3. fd # NoFd => Len(stream) \in Nat /\ \A i \in 1 .. Len(stream) : stream[i] \in Events
  BY <1>2, LenProperties, ElementOfSeq
<1> QED
  BY <1>1, <1>2, <1>3 DEF RestOK

(* The order looks at nothing but these.                                   *)
LEMMA TurnsKept ==
  ASSUME Turns, UNCHANGED <<fd, press, carried>>,
         fd # NoFd => /\ client'[fd] = client[fd]
                      /\ button'[Served] = NoKey => button[Served] = NoKey
  PROVE  Turns'
<1> SUFFICES ASSUME fd # NoFd
             PROVE  Turns'
  BY DEF Turns, Alternate, Closing
<1>1. stream' = stream /\ Served' = Served
  BY DEF stream, Served
<1>2. \A i : (Pushed(i)' <=> Pushed(i)) /\ (Lifted(i)' <=> Lifted(i))
  BY <1>1 DEF Pushed, Lifted
<1> QED
  BY <1>1, <1>2 DEF Turns, Alternate, Closing

(* A stream that has just been opened holds nothing, and nothing is timed  *)
(* that it would have to end.                                              *)
LEMMA TurnsFresh ==
  ASSUME fd' = NoFd \/ (client'[fd'].events = <<>> /\ (press'.usec = 0 \/ carried'))
  PROVE  Turns'
<1> SUFFICES ASSUME client'[fd'].events = <<>>, press'.usec = 0 \/ carried'
             PROVE  Turns'
  BY DEF Turns, Alternate, Closing
<1>1. Len(stream') = 0
  BY EmptySeq DEF stream
<1>2. ~Pushed(0)'
  BY DEF Pushed
<1> QED
  BY <1>1, <1>2 DEF Turns, Alternate, Closing

-----------------------------------------------------------------------------
(* The hand's side: a report joins the stream.                             *)
LEMMA JoinKeeps ==
  ASSUME NInv, Turns, fd # NoFd, NEW s \in Seq(Events),
         UNCHANGED <<fd, press, carried>>, Served' = Served, stream' = stream \o s,
         \A i \in 1 .. Len(s) : IsPush(s[i]) =>
           /\ button[Served] = NoKey /\ button'[Served] # NoKey
           /\ \A j \in 1 .. Len(s) : IsPush(s[j]) => i = j,
         button'[Served] = NoKey => \E i \in 1 .. Len(s) : IsLift(s[i])
  PROVE  Turns'
<1> DEFINE n == Len(stream)
           c == Len(s)
<1>1. /\ n \in Nat /\ c \in Nat /\ Len(stream') = n + c
      /\ \A i \in 1 .. n : stream'[i] = stream[i]
      /\ \A i \in 1 .. c : stream'[n + i] = s[i]
  BY OpenRemote, ConcatProperties, LenProperties
<1> HIDE DEF n, c
<1>2. ASSUME NEW i \in 0 .. n + c, Pushed(i)'
      PROVE  (i \in 0 .. n /\ Pushed(i)) \/ (i - n \in 1 .. c /\ IsPush(s[i - n]))
  <2>1. CASE i = 0
    BY <1>1, <1>2, <2>1 DEF Pushed
  <2>2. CASE i \in 1 .. n
    BY <1>1, <1>2, <2>2 DEF Pushed
  <2>3. CASE i \notin 0 .. n
    <3> DEFINE h == i - n
    <3>1. h \in 1 .. c /\ n + h = i /\ i # 0
      BY <1>1, <2>3
    <3>2. stream'[i] = s[h]
      BY <1>1, <3>1
    <3> QED
      BY <1>2, <3>1, <3>2 DEF Pushed
  <2> QED
    BY <2>1, <2>2, <2>3
<1>3. ASSUME NEW m \in 1 .. n, Lifted(m)
      PROVE  m \in 1 .. n + c /\ Lifted(m)'
  BY <1>1, <1>3 DEF Lifted
<1>4. ASSUME fd' # NoFd
      PROVE  Alternate'
  <2> SUFFICES ASSUME NEW i \in 0 .. n + c, NEW j \in 0 .. n + c,
                      i < j, Pushed(i)', Pushed(j)'
               PROVE  \E m \in 1 .. n + c : i < m /\ m < j /\ Lifted(m)'
    BY <1>1 DEF Alternate
  <2>1. CASE j \in 0 .. n /\ Pushed(j)
    <3>1. i \in 0 .. n /\ Pushed(i)
      BY <1>1, <1>2, <2>1
    <3>2. PICK m \in 1 .. n : i < m /\ m < j /\ Lifted(m)
      BY <2>1, <3>1 DEF Turns, Alternate, n
    <3> QED
      BY <1>3, <3>2
  <2>2. CASE j - n \in 1 .. c /\ IsPush(s[j - n])
    <3>1. button[Served] = NoKey /\ \A h \in 1 .. c : IsPush(s[h]) => j - n = h
      BY <2>2 DEF c
    <3>2. i \in 0 .. n /\ Pushed(i)
      <4>1. ~(i - n \in 1 .. c /\ IsPush(s[i - n]))
        BY <1>1, <3>1
      <4> QED
        BY <1>2, <4>1
    <3>3. PICK m \in 1 .. n : i < m /\ Lifted(m)
      BY <3>1, <3>2 DEF Turns, Closing, n
    <3>4. m < j
      BY <1>1, <2>2
    <3> QED
      BY <1>3, <3>3, <3>4
  <2> QED
    BY <1>2, <2>1, <2>2
<1>5. ASSUME button'[Served] = NoKey
      PROVE  Closing'
  <2> SUFFICES ASSUME NEW i \in 0 .. n + c, Pushed(i)'
               PROVE  \E m \in 1 .. n + c : i < m /\ Lifted(m)'
    BY <1>1 DEF Closing
  <2>1. i \in 0 .. n
    BY <1>2, <1>5 DEF c
  <2>2. PICK h \in 1 .. c : IsLift(s[h])
    BY <1>5 DEF c
  <2>3. PICK m \in 1 .. n + c : m = n + h /\ i < m
    <3>1. n + h \in 1 .. n + c /\ i < n + h
      BY <1>1, <2>1
    <3> QED
      BY <3>1
  <2>4. stream'[m] = s[h]
    BY <1>1, <2>3
  <2>5. Lifted(m)'
    BY <2>2, <2>4 DEF Lifted
  <2> QED
    BY <2>3, <2>5
<1> QED
  BY <1>4, <1>5 DEF Turns, Alternate, Closing

(* What the daemon has open when a report is delivered.                    *)
LEMMA Delivered ==
  ASSUME NInv, fd # NoFd, NEW d, NEW s, Deliver(d, s), UNCHANGED fd
  PROVE  /\ Served' = Served
         /\ client'[fd] = client[fd] \/ (d = Served /\ stream' = stream \o s)
<1>1. /\ fd \in Fds /\ client[fd].dev = Served /\ client \in [Fds -> Open]
  BY OpenRemote DEF SlotOK
<1>2. client'[fd] = IF client[fd].dev = d THEN [client[fd] EXCEPT !.events = @ \o s]
                                          ELSE client[fd]
  BY <1>1 DEF Deliver
<1>3. client[fd] \in Open
  BY <1>1
<1>4. client'[fd].dev = client[fd].dev
  BY <1>2, <1>3 DEF Open
<1>5. client[fd].dev = d => client'[fd].events = client[fd].events \o s
  BY <1>2, <1>3 DEF Open
<1> QED
  BY <1>1, <1>2, <1>4, <1>5 DEF Served, stream

(* A button of device d is reported down when it was up, or up.            *)
LEMMA ReportKeeps ==
  ASSUME NInv, Turns, NEW d \in Devices, NEW s \in Seq(Events), Deliver(d, s),
         UNCHANGED <<fd, press, carried>>,
         \A b \in Devices \ {d} : button'[b] = button[b],
         \A i \in 1 .. Len(s) : IsPush(s[i]) =>
           /\ button[d] = NoKey /\ button'[d] # NoKey
           /\ \A j \in 1 .. Len(s) : IsPush(s[j]) => i = j,
         button'[d] = NoKey => \E i \in 1 .. Len(s) : IsLift(s[i])
  PROVE  Turns'
<1>1. CASE fd = NoFd
  BY <1>1 DEF Turns, Alternate, Closing
<1>2. CASE fd # NoFd /\ d = Served
  <2>1. Served' = Served /\ (client'[fd] = client[fd] \/ stream' = stream \o s)
    BY <1>2, Delivered
  <2>2. stream' = stream \o s
    <3>1. client'[fd] = [client[fd] EXCEPT !.events = @ \o s] /\ client[fd] \in Open
      BY <1>2, OpenRemote DEF Deliver, SlotOK
    <3> QED
      BY <3>1 DEF stream, Open
  <2> QED
    BY <1>2, <2>1, <2>2, JoinKeeps
<1>3. CASE fd # NoFd /\ d # Served
  <2>1. client'[fd] = client[fd] /\ Served \in Devices
    BY <1>3, OpenRemote, Delivered
  <2> QED
    BY <1>3, <2>1, TurnsKept
<1> QED
  BY <1>1, <1>2, <1>3

LEMMA HandKeeps ==
  ASSUME NInv, Held, Turns,
         \/ \E d \in Remotes, k \in Keys, t \in Times : Push(d, k, t)
         \/ \E d \in Remotes, t \in Times : Release(d, t)
         \/ \E d \in Devices, t \in Times : Leave(d, t)
  PROVE  Held' /\ Turns'
<1>1. /\ button \in [Devices -> Keys \cup {NoKey}] /\ Remotes \subseteq Devices
      /\ NoKey \notin Keys /\ phase \in [Devices -> {"new", "live", "leaving", "gone"}]
  BY OpenRemote, LoopAssumption, KeysAssumption DEF RestOK
<1>2. ASSUME NEW d \in Remotes, NEW k \in Keys, NEW t \in Times, Push(d, k, t)
      PROVE  Held' /\ Turns'
  <2> DEFINE s == <<Msc(k), Key(1, t), Syn>>
  <2>1. s \in Seq(Events) /\ Len(s) = 3
    BY DEF Events, Msc, Key, Syn
  <2>2. \A i \in 1 .. Len(s) : IsPush(s[i]) => i = 2
    BY <2>1 DEF IsPush, Msc, Key, Syn
  <2>3. /\ Deliver(d, s) /\ UNCHANGED <<fd, press, carried, phase>>
        /\ button[d] = NoKey /\ phase[d] = "live"
        /\ button' = [button EXCEPT ![d] = k]
    BY <1>2 DEF Push, slot, decoder
  <2> HIDE DEF s
  <2>4. button'[d] # NoKey /\ \A b \in Devices \ {d} : button'[b] = button[b]
    BY <1>1, <2>3
  <2>5. Turns'
    BY <1>1, <2>1, <2>2, <2>3, <2>4, ReportKeeps
  <2> QED
    BY <2>3, <2>4, <2>5 DEF Held
<1>3. ASSUME NEW d \in Remotes, NEW t \in Times, Release(d, t)
      PROVE  Held' /\ Turns'
  <2> PICK k \in Keys : k = button[d]
    BY <1>1, <1>3 DEF Release
  <2> DEFINE s == <<Msc(k), Key(0, t), Syn>>
  <2>1. /\ Deliver(d, s) /\ UNCHANGED <<fd, press, carried, phase>>
        /\ button' = [button EXCEPT ![d] = NoKey]
    BY <1>3 DEF Release, slot, decoder
  <2>2. s \in Seq(Events) /\ Len(s) = 3
    BY DEF Events, Msc, Key, Syn
  <2>3. IsLift(s[2]) /\ \A i \in 1 .. Len(s) : ~IsPush(s[i])
    BY <2>2 DEF IsPush, IsLift, Msc, Key, Syn
  <2> HIDE DEF s
  <2>4. button'[d] = NoKey /\ \A b \in Devices \ {d} : button'[b] = button[b]
    BY <1>1, <2>1
  <2>5. Turns'
    BY <1>1, <2>1, <2>2, <2>3, <2>4, ReportKeeps
  <2> QED
    BY <2>1, <2>4, <2>5 DEF Held
<1>4. ASSUME NEW d \in Devices, NEW t \in Times, Leave(d, t)
      PROVE  Held' /\ Turns'
  <2> DEFINE s == <<Key(0, t), Syn>>
  <2>1. /\ UNCHANGED <<fd, press, carried>>
        /\ button' = [button EXCEPT ![d] = NoKey]
        /\ phase' = [phase EXCEPT ![d] = "leaving"]
        /\ button[d] = NoKey => UNCHANGED client
        /\ button[d] # NoKey => Deliver(d, s)
    BY <1>4 DEF Leave, slot, decoder
  <2>2. s \in Seq(Events) /\ Len(s) = 2
    BY DEF Events, Key, Syn
  <2>3. IsLift(s[1]) /\ \A i \in 1 .. Len(s) : ~IsPush(s[i])
    BY <2>2 DEF IsPush, IsLift, Key, Syn
  <2> HIDE DEF s
  <2>4. button'[d] = NoKey /\ \A b \in Devices \ {d} : button'[b] = button[b]
    BY <1>1, <2>1
  <2>5. Held'
    BY <1>1, <2>1, <2>4 DEF Held
  <2>6. CASE button[d] = NoKey
    <3>1. fd # NoFd => Served \in Devices
      BY OpenRemote
    <3>2. fd # NoFd => button'[Served] = button[Served]
      BY <2>4, <2>6, <3>1
    <3> QED
      BY <2>1, <2>5, <2>6, <3>2, TurnsKept
  <2>7. CASE button[d] # NoKey
    BY <2>1, <2>2, <2>3, <2>4, <2>5, <2>7, ReportKeeps
  <2> QED
    BY <2>6, <2>7
<1> QED
  BY <1>2, <1>3, <1>4

-----------------------------------------------------------------------------
(* The daemon's side.                                                      *)

(* The remote a node belongs to is opened on a descriptor of its own, with *)
(* nothing to read yet; or the slot stays as it is.                        *)
LEMMA OpenFresh ==
  ASSUME NInv, NEW n \in Nodes, open_g20_device(n)
  PROVE  \/ fd' # NoFd /\ fd' # fd /\ client'[fd'].events = <<>>
         \/ UNCHANGED <<fd, client>>
<1>1. CASE IsG20(n)
  <2>1. PICK f \in Free :
          /\ fd' = f
          /\ client' = [g \in Fds |->
               IF g = f THEN [dev |-> node[n], events |-> <<>>]
               ELSE IF g = fd THEN Closed
               ELSE client[g]]
    BY <1>1 DEF open_g20_device
  <2>2. f \in Fds /\ f # NoFd /\ client[f].dev = NoDevice
    BY LoopAssumption DEF Free, Closed
  <2>3. f # fd
    BY <2>2, OpenRemote
  <2> QED
    BY <2>1, <2>2, <2>3
<1>2. CASE ~IsG20(n)
  BY <1>2 DEF open_g20_device, slot
<1> QED
  BY <1>1, <1>2

LEMMA ScanTurns ==
  ASSUME PInv, NEW n \in Nodes, ScanNode(n)
  PROVE  Apart' /\ Turns'
<1>1. /\ pc = "scan" /\ open_g20_device(n) /\ press = Idle
      /\ UNCHANGED <<press, carried, button>>
  BY DEF PInv, Apart, ScanNode, decoder
<1>2. Apart'
  BY <1>1 DEF Apart
<1>3. CASE fd' # NoFd /\ fd' # fd /\ client'[fd'].events = <<>>
  BY <1>1, <1>2, <1>3, TurnsFresh DEF Idle
<1>4. CASE UNCHANGED <<fd, client>>
  BY <1>1, <1>2, <1>4, TurnsKept DEF PInv
<1> QED
  BY <1>1, <1>3, <1>4, OpenFresh DEF PInv

LEMMA HandleTurns ==
  ASSUME PInv, HandleNotice
  PROVE  Apart' /\ Turns'
<1>1. /\ pc = "handle" /\ batch # <<>> /\ UNCHANGED <<pc, press, button>>
      /\ carried' = (carried \/ (fd # NoFd /\ fd' # fd /\ press # Idle))
      /\ press = Idle => press.usec = 0
      /\ fd = NoFd => press = Idle \/ carried
      /\ carried \in BOOLEAN
  BY OpenRemote DEF PInv, Apart, HandleNotice, Idle
<1>2. Head(batch).node \in Nodes
  <2>1. batch \in Seq(Ops)
    BY OpenRemote DEF PInv, RestOK
  <2>2. Head(batch) \in Ops
    BY <1>1, <2>1, HeadTailProperties
  <2> QED
    BY <2>2 DEF Ops
<1>3. CASE fd' # fd /\ (fd' = NoFd \/ client'[fd'].events = <<>>)
  <2>1. press = Idle \/ carried'
    BY <1>1, <1>3
  <2> QED
    BY <1>1, <1>3, <2>1, TurnsFresh DEF Apart
<1>4. CASE UNCHANGED <<fd, client>>
  <2>1. UNCHANGED carried
    BY <1>1, <1>4
  <2>2. Apart'
    BY <1>1, <1>4, <2>1 DEF Apart
  <2> QED
    BY <1>1, <1>4, <2>1, <2>2, TurnsKept DEF PInv
<1>5. close_g20_device => fd' = NoFd /\ (fd = NoFd => client' = client)
  BY DEF close_g20_device
<1> QED
  BY <1>2, <1>3, <1>4, <1>5, OpenFresh DEF PInv, HandleNotice, slot

(* A press being timed after an event was read was timed before, or the    *)
(* event was its push.                                                     *)
LEMMA ReadPress ==
  ASSUME NInv, pc = "read", ReadEvent
  PROVE  Pushed(0)' => (Pushed(0) /\ Head(stream).type # "KEY") \/ IsPush(Head(stream))
<1> DEFINE e == Head(stream)
<1>1. /\ press' = Decode(press, e)
      /\ carried' = (carried /\ press'.keycode # NoKey)
      /\ stream # <<>>
  BY DEF ReadEvent, Readable, stream
<1>2. nfds = 3 /\ fd # NoFd /\ press \in Press /\ (press.keycode = NoKey => press.usec = 0)
  BY OpenRemote DEF RestOK, DescriptorOwned
<1>3. e \in Events
  BY <1>1, <1>2, OpenRemote, HeadTailProperties, EmptySeq
<1> HIDE DEF e
<1> SUFFICES ASSUME press'.usec # 0, ~carried'
             PROVE  (Pushed(0) /\ e.type # "KEY") \/ IsPush(e)
  BY DEF Pushed, e
<1>4. CASE e.type = "MSC"
  <2>1. press'.usec = press.usec /\ (press'.keycode = NoKey => press' = press)
    BY <1>1, <1>2, <1>4 DEF Decode, OnMsc, Press, Idle
  <2>2. ~carried
    BY <1>1, <1>2, <2>1
  <2> QED
    BY <1>4, <2>1, <2>2 DEF Pushed
<1>5. CASE e.type = "KEY"
  <2>1. e.value \in {0, 1}
    BY <1>3, <1>5 DEF Events, Syn
  <2>2. press' = OnKey(press, e)
    BY <1>1, <1>5 DEF Decode
  <2>3. StartsTiming(press, e)
    BY <1>2, <1>5, <2>1, <2>2 DEF OnKey, Dispatches, StartsTiming, Idle
  <2> QED
    BY <1>5, <2>3 DEF StartsTiming, IsPush
<1>6. CASE e.type \notin {"MSC", "KEY"}
  BY <1>1, <1>2, <1>6 DEF Decode, Pushed
<1> QED
  BY <1>4, <1>5, <1>6

LEMMA ReadKeeps ==
  ASSUME PInv, ReadEvent
  PROVE  Apart' /\ Turns'
<1> DEFINE n == Len(stream)
<1>1. /\ pc = "read" /\ pc' = "poll" /\ stream # <<>> /\ UNCHANGED <<fd, button>>
      /\ client' = [client EXCEPT ![fd].events = Tail(@)]
  BY DEF ReadEvent, Readable, stream, slot
<1>2. /\ fd \in Fds /\ fd # NoFd /\ client \in [Fds -> Open]
      /\ stream \in Seq(Events)
  BY <1>1, OpenRemote DEF PInv, RestOK, SlotOK, DescriptorOwned
<1>3. stream' = Tail(stream) /\ Served' = Served
  <2>1. client[fd] \in Open
    BY <1>2
  <2>2. client'[fd] = [client[fd] EXCEPT !.events = Tail(@)]
    BY <1>1, <1>2
  <2> QED
    BY <1>1, <1>2, <2>1, <2>2 DEF stream, Served, Open
<1>4. /\ n \in Nat \ {0} /\ Len(stream') = n - 1 /\ Head(stream) = stream[1]
      /\ \A i \in 1 .. n - 1 : stream'[i] = stream[i + 1]
  BY <1>1, <1>2, <1>3, HeadTailProperties, EmptySeq, LenProperties
<1>5. Pushed(0)' => (Pushed(0) /\ stream[1].type # "KEY") \/ Pushed(1)
  BY <1>1, <1>4, ReadPress DEF PInv, Pushed
<1> HIDE DEF n
<1>6. Apart'
  BY <1>1, <1>2 DEF Apart
<1>7. \A i \in 1 .. n - 1 : (Pushed(i)' => Pushed(i + 1)) /\ (Lifted(i + 1) => Lifted(i)')
  BY <1>4 DEF Pushed, Lifted
(* The place in the stream of what is now one place further ahead.         *)
<1>8. ASSUME NEW i \in 0 .. n - 1, Pushed(i)'
      PROVE  \E h \in {i, i + 1} :
               /\ h \in 0 .. n /\ Pushed(h)
               /\ \A m \in 1 .. n : h < m /\ Lifted(m) =>
                    \E l \in 1 .. n - 1 : l = m - 1 /\ i < l /\ Lifted(l)'
  <2>1. ASSUME NEW m \in 1 .. n, i + 1 < m, Lifted(m)
        PROVE  \E l \in 1 .. n - 1 : l = m - 1 /\ i < l /\ Lifted(l)'
    <3>1. PICK l \in 1 .. n - 1 : l = m - 1 /\ i < l /\ l + 1 = m
      BY <1>4, <2>1
    <3> QED
      BY <1>7, <2>1, <3>1
  <2>2. CASE i # 0 \/ Pushed(1)
    <3>1. i + 1 \in 0 .. n /\ Pushed(i + 1)
      BY <1>4, <1>7, <1>8, <2>2
    <3> QED
      BY <2>1, <3>1
  <2>3. CASE i = 0 /\ Pushed(0) /\ stream[1].type # "KEY"
    <3>1. ~Lifted(1)
      BY <2>3 DEF Lifted, IsLift
    <3>2. \A m \in 1 .. n : 0 < m /\ Lifted(m) => i + 1 < m
      BY <1>4, <2>3, <3>1
    <3> QED
      BY <1>4, <2>1, <2>3, <3>2
  <2> QED
    BY <1>5, <1>8, <2>2, <2>3
<1>9. Alternate'
  <2> SUFFICES ASSUME NEW i \in 0 .. n - 1, NEW j \in 0 .. n - 1,
                      i < j, Pushed(i)', Pushed(j)'
               PROVE  \E m \in 1 .. n - 1 : i < m /\ m < j /\ Lifted(m)'
    BY <1>4 DEF Alternate
  <2>1. PICK h \in {i, i + 1} :
          /\ h \in 0 .. n /\ Pushed(h)
          /\ \A m \in 1 .. n : h < m /\ Lifted(m) =>
               \E l \in 1 .. n - 1 : l = m - 1 /\ i < l /\ Lifted(l)'
    BY <1>8
  <2>2. j + 1 \in 0 .. n /\ Pushed(j + 1) /\ h < j + 1
    BY <1>4, <1>7
  <2>3. PICK m \in 1 .. n : h < m /\ m < j + 1 /\ Lifted(m)
    BY <1>2, <2>1, <2>2 DEF PInv, Turns, Alternate, n
  <2>4. m - 1 < j
    BY <2>3
  <2> QED
    BY <2>1, <2>3, <2>4
<1>10. Closing'
  <2> SUFFICES ASSUME button[Served] = NoKey, NEW i \in 0 .. n - 1, Pushed(i)'
               PROVE  \E m \in 1 .. n - 1 : i < m /\ Lifted(m)'
    BY <1>1, <1>3, <1>4 DEF Closing
  <2>1. PICK h \in {i, i + 1} :
          /\ h \in 0 .. n /\ Pushed(h)
          /\ \A m \in 1 .. n : h < m /\ Lifted(m) =>
               \E l \in 1 .. n - 1 : l = m - 1 /\ i < l /\ Lifted(l)'
    BY <1>8
  <2>2. PICK m \in 1 .. n : h < m /\ Lifted(m)
    BY <1>2, <2>1 DEF PInv, Turns, Closing, n
  <2> QED
    BY <2>1, <2>2
<1> QED
  BY <1>6, <1>9, <1>10 DEF Turns

(* The rest of the loop's turn and of the outside.                         *)
LEMMA CheckKeeps ==
  ASSUME PInv, CheckSlot
  PROVE  Apart' /\ Turns'
<1>1. /\ UNCHANGED <<fd, client, button>> /\ pc' \in {"read", "poll"}
      /\ (press' = Idle /\ fd = NoFd) \/ UNCHANGED <<press, carried>>
  BY OpenRemote DEF PInv, CheckSlot, kernel, slot, decoder, SlotOK, DescriptorOwned
<1>2. Apart'
  BY <1>1 DEF PInv, Apart
<1>3. CASE fd = NoFd
  BY <1>1, <1>2, <1>3, TurnsFresh
<1>4. CASE fd # NoFd
  BY <1>1, <1>2, <1>4, TurnsKept DEF PInv
<1> QED
  BY <1>3, <1>4

LEMMA PInvInit == Init => PInv
<1> SUFFICES ASSUME Init
             PROVE  PInv
  OBVIOUS
<1>1. NInv /\ fd = NoFd /\ press = Idle /\ button = [d \in Devices |-> NoKey]
  BY NInvInit DEF Init
<1> QED
  BY <1>1 DEF PInv, Held, Apart, Turns, Alternate, Closing

LEMMA PInvStep == PInv /\ [Next]_vars => PInv'
<1> SUFFICES ASSUME PInv, [Next]_vars
             PROVE  PInv'
  OBVIOUS
<1>1. NInv' /\ NInv /\ Held /\ Apart /\ Turns
  BY NInvStep DEF PInv
<1>a. ASSUME UNCHANGED <<fd, client, press, carried, button>>
      PROVE  Turns'
  BY <1>1, <1>a, TurnsKept
<1>b. ASSUME UNCHANGED <<fd, press, carried, pc>>
      PROVE  Apart'
  BY <1>1, <1>b DEF Apart
<1>c. ASSUME UNCHANGED <<phase, button>>
      PROVE  Held'
  BY <1>1, <1>c DEF Held
<1>2. ASSUME NEW d \in Devices, NEW n \in Nodes, NEW k \in Keys \cup {NoKey},
             Plug(d, n, k)
      PROVE  PInv'
  <2>1. /\ UNCHANGED <<fd, client, press, carried, pc>>
        /\ phase[d] = "new" /\ phase' = [phase EXCEPT ![d] = "live"]
        /\ button' = [button EXCEPT ![d] = k]
    BY <1>2 DEF Plug, slot, decoder
  <2>2. /\ button \in [Devices -> Keys \cup {NoKey}]
        /\ phase \in [Devices -> {"new", "live", "leaving", "gone"}]
        /\ fd # NoFd => Served \in Devices
    BY <1>1, OpenRemote DEF RestOK
  <2>3. button[d] = NoKey
    BY <1>1, <2>1 DEF Held
  <2>4. fd # NoFd => (button'[Served] = NoKey => button[Served] = NoKey)
    BY <2>1, <2>2, <2>3
  <2>5. Turns'
    BY <1>1, <2>1, <2>4, TurnsKept
  <2>6. Held'
    BY <1>1, <2>1, <2>2 DEF Held
  <2> QED
    BY <1>1, <1>b, <2>1, <2>5, <2>6 DEF PInv
<1>3. CASE \/ \E d \in Remotes, k \in Keys, t \in Times : Push(d, k, t)
           \/ \E d \in Remotes, t \in Times : Release(d, t)
           \/ \E d \in Devices, t \in Times : Leave(d, t)
  <2>1. UNCHANGED <<fd, press, carried, pc>>
    BY <1>3 DEF Push, Release, Leave, slot, decoder
  <2> QED
    BY <1>1, <1>3, <1>b, <2>1, HandKeeps DEF PInv
<1>4. ASSUME NEW d \in Devices, HangUp(d)
      PROVE  PInv'
  <2>1. /\ UNCHANGED <<fd, client, press, carried, button, pc>>
        /\ phase[d] = "leaving" /\ phase' = [phase EXCEPT ![d] = "gone"]
    BY <1>4 DEF HangUp, slot, decoder
  <2>2. Held'
    BY <1>1, <2>1, OpenRemote DEF Held, RestOK
  <2> QED
    BY <1>1, <1>a, <1>b, <2>1, <2>2 DEF PInv
<1>5. ASSUME NEW n \in Nodes, RemoveNode(n)
      PROVE  PInv'
  <2>1. UNCHANGED <<fd, client, press, carried, button, phase, pc>>
    BY <1>5 DEF RemoveNode, slot, decoder
  <2> QED
    BY <1>1, <1>a, <1>b, <1>c, <2>1 DEF PInv
<1>6. ASSUME NEW n \in Nodes, ScanNode(n)
      PROVE  PInv'
  <2>1. UNCHANGED <<phase, button>>
    BY <1>6 DEF ScanNode
  <2> QED
    BY <1>1, <1>6, <1>c, <2>1, ScanTurns DEF PInv
<1>7. CASE HandleNotice
  <2>1. UNCHANGED <<phase, button>>
    BY <1>7 DEF HandleNotice
  <2> QED
    BY <1>1, <1>7, <1>c, <2>1, HandleTurns DEF PInv
<1>8. CASE CheckSlot
  <2>1. UNCHANGED <<phase, button>>
    BY <1>8 DEF CheckSlot, kernel
  <2> QED
    BY <1>1, <1>8, <1>c, <2>1, CheckKeeps DEF PInv
<1>9. CASE ReadEvent
  <2>1. UNCHANGED <<phase, button>>
    BY <1>9 DEF ReadEvent
  <2> QED
    BY <1>1, <1>9, <1>c, <2>1, ReadKeeps DEF PInv
<1>10. CASE \/ BinderCommand \/ AddWatch \/ OpenDir \/ ScanEnd \/ Poll
            \/ ReadNotify \/ HandleBinder \/ ReadFails \/ UNCHANGED vars
  <2>1. /\ UNCHANGED <<fd, client, press, carried, button, phase>>
        /\ pc' \in {"start", "opendir", "scan"} => pc \in {"start", "opendir", "scan"}
    BY <1>10 DEF BinderCommand, AddWatch, OpenDir, ScanEnd, Poll, ReadNotify,
         HandleBinder, ReadFails, vars, kernel, slot, decoder
  <2>2. Apart'
    BY <1>1, <2>1 DEF Apart
  <2> QED
    BY <1>1, <1>a, <1>c, <2>1, <2>2 DEF PInv
<1> QED
  BY <1>2, <1>3, <1>4, <1>5, <1>6, <1>7, <1>8, <1>9, <1>10
     DEF Next, Outside, Daemon

-----------------------------------------------------------------------------
(* The loop can take a push for a release only while it tracks a press     *)
(* whose descriptor was replaced in one batch of notices (lines 257-261),  *)
(* for any number of remotes, nodes and buttons and any clock.             *)
THEOREM SwapOnly == Spec => PushActsOnlyAfterSwap
<1> DEFINE A == (ReadEvent /\ Dispatches(press, Head(client[fd].events))
                   /\ Head(client[fd].events).value # 0) => carried
<1>1. PInv => A
  <2> SUFFICES ASSUME PInv, ReadEvent, Dispatches(press, Head(stream)),
                      Head(stream).value # 0, ~carried
               PROVE  FALSE
    BY DEF stream
  <2>1. pc = "read" /\ stream # <<>> /\ fd # NoFd /\ stream \in Seq(Events)
    BY OpenRemote DEF PInv, RestOK, DescriptorOwned, ReadEvent, Readable, stream
  <2>2. Head(stream) = stream[1] /\ Head(stream) \in Events /\ Len(stream) \in Nat \ {0}
    BY <2>1, HeadTailProperties, EmptySeq, LenProperties
  <2>3. stream[1].type = "KEY" /\ stream[1].value = 1 /\ press.usec # 0
    BY <2>2 DEF Dispatches, Events, Syn
  <2>4. Pushed(0) /\ Pushed(1)
    BY <2>3 DEF Pushed, IsPush
  <2>5. \E m \in 1 .. Len(stream) : 0 < m /\ m < 1
    BY <2>1, <2>2, <2>4 DEF PInv, Turns, Alternate
  <2> QED
    BY <2>2, <2>5
<1>2. PInv => [A]_vars
  BY <1>1
<1> QED
  BY <1>2, PInvInit, PInvStep, PTL DEF Spec, PushActsOnlyAfterSwap
=============================================================================
