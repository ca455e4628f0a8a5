--------------------------- MODULE EventLoopProofs ---------------------------
(***************************************************************************)
(* Proofs about EventLoop, for every set of nodes, devices, descriptors    *)
(* and keys, every batch size and every clock.                             *)
(*                                                                         *)
(* The inductive invariant is TypeOK /\ DescriptorOwned: the types alone   *)
(* are not inductive, since the read of an event indexes the open files    *)
(* with fd, and nothing but DescriptorOwned says that a slot whose nfds is *)
(* 3 holds a descriptor.                                                   *)
(***************************************************************************)
EXTENDS EventLoop, SequenceTheorems, TLAPS

Open == [dev : Devices \cup {NoDevice}, events : Seq(Events)]

(* The types of what open_g20_device and close_g20_device assign.          *)
SlotOK ==
  /\ client \in [Fds -> Open]
  /\ path \in Nodes \cup {NoNode}
  /\ fd \in Fds \cup {NoFd}
  /\ nfds \in {2, 3}

-----------------------------------------------------------------------------
(* The operators the actions are built from.                               *)

LEMMA IdlePress == Idle \in Press
BY TimeAssumption DEF Idle, Press, Stamp

(* Decoding an event of the remote keeps the decoder's type, and no time   *)
(* stamp is ever kept without a button.                                    *)
LEMMA DecodeType ==
  ASSUME NEW p \in Press, p.keycode = NoKey => p.usec = 0,
         NEW e \in Events
  PROVE  /\ Decode(p, e) \in Press
         /\ Decode(p, e).keycode = NoKey => Decode(p, e).usec = 0
<1>1. CASE e \in [type : {"MSC"}, value : Keys]
  BY <1>1, IdlePress, KeysAssumption DEF Decode, OnMsc, Press, Idle
<1>2. CASE e \in [type : {"KEY"}, value : {0, 1}, time : Times]
  <2>1. e.time \in Stamp
    BY <1>2, LoopAssumption
  <2>2. Decode(p, e) = OnKey(p, e)
    BY <1>2 DEF Decode
  <2> QED
    BY <2>1, <2>2, IdlePress DEF OnKey, Press, Idle
<1>3. CASE e = Syn
  BY <1>3 DEF Decode, Syn
<1> QED
  BY <1>1, <1>2, <1>3 DEF Events

(* close_g20_device leaves an empty slot and no open input file.           *)
LEMMA CloseKeeps ==
  ASSUME SlotOK, DescriptorOwned, close_g20_device
  PROVE  SlotOK' /\ DescriptorOwned' /\ fd' = NoFd
<1>1. Closed \in Open /\ Closed.dev = NoDevice
  BY DEF Closed, Open
<1>2. client' \in [Fds -> Open]
  BY <1>1 DEF close_g20_device, SlotOK
<1>3. \A f \in Fds : client'[f].dev = NoDevice
  BY <1>1 DEF close_g20_device, SlotOK, DescriptorOwned
<1> QED
  BY <1>2, <1>3, LoopAssumption
     DEF close_g20_device, SlotOK, DescriptorOwned, Served

(* open_g20_device replaces the descriptor in the slot by that of the      *)
(* remote behind n, or leaves the slot as it is.                           *)
LEMMA OpenKeeps ==
  ASSUME NEW n \in Nodes, node \in [Nodes -> Devices \cup {NoDevice}],
         SlotOK, DescriptorOwned, open_g20_device(n)
  PROVE  /\ SlotOK' /\ DescriptorOwned'
         /\ \/ path' = n /\ fd' \in Fds /\ client'[fd'].dev = node[n]
            \/ UNCHANGED <<slot, client>>
<1>1. CASE ~IsG20(n)
  BY <1>1 DEF open_g20_device, slot, SlotOK, DescriptorOwned, Served
<1>2. CASE IsG20(n)
  <2>1. PICK f \in Free :
          /\ path' = n
          /\ fd' = f
          /\ nfds' = 3
          /\ client' = [g \in Fds |->
               IF g = f THEN [dev |-> node[n], events |-> <<>>]
               ELSE IF g = fd THEN Closed
               ELSE client[g]]
    BY <1>2 DEF open_g20_device
  <2>2. f \in Fds /\ f # NoFd
    BY LoopAssumption DEF Free
  <2>3. node[n] \in Remotes /\ node[n] \in Devices /\ node[n] # NoDevice
    BY <1>2, LoopAssumption DEF IsG20, Opens
  <2>4. [dev |-> node[n], events |-> <<>>] \in Open /\ Closed \in Open
    BY <2>3 DEF Open, Closed
  <2>5. client' \in [Fds -> Open]
    BY <2>1, <2>4 DEF SlotOK
  <2>6. client'[f].dev = node[n]
    BY <2>1, <2>2
  <2>7. \A g \in Fds \ {f} : client'[g].dev = NoDevice
    <3> SUFFICES ASSUME NEW g \in Fds \ {f}
                 PROVE  client'[g].dev = NoDevice
      OBVIOUS
    <3>1. CASE g = fd
      BY <3>1, <2>1 DEF Closed
    <3>2. CASE g # fd
      BY <3>2, <2>1 DEF DescriptorOwned
    <3> QED
      BY <3>1, <3>2
  <2>8. {g \in Fds : client'[g].dev # NoDevice} = {f}
    BY <2>2, <2>3, <2>6, <2>7
  <2> QED
    BY <2>1, <2>2, <2>3, <2>5, <2>6, <2>8, LoopAssumption
       DEF SlotOK, DescriptorOwned, Served
<1> QED
  BY <1>1, <1>2

(* The events of a packet join the buffers; no file changes hands.         *)
LEMMA DeliverKeeps ==
  ASSUME SlotOK, DescriptorOwned, NEW d, NEW events \in Seq(Events),
         Deliver(d, events), UNCHANGED slot
  PROVE  /\ SlotOK' /\ DescriptorOwned'
         /\ \A f \in Fds : client'[f].dev = client[f].dev
<1>1. \A f \in Fds : client'[f] \in Open /\ client'[f].dev = client[f].dev
  BY ConcatProperties DEF Deliver, SlotOK, Open
<1>2. client' = [f \in Fds |-> client'[f]]
  BY DEF Deliver
<1>3. client' \in [Fds -> Open]
  BY <1>1, <1>2
<1> QED
  BY <1>1, <1>3 DEF SlotOK, DescriptorOwned, Served, slot

-----------------------------------------------------------------------------
(* Types and descriptors.                                                  *)

(* What TypeOK says beyond SlotOK.                                         *)
RestOK ==
  /\ node \in [Nodes -> Devices \cup {NoDevice}]
  /\ phase \in [Devices -> {"new", "live", "leaving", "gone"}]
  /\ button \in [Devices -> Keys \cup {NoKey}]
  /\ inq \in Seq(Ops)
  /\ command \in BOOLEAN
  /\ pc \in Steps
  /\ dir \in [must : SUBSET Nodes, may : SUBSET Nodes]
  /\ batch \in Seq(Ops) /\ Len(batch) <= BatchSize
  /\ revents \in [notify : BOOLEAN, binder : BOOLEAN, g20 : BOOLEAN]
  /\ press \in Press /\ (press.keycode = NoKey => press.usec = 0)
  /\ latest \in Remotes \cup {NoDevice}
  /\ overlap \in BOOLEAN
  /\ carried \in BOOLEAN
  /\ pc # "handle" => batch = <<>>
  /\ pc = "read" => nfds = 3

LEMMA TypeParts == TypeOK <=> SlotOK /\ RestOK
BY DEF TypeOK, SlotOK, RestOK, Open

(* A sequence cut in two, as by the read of a batch of notices.            *)
LEMMA SplitType ==
  ASSUME NEW S, NEW s \in Seq(S), NEW k \in 0 .. Len(s)
  PROVE  /\ SubSeq(s, 1, k) \in Seq(S) /\ Len(SubSeq(s, 1, k)) = k
         /\ SubSeq(s, k + 1, Len(s)) \in Seq(S)
         /\ Len(SubSeq(s, k + 1, Len(s))) = Len(s) - k
<1>1. Len(s) \in Nat
  BY LenProperties
<1>2. \A i \in 1 .. k : i \in 1 .. Len(s)
  BY <1>1
<1>3. \A i \in k + 1 .. Len(s) : i \in 1 .. Len(s)
  BY <1>1
<1>4. \A i \in 1 .. Len(s) : s[i] \in S
  BY ElementOfSeq
<1> QED
  BY <1>1, <1>2, <1>3, <1>4, SubSeqProperties

LEMMA NoticeType ==
  ASSUME inq \in Seq(Ops), NEW n \in Nodes, NEW op \in {"CREATE", "DELETE"},
         Notice(op, n)
  PROVE  inq' \in Seq(Ops)
<1>1. [op |-> op, node |-> n] \in Ops
  BY DEF Ops
<1> QED
  BY <1>1, AppendProperties DEF Notice

IInv == TypeOK /\ DescriptorOwned

LEMMA InitEstablishes == Init => IInv
<1> SUFFICES ASSUME Init
             PROVE  IInv
  OBVIOUS
<1>1. client = [f \in Fds |-> Closed] /\ Closed \in Open /\ Closed.dev = NoDevice
  BY DEF Init, Closed, Open
<1>2. SlotOK
  BY <1>1 DEF Init, SlotOK
<1>3. DescriptorOwned
  BY <1>1, LoopAssumption DEF Init, DescriptorOwned, Served
<1>4. press \in Press /\ press.usec = 0
  BY IdlePress DEF Init, Idle
<1>5. RestOK
  <2>1. batch = <<>> /\ inq = <<>> /\ Len(batch) <= BatchSize
    BY LoopAssumption DEF Init
  <2>2. phase \in [Devices -> {"new", "live", "leaving", "gone"}]
    BY DEF Init
  <2>3. button \in [Devices -> Keys \cup {NoKey}]
    BY DEF Init
  <2>4. overlap \in BOOLEAN
    BY DEF Init
  <2>5. node \in [Nodes -> Devices \cup {NoDevice}]
    BY DEF Init
  <2>6. /\ command \in BOOLEAN /\ latest \in Remotes \cup {NoDevice}
        /\ carried \in BOOLEAN /\ pc = "start" /\ pc \in Steps
        /\ dir \in [must : SUBSET Nodes, may : SUBSET Nodes]
        /\ revents \in [notify : BOOLEAN, binder : BOOLEAN, g20 : BOOLEAN]
    BY DEF Init, Steps
  <2>7. inq \in Seq(Ops) /\ batch \in Seq(Ops)
    BY <2>1, EmptySeq
  <2> QED
    BY <1>4, <2>1, <2>2, <2>3, <2>4, <2>5, <2>6, <2>7 DEF RestOK
<1> QED
  BY <1>2, <1>3, <1>5, TypeParts DEF IInv

(* Every step preserves the invariant.  Only Deliver, open_g20_device and  *)
(* close_g20_device touch the slot or the open files; the read of an event *)
(* relies on DescriptorOwned to know that fd is a descriptor.              *)
LEMMA StepPreserves == IInv /\ [Next]_vars => IInv'
<1> SUFFICES ASSUME IInv, [Next]_vars
             PROVE  IInv'
  OBVIOUS
<1>0. TypeOK /\ SlotOK /\ RestOK /\ DescriptorOwned
  BY TypeParts DEF IInv
<1> DEFINE SameSlot == UNCHANGED <<slot, client>>
<1>a. SameSlot => SlotOK' /\ DescriptorOwned'
  BY <1>0 DEF SlotOK, DescriptorOwned, Served, slot
<1>b. SlotOK' /\ DescriptorOwned' /\ RestOK' => IInv'
  BY TypeParts, PTL DEF IInv
<1> HIDE DEF SameSlot
<1>1. ASSUME NEW d \in Devices, NEW n \in Nodes, NEW k \in Keys \cup {NoKey},
             Plug(d, n, k)
      PROVE  IInv'
  <2>1. inq' \in Seq(Ops)
    BY <1>0, <1>1, NoticeType DEF RestOK, Plug
  <2>2. latest' \in Remotes \cup {NoDevice}
    BY <1>0, <1>1 DEF RestOK, Plug
  <2>3. overlap' \in BOOLEAN
    BY <1>0, <1>1 DEF RestOK, Plug
  <2>4. RestOK'
    BY <1>0, <1>1, <2>1, <2>2, <2>3 DEF RestOK, Plug, slot, decoder
  <2>5. SameSlot
    BY <1>1 DEF Plug, SameSlot, slot
  <2> QED
    BY <1>a, <1>b, <2>4, <2>5
<1>2. ASSUME NEW d \in Remotes, NEW k \in Keys, NEW t \in Times, Push(d, k, t)
      PROVE  IInv'
  <2>1. <<Msc(k), Key(1, t), Syn>> \in Seq(Events)
    BY DEF Events, Msc, Key, Syn
  <2>2. SlotOK' /\ DescriptorOwned'
    BY <1>0, <1>2, <2>1, DeliverKeeps DEF Push
  <2>3. RestOK'
    BY <1>0, <1>2, LoopAssumption DEF RestOK, Push, slot, decoder, history
  <2> QED
    BY <1>b, <2>2, <2>3
<1>3. ASSUME NEW d \in Remotes, NEW t \in Times, Release(d, t)
      PROVE  IInv'
  <2>1. button[d] \in Keys
    BY <1>0, <1>3, LoopAssumption DEF RestOK, Release
  <2>2. <<Msc(button[d]), Key(0, t), Syn>> \in Seq(Events)
    BY <2>1 DEF Events, Msc, Key, Syn
  <2>3. SlotOK' /\ DescriptorOwned'
    BY <1>0, <1>3, <2>2, DeliverKeeps DEF Release
  <2>4. RestOK'
    BY <1>0, <1>3, LoopAssumption DEF RestOK, Release, slot, decoder, history
  <2> QED
    BY <1>b, <2>3, <2>4
<1>4. ASSUME NEW d \in Devices, NEW t \in Times, Leave(d, t)
      PROVE  IInv'
  <2>1. <<Key(0, t), Syn>> \in Seq(Events)
    BY DEF Events, Key, Syn
  <2>2. SlotOK' /\ DescriptorOwned'
    <3>1. CASE button[d] = NoKey
      BY <1>a, <1>4, <3>1 DEF Leave, SameSlot
    <3>2. CASE button[d] # NoKey
      BY <1>0, <1>4, <2>1, <3>2, DeliverKeeps DEF Leave
    <3> QED
      BY <3>1, <3>2
  <2>3. RestOK'
    BY <1>0, <1>4 DEF RestOK, Leave, slot, decoder, history
  <2> QED
    BY <1>b, <2>2, <2>3
<1>5. ASSUME NEW d \in Devices, HangUp(d)
      PROVE  IInv'
  <2>1. SameSlot
    BY <1>5 DEF HangUp, SameSlot, slot
  <2>2. RestOK'
    BY <1>0, <1>5 DEF RestOK, HangUp, slot, decoder, history
  <2> QED
    BY <1>a, <1>b, <2>1, <2>2
<1>6. ASSUME NEW n \in Nodes, RemoveNode(n)
      PROVE  IInv'
  <2>1. SameSlot
    BY <1>6 DEF RemoveNode, SameSlot, slot
  <2>2. inq' \in Seq(Ops)
    BY <1>0, <1>6, NoticeType DEF RestOK, RemoveNode
  <2>3. dir' \in [must : SUBSET Nodes, may : SUBSET Nodes]
    BY <1>0, <1>6 DEF RestOK, RemoveNode
  <2>4. RestOK'
    BY <1>0, <1>6, <2>2, <2>3 DEF RestOK, RemoveNode, slot, decoder, history
  <2> QED
    BY <1>a, <1>b, <2>1, <2>4
<1>7. CASE BinderCommand
  <2>1. SameSlot
    BY <1>7 DEF BinderCommand, SameSlot, slot, kernel
  <2>2. RestOK'
    BY <1>0, <1>7 DEF RestOK, BinderCommand, kernel, slot, decoder, history
  <2> QED
    BY <1>a, <1>b, <2>1, <2>2
<1>8. CASE AddWatch
  <2>1. SameSlot
    BY <1>8 DEF AddWatch, SameSlot, slot, kernel
  <2>2. RestOK'
    BY <1>0, <1>8 DEF RestOK, AddWatch, Steps, kernel, slot, decoder, history
  <2> QED
    BY <1>a, <1>b, <2>1, <2>2
<1>9. CASE OpenDir
  <2>1. SameSlot
    BY <1>9 DEF OpenDir, SameSlot, slot, kernel
  <2>2. dir' \in [must : SUBSET Nodes, may : SUBSET Nodes]
    BY <1>9 DEF OpenDir
  <2>3. RestOK'
    BY <1>0, <1>9, <2>2
       DEF RestOK, OpenDir, Steps, kernel, slot, decoder, history
  <2> QED
    BY <1>a, <1>b, <2>1, <2>3
<1>10. ASSUME NEW n \in Nodes, ScanNode(n)
       PROVE  IInv'
  <2>1. SlotOK' /\ DescriptorOwned'
    BY <1>0, <1>10, OpenKeeps DEF RestOK, ScanNode
  <2>2. dir' \in [must : SUBSET Nodes, may : SUBSET Nodes]
    BY <1>0, <1>10 DEF RestOK, ScanNode
  <2>3. RestOK'
    BY <1>0, <1>10, <2>2
       DEF RestOK, ScanNode, Steps, decoder, history
  <2> QED
    BY <1>b, <2>1, <2>3
<1>11. CASE ScanEnd
  <2>1. SameSlot
    BY <1>11 DEF ScanEnd, SameSlot, slot, kernel
  <2>2. RestOK'
    BY <1>0, <1>11 DEF RestOK, ScanEnd, Steps, kernel, slot, decoder, history
  <2> QED
    BY <1>a, <1>b, <2>1, <2>2
<1>12. CASE Poll
  <2>1. SameSlot
    BY <1>12 DEF Poll, SameSlot, slot, kernel
  <2>2. revents' \in [notify : BOOLEAN, binder : BOOLEAN, g20 : BOOLEAN]
    <3>1. (IF nfds = 3 THEN Readable ELSE revents.g20) \in BOOLEAN
      BY <1>0 DEF RestOK, Readable
    <3>2. (inq # <<>>) \in BOOLEAN /\ command \in BOOLEAN
      BY <1>0 DEF RestOK
    <3> QED
      BY <1>12, <3>1, <3>2 DEF Poll
  <2>3. RestOK'
    BY <1>0, <1>12, <2>2
       DEF RestOK, Poll, Steps, kernel, slot, decoder, history
  <2> QED
    BY <1>a, <1>b, <2>1, <2>3
<1>13. CASE ReadNotify
  <2>1. SameSlot
    BY <1>13 DEF ReadNotify, SameSlot, slot, kernel
  <2>2. inq' \in Seq(Ops) /\ batch' \in Seq(Ops) /\ Len(batch') <= BatchSize
    <3>1. CASE revents.notify
      <4>1. Len(inq) \in Nat /\ Fits(inq) \in 0 .. Len(inq) /\ Fits(inq) <= BatchSize
        BY <1>0, LenProperties, LoopAssumption DEF RestOK, Fits
      <4>2. inq \in Seq(Ops)
        BY <1>0 DEF RestOK
      <4>3. /\ SubSeq(inq, 1, Fits(inq)) \in Seq(Ops)
            /\ Len(SubSeq(inq, 1, Fits(inq))) = Fits(inq)
            /\ SubSeq(inq, Fits(inq) + 1, Len(inq)) \in Seq(Ops)
        BY <4>1, <4>2, SplitType
      <4>4. /\ batch' = SubSeq(inq, 1, Fits(inq))
            /\ inq' = SubSeq(inq, Fits(inq) + 1, Len(inq))
        BY <1>13, <3>1 DEF ReadNotify
      <4> QED
        BY <4>1, <4>3, <4>4
    <3>2. CASE ~revents.notify
      BY <1>0, <1>13, <3>2 DEF RestOK, ReadNotify
    <3> QED
      BY <3>1, <3>2
  <2>3. RestOK'
    BY <1>0, <1>13, <2>2
       DEF RestOK, ReadNotify, Steps, kernel, slot, decoder, history
  <2> QED
    BY <1>a, <1>b, <2>1, <2>3
<1>14. CASE HandleNotice
  <2>1. /\ Head(batch) \in Ops
        /\ batch' \in Seq(Ops)
        /\ Len(batch') <= BatchSize
    BY <1>0, <1>14, HeadTailProperties, LenProperties, LoopAssumption
       DEF RestOK, HandleNotice
  <2>2. SlotOK' /\ DescriptorOwned'
    <3>1. CASE Head(batch).op = "CREATE"
      BY <1>0, <1>14, <2>1, <3>1, OpenKeeps DEF RestOK, HandleNotice, Ops
    <3>2. CASE Head(batch).op # "CREATE" /\ path = Head(batch).node
      BY <1>0, <1>14, <3>2, CloseKeeps DEF HandleNotice
    <3>3. CASE Head(batch).op # "CREATE" /\ path # Head(batch).node
      BY <1>a, <1>14, <3>3 DEF HandleNotice, SameSlot
    <3> QED
      BY <3>1, <3>2, <3>3
  <2>3. carried' \in BOOLEAN
    BY <1>0, <1>14 DEF RestOK, HandleNotice
  <2>4. RestOK'
    BY <1>0, <1>14, <2>1, <2>3 DEF RestOK, HandleNotice, history
  <2> QED
    BY <1>b, <2>2, <2>4
<1>15. CASE HandleBinder
  <2>1. SameSlot
    BY <1>15 DEF HandleBinder, SameSlot, slot, kernel
  <2>2. command' \in BOOLEAN
    BY <1>15 DEF HandleBinder
  <2>3. RestOK'
    BY <1>0, <1>15, <2>2
       DEF RestOK, HandleBinder, Steps, kernel, slot, decoder, history
  <2> QED
    BY <1>a, <1>b, <2>1, <2>3
<1>16. CASE CheckSlot
  <2>1. SameSlot
    BY <1>16 DEF CheckSlot, SameSlot, slot, kernel
  <2>2. press' \in Press /\ (press'.keycode = NoKey => press'.usec = 0)
    BY <1>0, <1>16, IdlePress DEF RestOK, CheckSlot, Idle, decoder
  <2>3. carried' \in BOOLEAN
    BY <1>0, <1>16 DEF RestOK, CheckSlot, decoder
  <2>4. RestOK'
    BY <1>0, <1>16, <2>2, <2>3
       DEF RestOK, CheckSlot, Steps, kernel, slot, history
  <2> QED
    BY <1>a, <1>b, <2>1, <2>4
<1>17. CASE ReadEvent
  <2>1. fd \in Fds /\ client[fd] \in Open /\ client[fd].events # <<>>
    BY <1>0, <1>17 DEF SlotOK, RestOK, DescriptorOwned, ReadEvent, Readable
  <2>2. /\ Head(client[fd].events) \in Events
        /\ Tail(client[fd].events) \in Seq(Events)
    BY <2>1, HeadTailProperties DEF Open
  <2>3. press' \in Press /\ (press'.keycode = NoKey => press'.usec = 0)
    BY <1>0, <1>17, <2>2, DecodeType DEF RestOK, ReadEvent
  <2>4. client' = [client EXCEPT ![fd] =
                     [client[fd] EXCEPT !.events = Tail(client[fd].events)]]
    BY <1>17 DEF ReadEvent
  <2>5. /\ client' \in [Fds -> Open]
        /\ \A f \in Fds : client'[f].dev = client[f].dev
    BY <1>0, <2>1, <2>2, <2>4 DEF SlotOK, Open
  <2>6. SlotOK' /\ DescriptorOwned'
    BY <1>0, <1>17, <2>5 DEF SlotOK, DescriptorOwned, Served, ReadEvent, slot
  <2>7. carried' \in BOOLEAN
    BY <1>0, <1>17 DEF RestOK, ReadEvent
  <2>8. RestOK'
    BY <1>0, <1>17, <2>3, <2>7 DEF RestOK, ReadEvent, Steps, slot, history
  <2> QED
    BY <1>b, <2>6, <2>8
<1>18. CASE ReadFails
  <2>1. SameSlot
    BY <1>18 DEF ReadFails, SameSlot, slot, kernel
  <2>2. RestOK'
    BY <1>0, <1>18 DEF RestOK, ReadFails, Steps, kernel, slot, decoder, history
  <2> QED
    BY <1>a, <1>b, <2>1, <2>2
<1>19. CASE UNCHANGED vars
  <2>1. SameSlot
    BY <1>19 DEF vars, SameSlot, slot
  <2>2. RestOK'
    BY <1>0, <1>19 DEF RestOK, vars
  <2> QED
    BY <1>a, <1>b, <2>1, <2>2
<1> QED
  BY <1>1, <1>2, <1>3, <1>4, <1>5, <1>6, <1>7, <1>8, <1>9, <1>10, <1>11, <1>12,
     <1>13, <1>14, <1>15, <1>16, <1>17, <1>18, <1>19 DEF Next, Outside, Daemon

(* The types of the loop's state hold in every state of every run.         *)
THEOREM TypeCorrect == Spec => []TypeOK
<1>1. IInv => TypeOK
  BY DEF IInv
<1> QED
  BY <1>1, InitEstablishes, StepPreserves, PTL DEF Spec

(* However many devices come and go, in whatever order the daemon learns   *)
(* of it, open_g20_device and close_g20_device keep path, fd and nfds in   *)
(* step, and the daemon holds no input descriptor but the one in ufds.     *)
THEOREM NoDescriptorLeak == Spec => []DescriptorOwned
<1>1. IInv => DescriptorOwned
  BY DEF IInv
<1> QED
  BY <1>1, InitEstablishes, StepPreserves, PTL DEF Spec

-----------------------------------------------------------------------------
(* The notices between the kernel and the slot.                            *)

In(e, s) == \E i \in 1 .. Len(s) : s[i] = e

LEMMA InConcat ==
  ASSUME NEW S, NEW s \in Seq(S), NEW t \in Seq(S), NEW e
  PROVE  In(e, s \o t) <=> In(e, s) \/ In(e, t)
<1>1. /\ Len(s) \in Nat /\ Len(t) \in Nat /\ Len(s \o t) = Len(s) + Len(t)
      /\ \A i \in 1 .. Len(s) + Len(t) :
           (s \o t)[i] = IF i <= Len(s) THEN s[i] ELSE t[i - Len(s)]
  BY ConcatProperties, LenProperties
<1>2. ASSUME In(e, s \o t) PROVE In(e, s) \/ In(e, t)
  <2>1. PICK i \in 1 .. Len(s) + Len(t) : (s \o t)[i] = e
    BY <1>1, <1>2 DEF In
  <2>2. CASE i <= Len(s)
    BY <1>1, <2>1, <2>2 DEF In
  <2>3. CASE i > Len(s)
    <3>1. i - Len(s) \in 1 .. Len(t) /\ t[i - Len(s)] = e
      BY <1>1, <2>1, <2>3
    <3> QED
      BY <3>1 DEF In
  <2> QED
    BY <1>1, <2>1, <2>2, <2>3
<1>3. ASSUME In(e, s) PROVE In(e, s \o t)
  <2>1. PICK i \in 1 .. Len(s) : s[i] = e
    BY <1>3 DEF In
  <2>2. i \in 1 .. Len(s \o t) /\ (s \o t)[i] = e
    BY <1>1, <2>1
  <2> QED
    BY <2>2 DEF In
<1>4. ASSUME In(e, t) PROVE In(e, s \o t)
  <2>1. PICK i \in 1 .. Len(t) : t[i] = e
    BY <1>4 DEF In
  <2>2. Len(s) + i \in 1 .. Len(s \o t) /\ (s \o t)[Len(s) + i] = e
    BY <1>1, <2>1
  <2> QED
    BY <2>2 DEF In
<1> QED
  BY <1>2, <1>3, <1>4

LEMMA InAppend ==
  ASSUME NEW S, NEW s \in Seq(S), NEW x \in S, NEW e
  PROVE  In(e, Append(s, x)) <=> In(e, s) \/ x = e
<1>1. /\ Len(s) \in Nat /\ Len(Append(s, x)) = Len(s) + 1
      /\ \A i \in 1 .. Len(s) : Append(s, x)[i] = s[i]
      /\ Append(s, x)[Len(s) + 1] = x
  BY AppendProperties, LenProperties
<1>2. \A i \in 1 .. Len(s) + 1 : i \in 1 .. Len(s) \/ i = Len(s) + 1
  BY <1>1
<1> QED
  BY <1>1, <1>2 DEF In

(* Taking the head leaves everything else there.                           *)
LEMMA InTail ==
  ASSUME NEW S, NEW s \in Seq(S), s # <<>>, NEW e, In(e, s), Head(s) # e
  PROVE  In(e, Tail(s))
<1>1. PICK i \in 1 .. Len(s) : s[i] = e
  BY DEF In
<1>2. /\ Len(s) \in Nat /\ Head(s) = s[1] /\ Len(Tail(s)) = Len(s) - 1
      /\ \A j \in 1 .. Len(Tail(s)) : Tail(s)[j] = s[j + 1]
  BY HeadTailProperties, LenProperties
<1>3. i - 1 \in 1 .. Len(Tail(s)) /\ Tail(s)[i - 1] = e
  BY <1>1, <1>2
<1> QED
  BY <1>3 DEF In

(* Reading a batch loses no notice.                                        *)
LEMMA InSplit ==
  ASSUME NEW S, NEW s \in Seq(S), NEW k \in 0 .. Len(s), NEW e, In(e, s)
  PROVE  In(e, SubSeq(s, 1, k)) \/ In(e, SubSeq(s, k + 1, Len(s)))
<1>1. Len(s) \in Nat
  BY LenProperties
<1>2. SubSeq(s, 1, k) \in Seq(S) /\ SubSeq(s, k + 1, Len(s)) \in Seq(S)
  BY SplitType
<1>3. s = SubSeq(s, 1, k) \o SubSeq(s, k + 1, Len(s))
  <2>1. /\ 1 \in 1 .. Len(s) + 1
        /\ k \in 1 - 1 .. Len(s)
        /\ Len(s) \in k .. Len(s)
    BY <1>1
  <2>2. SubSeq(s, 1, Len(s)) = s
    BY SubSeqFull
  <2>3. SubSeq(s, 1, k) \o SubSeq(s, k + 1, Len(s)) = SubSeq(s, 1, Len(s))
    BY ONLY <2>1, s \in Seq(S), ConcatAdjacentSubSeq
  <2> QED
    BY <2>2, <2>3
<1> QED
  BY <1>2, <1>3, InConcat

Delete(n) == [op |-> "DELETE", node |-> n]
Awaits(e) == In(e, batch) \/ In(e, inq)

(* TracksNode without the concatenation, and what it needs to be           *)
(* inductive: the slot is empty until the watch exists, so the removal of  *)
(* the node of an open remote is always notified.                          *)
Tracked == fd # NoFd /\ node[path] # Served => Awaits(Delete(path))
Early   == pc \in {"start", "opendir"} => fd = NoFd
NInv    == IInv /\ Early /\ Tracked

LEMMA TrackedSuffices == NInv => TracksNode
<1> SUFFICES ASSUME NInv, fd # NoFd, node[path] # Served
             PROVE  \E i \in DOMAIN pending : pending[i] = Delete(path)
  BY DEF TracksNode, Delete
<1>1. batch \in Seq(Ops) /\ inq \in Seq(Ops)
  BY DEF NInv, IInv, TypeOK
<1>2. In(Delete(path), pending)
  BY <1>1, InConcat DEF NInv, Tracked, Awaits, pending
<1>3. pending \in Seq(Ops)
  BY <1>1, ConcatProperties DEF pending
<1>4. DOMAIN pending = 1 .. Len(pending)
  BY <1>3, LenProperties
<1> QED
  BY <1>2, <1>4 DEF In

(* A step that leaves the slot, the device behind it and its node alone,   *)
(* and loses no notice, keeps track.                                       *)
LEMMA KeepTrack ==
  ASSUME Tracked, UNCHANGED <<path, fd>>,
         fd # NoFd => Served' = Served,
         fd # NoFd /\ node'[path] # node[path] => Awaits(Delete(path))',
         \A e : Awaits(e) => Awaits(e)'
  PROVE  Tracked'
<1> SUFFICES ASSUME fd # NoFd, node'[path] # Served
             PROVE  Awaits(Delete(path))'
  BY DEF Tracked, Awaits, Delete
<1>1. CASE node'[path] = node[path]
  BY <1>1 DEF Tracked
<1>2. CASE node'[path] # node[path]
  BY <1>2
<1> QED
  BY <1>1, <1>2

(* A notice joins the queue's end.                                         *)
LEMMA NoticeKeeps ==
  ASSUME inq \in Seq(Ops), NEW n \in Nodes, NEW op \in {"CREATE", "DELETE"},
         Notice(op, n), UNCHANGED batch
  PROVE  /\ \A e : Awaits(e) => Awaits(e)'
         /\ Watching => Awaits([op |-> op, node |-> n])'
<1>1. [op |-> op, node |-> n] \in Ops
  BY DEF Ops
<1>2. CASE Watching
  <2>1. inq' = Append(inq, [op |-> op, node |-> n])
    BY <1>2 DEF Notice
  <2>2. \A e : In(e, inq') <=> In(e, inq) \/ [op |-> op, node |-> n] = e
    BY <1>1, <2>1, InAppend
  <2> QED
    BY <2>2 DEF Awaits
<1>3. CASE ~Watching
  BY <1>3 DEF Notice, Awaits
<1> QED
  BY <1>2, <1>3

LEMMA NInvInit == Init => NInv
BY InitEstablishes DEF Init, NInv, Early, Tracked

(* Every step keeps track of the node.                                     *)
LEMMA NInvStep == NInv /\ [Next]_vars => NInv'
<1> SUFFICES ASSUME NInv, [Next]_vars
             PROVE  NInv'
  OBVIOUS
<1>0. IInv /\ IInv' /\ Early /\ Tracked
  BY StepPreserves DEF NInv
<1>1. /\ TypeOK /\ SlotOK /\ RestOK /\ DescriptorOwned
      /\ batch \in Seq(Ops) /\ inq \in Seq(Ops)
  BY <1>0, TypeParts DEF IInv, RestOK
<1>2. fd # NoFd =>
        /\ fd \in Fds /\ path \in Nodes
        /\ Served = client[fd].dev /\ Served \in Remotes /\ Served # NoDevice
  BY <1>1, LoopAssumption DEF SlotOK, DescriptorOwned, Served
<1>3. SUFFICES Early' /\ Tracked'
  BY <1>0 DEF NInv
<1> DEFINE Quiet == UNCHANGED <<node, slot, client, batch, inq>>
<1>a. Quiet => Tracked'
  BY <1>0 DEF Tracked, Awaits, Served, slot
<1> HIDE DEF Quiet
<1>4. ASSUME NEW d \in Devices, NEW n \in Nodes, NEW k \in Keys \cup {NoKey},
             Plug(d, n, k)
      PROVE  Early' /\ Tracked'
  <2>1. \A e : Awaits(e) => Awaits(e)'
    BY <1>1, <1>4, NoticeKeeps DEF Plug
  <2>2. fd # NoFd /\ node'[path] # node[path] => node[path] # Served
    BY <1>1, <1>2, <1>4 DEF Plug, RestOK
  <2>3. fd # NoFd /\ node'[path] # node[path] => Awaits(Delete(path))'
    BY <1>0, <1>4, <2>1, <2>2 DEF Tracked, Plug, slot
  <2>4. UNCHANGED <<path, fd>> /\ Served' = Served
    BY <1>4 DEF Plug, slot, Served
  <2> QED
    BY <1>0, <1>4, <2>1, <2>3, <2>4, KeepTrack DEF Plug, Early
<1>5. ASSUME NEW d, NEW events \in Seq(Events), Deliver(d, events),
             UNCHANGED <<node, slot, batch, inq, pc>>
      PROVE  Early' /\ Tracked'
  <2>1. \A f \in Fds : client'[f].dev = client[f].dev
    BY <1>1, <1>5, DeliverKeeps
  <2>2. fd # NoFd => Served' = Served
    BY <1>2, <1>5, <2>1 DEF Served, slot
  <2>3. \A e : Awaits(e) => Awaits(e)'
    BY <1>5 DEF Awaits
  <2> QED
    BY <1>0, <1>5, <2>2, <2>3, KeepTrack DEF slot, Early
<1>6. ASSUME NEW d \in Remotes, NEW k \in Keys, NEW t \in Times, Push(d, k, t)
      PROVE  Early' /\ Tracked'
  <2>1. <<Msc(k), Key(1, t), Syn>> \in Seq(Events)
    BY DEF Events, Msc, Key, Syn
  <2> QED
    BY <1>5, <1>6, <2>1 DEF Push
<1>7. ASSUME NEW d \in Remotes, NEW t \in Times, Release(d, t)
      PROVE  Early' /\ Tracked'
  <2>1. button[d] \in Keys
    BY <1>1, <1>7, LoopAssumption DEF RestOK, Release
  <2>2. <<Msc(button[d]), Key(0, t), Syn>> \in Seq(Events)
    BY <2>1 DEF Events, Msc, Key, Syn
  <2> QED
    BY <1>5, <1>7, <2>2 DEF Release
<1>8. ASSUME NEW d \in Devices, NEW t \in Times, Leave(d, t)
      PROVE  Early' /\ Tracked'
  <2>1. <<Key(0, t), Syn>> \in Seq(Events)
    BY DEF Events, Key, Syn
  <2>2. CASE button[d] = NoKey
    BY <1>0, <1>a, <1>8, <2>2 DEF Leave, Quiet, slot, Early
  <2>3. CASE button[d] # NoKey
    BY <1>5, <1>8, <2>1, <2>3 DEF Leave
  <2> QED
    BY <2>2, <2>3
<1>9. ASSUME NEW n \in Nodes, RemoveNode(n)
      PROVE  Early' /\ Tracked'
  <2>1. /\ \A e : Awaits(e) => Awaits(e)'
        /\ Watching => Awaits(Delete(n))'
    BY <1>1, <1>9, NoticeKeeps DEF RemoveNode, Delete
  <2>2. fd # NoFd => Watching
    BY <1>0 DEF Early, Watching
  <2>3. node'[path] # node[path] => path = n
    BY <1>1, <1>9 DEF RemoveNode, RestOK
  <2>4. fd # NoFd /\ node'[path] # node[path] => Awaits(Delete(path))'
    BY <1>9, <2>1, <2>2, <2>3 DEF RemoveNode, slot
  <2>5. UNCHANGED <<path, fd>> /\ Served' = Served
    BY <1>9 DEF RemoveNode, slot, Served
  <2> QED
    BY <1>0, <1>9, <2>1, <2>4, <2>5, KeepTrack DEF RemoveNode, Early
<1>10. ASSUME NEW n \in Nodes, open_g20_device(n), UNCHANGED node,
              fd' = fd /\ path' = path /\ fd # NoFd =>
                (Awaits(Delete(path)) => Awaits(Delete(path))')
       PROVE  Tracked'
  <2>1. \/ path' = n /\ fd' \in Fds /\ client'[fd'].dev = node[n]
        \/ UNCHANGED <<slot, client>>
    BY <1>1, <1>10, OpenKeeps DEF RestOK
  <2>2. CASE path' = n /\ fd' \in Fds /\ client'[fd'].dev = node[n]
    BY <1>10, <2>2, LoopAssumption DEF Tracked, Served
  <2>3. CASE UNCHANGED <<slot, client>>
    BY <1>0, <1>10, <2>3 DEF Tracked, Served, slot, Awaits, Delete
  <2> QED
    BY <2>1, <2>2, <2>3
<1>11. ASSUME NEW n \in Nodes, ScanNode(n)
       PROVE  Early' /\ Tracked'
  <2>1. Tracked'
    BY <1>10, <1>11 DEF ScanNode, Awaits
  <2> QED
    BY <1>11, <2>1 DEF ScanNode, Early
<1>12. CASE ReadNotify
  <2>1. CASE revents.notify
    <3>1. Fits(inq) \in 0 .. Len(inq)
      BY <1>1, LenProperties, LoopAssumption DEF Fits
    <3>2. /\ batch' = SubSeq(inq, 1, Fits(inq))
          /\ inq' = SubSeq(inq, Fits(inq) + 1, Len(inq))
      BY <1>12, <2>1 DEF ReadNotify
    <3>3. \A e : ~In(e, batch)
      BY <1>1, <1>12 DEF RestOK, ReadNotify, In
    <3>4. \A e : In(e, inq) => In(e, batch') \/ In(e, inq')
      BY <1>1, <3>1, <3>2, InSplit
    <3>5. \A e : Awaits(e) => Awaits(e)'
      BY <3>3, <3>4 DEF Awaits
    <3>6. UNCHANGED <<path, fd, node>> /\ Served' = Served
      BY <1>12 DEF ReadNotify, slot, kernel, Served
    <3> QED
      BY <1>0, <1>12, <3>5, <3>6, KeepTrack DEF ReadNotify, Early
  <2>2. CASE ~revents.notify
    BY <1>0, <1>a, <1>12, <2>2 DEF ReadNotify, Quiet, slot, kernel, Early
  <2> QED
    BY <2>1, <2>2
<1>13. CASE HandleNotice
  <2>1. Head(batch) \in Ops
    BY <1>1, <1>13, HeadTailProperties DEF HandleNotice
  <2>2. \A e : e # Head(batch) /\ Awaits(e) => Awaits(e)'
    BY <1>1, <1>13, InTail DEF HandleNotice, Awaits
  <2>3. CASE Head(batch).op = "CREATE"
    <3>1. Delete(path) # Head(batch)
      BY <2>3 DEF Delete
    <3>2. path' = path => (Awaits(Delete(path)) => Awaits(Delete(path))')
      BY <2>2, <3>1 DEF Delete
    <3>3. Tracked'
      BY <1>10, <1>13, <2>1, <2>3, <3>2 DEF HandleNotice, Ops
    <3> QED
      BY <1>13, <3>3 DEF HandleNotice, Early
  <2>4. CASE Head(batch).op # "CREATE" /\ path = Head(batch).node
    <3>1. fd' = NoFd
      BY <1>13, <2>4 DEF HandleNotice, close_g20_device
    <3> QED
      BY <3>1 DEF Early, Tracked
  <2>5. CASE Head(batch).op # "CREATE" /\ path # Head(batch).node
    <3>1. Delete(path) # Head(batch)
      BY <2>5 DEF Delete
    <3>2. UNCHANGED <<slot, client>>
      BY <1>13, <2>5 DEF HandleNotice
    <3>3. UNCHANGED <<node, pc>>
      BY <1>13 DEF HandleNotice
    <3>4. Awaits(Delete(path)) => Awaits(Delete(path))'
      BY <2>2, <3>1, <3>2 DEF Delete, slot
    <3> QED
      BY <1>0, <3>2, <3>3, <3>4 DEF Tracked, Served, slot, Early, Awaits, Delete
  <2> QED
    BY <2>3, <2>4, <2>5
<1>14. CASE ReadEvent
  <2>1. \A f \in Fds : client'[f].dev = client[f].dev
    BY <1>1, <1>14 DEF ReadEvent, SlotOK, Open
  <2>2. fd # NoFd => Served' = Served
    BY <1>2, <1>14, <2>1 DEF ReadEvent, Served, slot
  <2>3. \A e : Awaits(e) => Awaits(e)'
    BY <1>14 DEF ReadEvent, Awaits
  <2> QED
    BY <1>0, <1>14, <2>2, <2>3, KeepTrack DEF ReadEvent, slot, Early
<1>15. CASE \/ \E d \in Devices : HangUp(d)
            \/ BinderCommand \/ AddWatch \/ OpenDir \/ ScanEnd \/ Poll
            \/ HandleBinder \/ CheckSlot \/ ReadFails
            \/ UNCHANGED vars
  <2>1. Quiet
    BY <1>15 DEF Quiet, HangUp, BinderCommand, AddWatch, OpenDir, ScanEnd, Poll,
         HandleBinder, CheckSlot, ReadFails, vars, kernel, slot
  <2>2. UNCHANGED fd /\ (pc' \in {"start", "opendir"} => pc \in {"start", "opendir"})
    BY <1>15 DEF HangUp, BinderCommand, AddWatch, OpenDir, ScanEnd, Poll,
         HandleBinder, CheckSlot, ReadFails, vars, kernel, slot
  <2> QED
    BY <1>0, <1>a, <2>1, <2>2 DEF Early
<1> QED
  BY <1>4, <1>6, <1>7, <1>8, <1>9, <1>11, <1>12, <1>13, <1>14, <1>15
     DEF Next, Outside, Daemon

(* Whatever the kernel and ueventd do between two steps of the loop, a     *)
(* daemon holding a remote whose node was removed or taken over by another *)
(* device has the notice of the removal before it: the compare of paths at *)
(* line 103 will find it, and no dead descriptor stays in ufds for good.   *)
THEOREM NodeTracked == Spec => []TracksNode
BY NInvInit, NInvStep, TrackedSuffices, PTL DEF Spec
=============================================================================
