---------------------------- MODULE KeyPressProofs ----------------------------
(***************************************************************************)
(* Proofs about the button stream and the decoder, for any buttons, clock, *)
(* threshold and size of the kernel's buffer.                              *)
(*                                                                         *)
(* Only releases act (OnlyReleasesAct), late opens, chords and a clock     *)
(* that is set included, if the buffer does not overflow.  Two facts carry *)
(* it.  Every key event comes right behind the scan value of its button,   *)
(* so the decoder that tracks a button never meets the key event of        *)
(* another.  And the pushes and releases of a button alternate, from the   *)
(* push being timed through the buffer to the button itself, so what ends  *)
(* the timing of a push is that button's release.                          *)
(*                                                                         *)
(* Types hold (TypeOK), with overflows.                                    *)
(*                                                                         *)
(* The decoder gets back in step (InStepIsExact), with late opens and      *)
(* overflows: see Steady.                                                  *)
(*                                                                         *)
(* Where nothing goes wrong it does what Buttons promises, step by step;   *)
(* what the buffer owes is counted event by event (Debts).                 *)
(***************************************************************************)
EXTENDS KeyPress, SequenceTheorems, FiniteSetTheorems, WellFoundedInduction, TLAPS

Calm == "overflow" \notin hazards

(* Without an overflow SYN_DROPPED is never in the buffer.                 *)
MscEvent == [type : {"MSC"}, value : Keys]
KeyEvents ==
  [type : {"KEY"}, value : {0, 1}, time : Stamp, key : Keys, held : 0 .. MaxHold]
Item == MscEvent \cup KeyEvents \cup {Syn}

Slots == 1 .. Len(buf)

(* The key event in a slot; slot 0 stands for the push being timed.        *)
IsKey(e, k, v) == e.type = "KEY" /\ e.key = k /\ e.value = v
Pushed(i, k) ==
  IF i = 0 THEN press.usec # 0 /\ press.keycode = k ELSE IsKey(buf[i], k, 1)
Released(i, k) == IsKey(buf[i], k, 0)

(* A key event follows the scan value of its button.                       *)
Announced ==
  \A i \in Slots : buf[i].type = "KEY" =>
    IF i = 1 THEN lastMsc = buf[1].key ELSE buf[i - 1] = Msc(buf[i].key)

(* What was announced last is tracked, or nothing is.                      *)
Tracking == lastMsc # NoKey => press.keycode \in {lastMsc, NoKey}
Timing   == press.keycode = NoKey => press.usec = 0

(* Between two pushes of a button there is a release, and after the last   *)
(* push of one that is up.                                                 *)
Alternate ==
  \A k \in Keys : \A i, j \in 0 .. Len(buf) :
    i < j /\ Pushed(i, k) /\ Pushed(j, k) =>
      \E m \in Slots : i < m /\ m < j /\ Released(m, k)
Closing ==
  \A k \in Keys \ down : \A i \in 0 .. Len(buf) :
    Pushed(i, k) => \E m \in Slots : i < m /\ Released(m, k)

Types ==
  /\ now \in Stamp /\ down \subseteq Keys /\ held \in [Keys -> 0 .. MaxHold]
  /\ press \in Press /\ lastMsc \in Keys \cup {NoKey} /\ buf \in Seq(Item)
Order == Announced /\ Tracking /\ Timing /\ Alternate /\ Closing

(* The inductive invariant.                                                *)
IInv == Calm => Types /\ Order

-----------------------------------------------------------------------------
LEMMA Basics ==
  ASSUME NEW b \in Seq(Item)
  PROVE  /\ Len(b) \in Nat
         /\ \A i \in 1 .. Len(b) : b[i] \in Item
BY LenProperties, ElementOfSeq

(* What the events of an Item are.                                         *)
LEMMA Kinds ==
  ASSUME NEW e \in Item
  PROVE  /\ e.type = "MSC" => e.value \in Keys /\ e = Msc(e.value)
         /\ e.type = "KEY" => e.value \in {0, 1} /\ e.key \in Keys /\ e.time \in Stamp
         /\ e.type \in {"MSC", "KEY", "SYN"}
BY DEF Item, MscEvent, KeyEvents, Syn, Msc

LEMMA InitEstablishes == Init => IInv
<1> SUFFICES ASSUME Init
             PROVE  Types /\ Order
  BY DEF IInv
<1>1. /\ now \in Stamp /\ down \subseteq Keys /\ held = [k \in Keys |-> 0]
      /\ buf = <<>> /\ press = Idle /\ lastMsc = NoKey
  BY DEF Init
<1>2. buf \in Seq(Item) /\ Len(buf) = 0
  BY <1>1, EmptySeq
<1>3. Types
  BY <1>1, <1>2, TimeAssumption, StreamAssumption DEF Types, Press, Idle, Stamp
<1>4. Order
  BY <1>1, <1>2 DEF Order, Announced, Tracking, Timing, Alternate, Closing, Slots, Pushed, Idle
<1> QED
  BY <1>3, <1>4

-----------------------------------------------------------------------------
(* The buttons' side: events join the buffer's end.                        *)
LEMMA Joined ==
  ASSUME buf \in Seq(Item), NEW s \in Seq(Item), buf' = buf \o s
  PROVE  /\ buf' \in Seq(Item) /\ Len(buf) \in Nat /\ Len(s) \in Nat
         /\ Len(buf') = Len(buf) + Len(s)
         /\ \A i \in 1 .. Len(buf) : buf'[i] = buf[i]
         /\ \A i \in 1 .. Len(s) : buf'[Len(buf) + i] = s[i]
BY ConcatProperties, LenProperties

(* Events that announce their keys, push a button that is up and is down   *)
(* then, and release every button that comes up, keep the order.           *)
LEMMA JoinKeeps ==
  ASSUME Types, Order, NEW s \in Seq(Item), buf' = buf \o s,
         UNCHANGED <<press, lastMsc>>,
         \A i \in 1 .. Len(s) : s[i].type = "KEY" => i > 1 /\ s[i - 1] = Msc(s[i].key),
         \A i \in 1 .. Len(s) : \A l \in Keys : IsKey(s[i], l, 1) =>
           l \notin down /\ l \in down' /\ \A j \in 1 .. Len(s) : IsKey(s[j], l, 1) => i = j,
         \A l \in down \ down' : \E i \in 1 .. Len(s) : IsKey(s[i], l, 0)
  PROVE  buf' \in Seq(Item) /\ Order'
<1> DEFINE n == Len(buf)
           c == Len(s)
<1>1. /\ buf' \in Seq(Item) /\ n \in Nat /\ c \in Nat /\ Len(buf') = n + c
      /\ \A i \in 1 .. n : buf'[i] = buf[i]
      /\ \A i \in 1 .. c : buf'[n + i] = s[i]
  BY Joined DEF Types
<1> HIDE DEF n, c
<1>2. \A i \in 1 .. n + c : i \in 1 .. n \/ (i - n \in 1 .. c /\ buf'[i] = s[i - n])
  <2> SUFFICES ASSUME NEW i \in 1 .. n + c, i \notin 1 .. n
               PROVE  i - n \in 1 .. c /\ buf'[i] = s[i - n]
    OBVIOUS
  <2>1. i - n \in 1 .. c /\ n + (i - n) = i
    BY <1>1
  <2> QED
    BY <1>1, <2>1
<1>3. \A i \in 0 .. n + c : \A l \in Keys : Pushed(i, l)' =>
        \/ i \in 0 .. n /\ Pushed(i, l)
        \/ i - n \in 1 .. c /\ IsKey(s[i - n], l, 1)
  BY <1>1, <1>2 DEF Pushed, IsKey
<1>4. /\ \A i \in 1 .. n : \A l : Released(i, l) => Released(i, l)'
      /\ \A i \in 1 .. n + c : \A l :
           i - n \in 1 .. c /\ IsKey(s[i - n], l, 0) => Released(i, l)'
  <2>1. ASSUME NEW i \in 1 .. n, NEW l, Released(i, l)
        PROVE  Released(i, l)'
    BY <1>1, <2>1 DEF Released
  <2>2. ASSUME NEW i \in 1 .. n + c, NEW l, i - n \in 1 .. c, IsKey(s[i - n], l, 0)
        PROVE  Released(i, l)'
    <3> DEFINE h == i - n
    <3>1. h \in 1 .. c /\ n + h = i
      BY <1>1, <2>2
    <3>2. buf'[n + h] = s[h]
      BY <1>1, <3>1
    <3> QED
      BY <2>2, <3>1, <3>2 DEF Released
  <2> QED
    BY <2>1, <2>2
<1>5. Announced'
  <2> SUFFICES ASSUME NEW i \in 1 .. n + c, buf'[i].type = "KEY"
               PROVE  IF i = 1 THEN lastMsc = buf'[1].key ELSE buf'[i - 1] = Msc(buf'[i].key)
    BY <1>1 DEF Announced, Slots
  <2>1. CASE i \in 1 .. n
    <3>1. IF i = 1 THEN lastMsc = buf[1].key ELSE buf[i - 1] = Msc(buf[i].key)
      BY <1>1, <2>1 DEF Order, Announced, Slots, n
    <3>2. i # 1 => i - 1 \in 1 .. n
      BY <1>1, <2>1
    <3> QED
      BY <1>1, <2>1, <3>1, <3>2
  <2>2. CASE i - n \in 1 .. c /\ buf'[i] = s[i - n]
    <3>1. i - n > 1 /\ s[i - n - 1] = Msc(buf'[i].key)
      BY <2>2 DEF c
    <3>2. i - n - 1 \in 1 .. c /\ n + (i - n - 1) = i - 1
      BY <1>1, <2>2, <3>1
    <3>3. buf'[i - 1] = s[i - n - 1]
      BY <1>1, <3>2
    <3> QED
      BY <1>1, <2>2, <3>1, <3>3
  <2> QED
    BY <1>2, <2>1, <2>2
<1>6. Alternate'
  <2> SUFFICES ASSUME NEW l \in Keys, NEW i \in 0 .. n + c, NEW j \in 0 .. n + c,
                      i < j, Pushed(i, l)', Pushed(j, l)'
               PROVE  \E m \in 1 .. n + c : i < m /\ m < j /\ Released(m, l)'
    BY <1>1 DEF Alternate, Slots
  <2>1. CASE j \in 0 .. n /\ Pushed(j, l)
    <3>1. i \in 0 .. n /\ Pushed(i, l)
      BY <1>1, <1>3, <2>1
    <3>2. PICK m \in 1 .. n : i < m /\ m < j /\ Released(m, l)
      BY <2>1, <3>1 DEF Order, Alternate, Slots, n
    <3> QED
      BY <1>1, <1>4, <3>2
  <2>2. CASE j - n \in 1 .. c /\ IsKey(s[j - n], l, 1)
    <3>1. l \notin down /\ \A h \in 1 .. c : IsKey(s[h], l, 1) => j - n = h
      BY <2>2 DEF c
    <3>2. i \in 0 .. n /\ Pushed(i, l)
      BY <1>1, <1>3, <3>1
    <3>3. PICK m \in 1 .. n : i < m /\ Released(m, l)
      BY <3>1, <3>2 DEF Order, Closing, Slots, n
    <3>4. m \in 1 .. n + c /\ m < j
      BY <1>1, <2>2
    <3>5. Released(m, l)'
      BY <1>4, <3>3
    <3> QED
      BY <3>3, <3>4, <3>5
  <2> QED
    BY <1>3, <2>1, <2>2
<1>7. Closing'
  <2> SUFFICES ASSUME NEW l \in Keys, l \notin down', NEW i \in 0 .. n + c, Pushed(i, l)'
               PROVE  \E m \in 1 .. n + c : i < m /\ Released(m, l)'
    BY <1>1 DEF Closing, Slots
  <2>1. i \in 0 .. n /\ Pushed(i, l)
    BY <1>3 DEF c
  <2>2. CASE l \in down
    <3>1. PICK m \in 1 .. c : IsKey(s[m], l, 0)
      BY <2>2 DEF c
    <3>2. PICK h \in 1 .. n + c : h - n = m /\ i < h
      <4>1. n + m \in 1 .. n + c /\ (n + m) - n = m /\ i < n + m
        BY <1>1, <2>1
      <4> QED
        BY <4>1
    <3> QED
      BY <1>4, <3>1, <3>2
  <2>3. CASE l \notin down
    <3>1. PICK m \in 1 .. n : i < m /\ Released(m, l)
      BY <2>1, <2>3 DEF Order, Closing, Slots, n
    <3> QED
      BY <1>1, <1>4, <3>1
  <2> QED
    BY <2>2, <2>3
<1>8. Tracking' /\ Timing'
  BY DEF Order, Tracking, Timing
<1> QED
  BY <1>1, <1>5, <1>6, <1>7, <1>8 DEF Order

(* The remote's two kinds of report.                                       *)
LEMMA Reports ==
  ASSUME Types, NEW k \in Keys, NEW v
  PROVE  /\ Msc(k) \in Item /\ Syn \in Item
         /\ v \in {0, 1} => KeyEvent(k, v) \in Item
         /\ KeyEvent(k, v).type = "KEY" /\ KeyEvent(k, v).key = k
         /\ Msc(k).type # "KEY" /\ Syn.type # "KEY"
         /\ \A l, w : IsKey(KeyEvent(k, v), l, w) <=> l = k /\ w = v
BY DEF Types, Item, MscEvent, KeyEvents, KeyEvent, Msc, Syn, IsKey

LEMMA PacketJoins ==
  ASSUME Calm, Types, Order, NEW k \in Keys, NEW v \in {0, 1}, Emit(Packet(k, v)),
         v = 1 => k \notin down /\ down' = down \cup {k},
         v = 0 => down' = down \ {k},
         UNCHANGED <<press, lastMsc>>
  PROVE  buf' \in Seq(Item) /\ Order'
<1> DEFINE e == KeyEvent(k, v)
           s == <<Msc(k), e, Syn>>
<1>1. buf' = buf \o s
  BY DEF Emit, Calm, Packet
<1>2. /\ e \in Item /\ Msc(k) \in Item /\ Syn \in Item
      /\ e.type = "KEY" /\ e.key = k /\ Msc(k).type # "KEY" /\ Syn.type # "KEY"
      /\ \A l, w : IsKey(e, l, w) <=> l = k /\ w = v
  BY Reports
<1> HIDE DEF e
<1>3. /\ s \in Seq(Item) /\ Len(s) = 3
      /\ s[1] = Msc(k) /\ s[2] = e /\ s[3] = Syn
      /\ \A i \in 1 .. 3 : i = 1 \/ i = 2 \/ i = 3
  BY <1>2
<1> HIDE DEF s
<1>4. \A i \in 1 .. Len(s) : s[i].type = "KEY" => i > 1 /\ s[i - 1] = Msc(s[i].key)
  BY <1>2, <1>3
<1>5. \A i \in 1 .. Len(s) : \A l, w : IsKey(s[i], l, w) => i = 2 /\ l = k /\ w = v
  BY <1>2, <1>3 DEF IsKey
<1>6. \A i \in 1 .. Len(s) : \A l \in Keys : IsKey(s[i], l, 1) =>
        l \notin down /\ l \in down' /\ \A j \in 1 .. Len(s) : IsKey(s[j], l, 1) => i = j
  BY <1>5
<1>7. \A l \in down \ down' : \E i \in 1 .. Len(s) : IsKey(s[i], l, 0)
  <2>1. ASSUME NEW l \in down \ down' PROVE l = k /\ v = 0
    OBVIOUS
  <2> QED
    BY <1>2, <1>3, <2>1
<1> QED
  BY <1>1, <1>3, <1>4, <1>6, <1>7, JoinKeeps

LEMMA RollJoins ==
  ASSUME Calm, Types, Order, NEW k \in Keys, NEW l \in Keys, Emit(RollPacket(k, l)),
         k \in down, l \notin down, down' = (down \ {k}) \cup {l},
         UNCHANGED <<press, lastMsc>>
  PROVE  buf' \in Seq(Item) /\ Order'
<1> DEFINE e == KeyEvent(k, 0)
           f == KeyEvent(l, 1)
           s == <<Msc(k), e, Msc(l), f, Syn>>
<1>1. buf' = buf \o s
  BY DEF Emit, Calm, RollPacket
<1>2. /\ e \in Item /\ Msc(k) \in Item /\ Syn \in Item
      /\ e.type = "KEY" /\ e.key = k /\ Msc(k).type # "KEY" /\ Syn.type # "KEY"
      /\ \A h, w : IsKey(e, h, w) <=> h = k /\ w = 0
  BY Reports
<1>3. /\ f \in Item /\ Msc(l) \in Item
      /\ f.type = "KEY" /\ f.key = l /\ Msc(l).type # "KEY"
      /\ \A h, w : IsKey(f, h, w) <=> h = l /\ w = 1
  BY Reports
<1> HIDE DEF e, f
<1>4. /\ s \in Seq(Item) /\ Len(s) = 5
      /\ s[1] = Msc(k) /\ s[2] = e /\ s[3] = Msc(l) /\ s[4] = f /\ s[5] = Syn
      /\ \A i \in 1 .. 5 : i = 1 \/ i = 2 \/ i = 3 \/ i = 4 \/ i = 5
  BY <1>2, <1>3
<1> HIDE DEF s
<1>5. \A i \in 1 .. Len(s) : s[i].type = "KEY" => i > 1 /\ s[i - 1] = Msc(s[i].key)
  BY <1>2, <1>3, <1>4
<1>6. \A i \in 1 .. Len(s) : \A h : IsKey(s[i], h, 1) => i = 4 /\ h = l
  BY <1>2, <1>3, <1>4 DEF IsKey
<1>7. \A i \in 1 .. Len(s) : \A h \in Keys : IsKey(s[i], h, 1) =>
        h \notin down /\ h \in down' /\ \A j \in 1 .. Len(s) : IsKey(s[j], h, 1) => i = j
  BY <1>6
<1>8. \A h \in down \ down' : \E i \in 1 .. Len(s) : IsKey(s[i], h, 0)
  BY <1>2, <1>4
<1> QED
  BY <1>1, <1>4, <1>5, <1>7, <1>8, JoinKeeps

-----------------------------------------------------------------------------
(* The daemon's side.  What the decoder does with the first event.         *)
LEMMA Decoded ==
  ASSUME Types, Order, buf # <<>>, press' = Decode(press, Head(buf)),
         lastMsc' = IF Head(buf).type = "MSC" THEN Head(buf).value ELSE NoKey
  PROVE  /\ press' \in Press /\ lastMsc' \in Keys \cup {NoKey}
         /\ Tracking' /\ Timing'
         /\ \A k \in Keys : Pushed(0, k)' =>
              \/ Pushed(0, k) /\ Head(buf).type # "KEY"
              \/ Pushed(1, k)
<1> DEFINE e == Head(buf)
<1>1. /\ e \in Item /\ e = buf[1] /\ 1 \in Slots
      /\ press \in Press /\ press.keycode \in Keys \cup {NoKey} /\ press.usec \in Stamp
      /\ 0 \in Stamp /\ NoKey \notin Keys
  BY HeadTailProperties, EmptySeq, TimeAssumption, KeysAssumption DEF Types, Press, Stamp, Slots
<1>2. e.type = "KEY" => lastMsc = e.key
  BY <1>1 DEF Order, Announced
<1> HIDE DEF e
<1>3. CASE e.type = "MSC"
  <2>1. press' = OnMsc(press, e.value) /\ lastMsc' = e.value /\ e.value \in Keys
    BY <1>1, <1>3, Kinds DEF Decode, e
  <2>2. \/ press' = [press EXCEPT !.keycode = e.value] /\ press.keycode = NoKey
        \/ press' = Idle
        \/ press' = press /\ press.keycode = e.value
    BY <2>1 DEF OnMsc
  <2>3. press' \in Press /\ press'.keycode \in {e.value, NoKey}
    BY <1>1, <2>1, <2>2 DEF Press, Idle
  <2>4. press'.usec # 0 => press' = press
    BY <1>1, <2>2 DEF Order, Timing, Idle, Press
  <2>5. Timing'
    BY <1>1, <2>2 DEF Order, Timing, Idle, Press
  <2> QED
    BY <1>1, <1>3, <2>1, <2>3, <2>4, <2>5 DEF Tracking, Pushed, e
<1>4. CASE e.type = "KEY"
  <2>1. press' = OnKey(press, e) /\ lastMsc' = NoKey
    BY <1>4 DEF Decode, e
  <2>2. e.key \in Keys /\ e.value \in {0, 1} /\ e.time \in Stamp
    BY <1>1, <1>4, Kinds
  <2>3. \/ press' = press /\ press.usec = 0
        \/ press' = [press EXCEPT !.usec = e.time] /\ e.value = 1 /\ press.keycode # NoKey
        \/ press' = Idle
    BY <1>1, <1>4, <2>1, <2>2 DEF OnKey, StartsTiming, Dispatches, Order, Timing
  <2>4. press' \in Press /\ Timing'
    BY <1>1, <2>2, <2>3 DEF Press, Idle, Timing, Order
  <2>5. ASSUME NEW k \in Keys, Pushed(0, k)'
        PROVE  Pushed(1, k)
    <3>1. press'.usec # 0 /\ press'.keycode = k
      BY <2>5 DEF Pushed
    <3>2. e.value = 1 /\ press.keycode = k
      BY <1>1, <2>3, <3>1 DEF Idle, Press
    <3>3. e.key = k
      BY <1>1, <1>2, <1>4, <2>2, <3>2 DEF Order, Tracking
    <3> QED
      BY <1>1, <1>4, <3>2, <3>3 DEF Pushed, IsKey
  <2> QED
    BY <2>1, <2>4, <2>5 DEF Tracking
<1>5. CASE e.type \notin {"MSC", "KEY"}
  <2>1. press' = press /\ lastMsc' = NoKey
    BY <1>5 DEF Decode, e
  <2> QED
    BY <1>1, <1>5, <2>1 DEF Tracking, Timing, Order, Pushed, e
<1> QED
  BY <1>3, <1>4, <1>5

LEMMA ReadKeeps ==
  ASSUME Types, Order, ReadEvent
  PROVE  Types' /\ Order'
<1> DEFINE n == Len(buf)
<1>1. /\ buf # <<>> /\ buf' = Tail(buf) /\ press' = Decode(press, Head(buf))
      /\ lastMsc' = IF Head(buf).type = "MSC" THEN Head(buf).value ELSE NoKey
      /\ UNCHANGED <<now, down, held>>
  BY DEF ReadEvent
<1>2. /\ press' \in Press /\ lastMsc' \in Keys \cup {NoKey} /\ Tracking' /\ Timing'
      /\ \A k \in Keys : Pushed(0, k)' =>
           (Pushed(0, k) /\ Head(buf).type # "KEY") \/ Pushed(1, k)
  BY <1>1, Decoded
<1>3. /\ buf' \in Seq(Item) /\ n \in Nat \ {0} /\ Len(buf') = n - 1
      /\ Head(buf) = buf[1] /\ Head(buf) \in Item
      /\ \A i \in 1 .. n - 1 : buf'[i] = buf[i + 1]
  BY <1>1, HeadTailProperties, EmptySeq, LenProperties DEF Types
<1> HIDE DEF n
<1>4. \A i \in 1 .. n - 1 : \A k : /\ Pushed(i, k)' => Pushed(i + 1, k)
                                   /\ Released(i + 1, k) => Released(i, k)'
  BY <1>3 DEF Pushed, Released, IsKey
<1>5. Announced'
  <2> SUFFICES ASSUME NEW i \in 1 .. n - 1, buf'[i].type = "KEY"
               PROVE  IF i = 1 THEN lastMsc' = buf'[1].key ELSE buf'[i - 1] = Msc(buf'[i].key)
    BY <1>3 DEF Announced, Slots
  <2>1. buf'[i] = buf[i + 1] /\ i + 1 \in 1 .. n /\ i + 1 # 1 /\ i + 1 - 1 = i
    BY <1>3
  <2>2. buf[i] = Msc(buf'[i].key)
    BY <2>1 DEF Order, Announced, Slots, n
  <2>3. CASE i = 1
    BY <1>1, <1>3, <2>2, <2>3 DEF Msc
  <2>4. CASE i # 1
    <3>1. i - 1 \in 1 .. n - 1 /\ i - 1 + 1 = i
      BY <1>3, <2>4
    <3> QED
      BY <1>3, <2>2, <2>4, <3>1
  <2> QED
    BY <2>3, <2>4
<1>6. ASSUME NEW k \in Keys, NEW i \in 0 .. n - 1, Pushed(i, k)'
      PROVE  \E h \in {i, i + 1} : /\ h \in 0 .. n /\ Pushed(h, k)
                                   /\ \A m \in 1 .. n : h < m /\ Released(m, k) =>
                                        m - 1 \in 1 .. n - 1 /\ i < m - 1 /\ Released(m - 1, k)'
  <2>1. CASE i # 0
    <3>1. i + 1 \in 0 .. n /\ Pushed(i + 1, k)
      BY <1>3, <1>4, <1>6, <2>1
    <3>2. ASSUME NEW m \in 1 .. n, i + 1 < m, Released(m, k)
          PROVE  m - 1 \in 1 .. n - 1 /\ i < m - 1 /\ Released(m - 1, k)'
      <4>1. m - 1 \in 1 .. n - 1 /\ i < m - 1 /\ m - 1 + 1 = m
        BY <1>3, <3>2
      <4> QED
        BY <1>4, <3>2, <4>1
    <3> QED
      BY <3>1, <3>2
  <2>2. CASE i = 0 /\ Pushed(1, k)
    <3>1. ASSUME NEW m \in 1 .. n, 1 < m, Released(m, k)
          PROVE  m - 1 \in 1 .. n - 1 /\ i < m - 1 /\ Released(m - 1, k)'
      <4>1. m - 1 \in 1 .. n - 1 /\ i < m - 1 /\ m - 1 + 1 = m
        BY <1>3, <2>2, <3>1
      <4> QED
        BY <1>4, <3>1, <4>1
    <3> QED
      BY <1>3, <2>2, <3>1
  <2>3. CASE i = 0 /\ Pushed(0, k) /\ Head(buf).type # "KEY"
    <3>1. ASSUME NEW m \in 1 .. n, 0 < m, Released(m, k)
          PROVE  m - 1 \in 1 .. n - 1 /\ i < m - 1 /\ Released(m - 1, k)'
      <4>1. m # 1
        BY <1>3, <2>3, <3>1 DEF Released, IsKey
      <4>2. m - 1 \in 1 .. n - 1 /\ i < m - 1 /\ m - 1 + 1 = m
        BY <1>3, <2>3, <3>1, <4>1
      <4> QED
        BY <1>4, <3>1, <4>2
    <3> QED
      BY <1>3, <2>3, <3>1
  <2> QED
    BY <1>2, <1>6, <2>1, <2>2, <2>3
<1>7. Alternate'
  <2> SUFFICES ASSUME NEW k \in Keys, NEW i \in 0 .. n - 1, NEW j \in 0 .. n - 1,
                      i < j, Pushed(i, k)', Pushed(j, k)'
               PROVE  \E m \in 1 .. n - 1 : i < m /\ m < j /\ Released(m, k)'
    BY <1>3 DEF Alternate, Slots
  <2>1. PICK h \in {i, i + 1} :
          /\ h \in 0 .. n /\ Pushed(h, k)
          /\ \A m \in 1 .. n : h < m /\ Released(m, k) =>
               m - 1 \in 1 .. n - 1 /\ i < m - 1 /\ Released(m - 1, k)'
    BY <1>6
  <2>2. j + 1 \in 0 .. n /\ Pushed(j + 1, k) /\ h < j + 1
    BY <1>3, <1>4
  <2>3. PICK m \in 1 .. n : h < m /\ m < j + 1 /\ Released(m, k)
    BY <2>1, <2>2 DEF Order, Alternate, Slots, n
  <2>4. m - 1 < j
    BY <2>3
  <2> QED
    BY <2>1, <2>3, <2>4
<1>8. Closing'
  <2> SUFFICES ASSUME NEW k \in Keys, k \notin down, NEW i \in 0 .. n - 1, Pushed(i, k)'
               PROVE  \E m \in 1 .. n - 1 : i < m /\ Released(m, k)'
    BY <1>1, <1>3 DEF Closing, Slots
  <2>1. PICK h \in {i, i + 1} :
          /\ h \in 0 .. n /\ Pushed(h, k)
          /\ \A m \in 1 .. n : h < m /\ Released(m, k) =>
               m - 1 \in 1 .. n - 1 /\ i < m - 1 /\ Released(m - 1, k)'
    BY <1>6
  <2>2. PICK m \in 1 .. n : h < m /\ Released(m, k)
    BY <2>1 DEF Order, Closing, Slots, n
  <2> QED
    BY <2>1, <2>2
<1> QED
  BY <1>1, <1>2, <1>3, <1>5, <1>7, <1>8 DEF Types, Order

-----------------------------------------------------------------------------
LEMMA StepPreserves == IInv /\ [Next]_vars => IInv'
<1> SUFFICES ASSUME IInv, [Next]_vars, Calm'
             PROVE  Types' /\ Order'
  BY DEF IInv
<1>1. Calm
  BY DEF vars, Next, Tick, ClockSet, KeyDown, KeyUp, KeyRoll, ReadEvent, Calm
<1>2. Types /\ Order
  BY <1>1 DEF IInv
<1>3. ASSUME UNCHANGED <<buf, press, lastMsc, down>>
      PROVE  Order'
  BY <1>2, <1>3 DEF Order, Announced, Tracking, Timing, Alternate, Closing, Slots,
                    Pushed, Released
<1>4. CASE UNCHANGED vars
  BY <1>2, <1>3, <1>4 DEF vars, Types
<1>5. CASE Tick
  <2>1. /\ UNCHANGED <<buf, press, lastMsc, down>>
        /\ now' = IF now = Modulus - 1 THEN 0 ELSE now + 1
        /\ held' = [k \in Keys |-> IF k \in down THEN held[k] + 1 ELSE held[k]]
        /\ \A k \in Keys : held'[k] <= MaxHold
    BY <1>5 DEF Tick
  <2>2. now' \in Stamp
    BY <1>2, <2>1, TimeAssumption DEF Types, Stamp
  <2>3. held' \in [Keys -> 0 .. MaxHold]
    <3>1. \A k \in Keys : held'[k] \in 0 .. MaxHold
      BY <1>2, <2>1, StreamAssumption DEF Types
    <3> QED
      BY <2>1, <3>1
  <2> QED
    BY <1>2, <1>3, <2>1, <2>2, <2>3 DEF Types
<1>6. CASE ClockSet
  BY <1>2, <1>3, <1>6 DEF ClockSet, Types
<1>7. ASSUME NEW k \in Keys, KeyDown(k)
      PROVE  Types' /\ Order'
  <2>1. buf' \in Seq(Item) /\ Order'
    BY <1>1, <1>2, <1>7, PacketJoins DEF KeyDown
  <2> QED
    BY <1>2, <1>7, <2>1 DEF KeyDown, Types
<1>8. ASSUME NEW k \in Keys, KeyUp(k)
      PROVE  Types' /\ Order'
  <2>1. buf' \in Seq(Item) /\ Order'
    BY <1>1, <1>2, <1>8, PacketJoins DEF KeyUp
  <2> QED
    BY <1>2, <1>8, <2>1, StreamAssumption DEF KeyUp, Types
<1>9. ASSUME NEW k \in Keys, NEW l \in Keys, KeyRoll(k, l)
      PROVE  Types' /\ Order'
  <2>1. buf' \in Seq(Item) /\ Order'
    BY <1>1, <1>2, <1>9, RollJoins DEF KeyRoll
  <2> QED
    BY <1>2, <1>9, <2>1, StreamAssumption DEF KeyRoll, Types
<1>10. CASE ReadEvent
  BY <1>2, <1>10, ReadKeeps
<1> QED
  BY <1>4, <1>5, <1>6, <1>7, <1>8, <1>9, <1>10 DEF Next

(* An event the switch is entered with is the release of the button that   *)
(* is tracked.                                                             *)
LEMMA ActsOnRelease ==
  ASSUME Types, Order, buf # <<>>, Dispatches(press, Head(buf))
  PROVE  /\ IsRelease(Head(buf))
         /\ press.keycode = Head(buf).key
<1> DEFINE e == Head(buf)
<1>1. /\ e \in Item /\ e = buf[1] /\ 1 \in Slots /\ Len(buf) \in Nat
      /\ e.type = "KEY" /\ press.keycode # NoKey /\ (press.usec = 0 => e.value = 0)
  BY HeadTailProperties, EmptySeq, LenProperties DEF Types, Dispatches, Slots
<1>2. e.key \in Keys /\ e.value \in {0, 1}
  BY <1>1, Kinds
<1>3. press.keycode = e.key
  BY <1>1, <1>2, KeysAssumption DEF Order, Announced, Tracking
<1>4. e.value # 1
  <2> SUFFICES ASSUME e.value = 1
               PROVE  FALSE
    OBVIOUS
  <2>1. Pushed(0, e.key) /\ Pushed(1, e.key)
    BY <1>1, <1>3 DEF Pushed, IsKey
  <2>2. 0 \in 0 .. Len(buf) /\ 1 \in 0 .. Len(buf)
    BY <1>1 DEF Slots
  <2>3. \E m \in Slots : 0 < m /\ m < 1
    BY <1>2, <2>1, <2>2 DEF Order, Alternate
  <2> QED
    BY <1>1, <2>3 DEF Slots
<1> QED
  BY <1>1, <1>2, <1>3, <1>4 DEF IsRelease

(* Buttons held together, a clock that is set and a late open may cost a   *)
(* release or its mode, but the switch is entered by releases only, each   *)
(* in the name of its own button, for any number of buttons and any clock. *)
THEOREM OnlyReleases == Spec => OnlyReleasesAct
<1> DEFINE A == ReadEvent /\ Dispatches(press, Head(buf)) /\ "overflow" \notin hazards =>
                  IsRelease(Head(buf)) /\ acted'.key = Head(buf).key
<1>1. IInv => A
  <2> SUFFICES ASSUME IInv, ReadEvent, Dispatches(press, Head(buf)), "overflow" \notin hazards
               PROVE  IsRelease(Head(buf)) /\ acted'.key = Head(buf).key
    OBVIOUS
  <2>1. Types /\ Order /\ buf # <<>> /\ acted' = Dispatched(press, Head(buf))
    BY DEF IInv, Calm, ReadEvent
  <2>2. acted'.key = press.keycode
    BY <2>1 DEF Dispatched
  <2> QED
    BY <2>1, <2>2, ActsOnRelease
<1>2. IInv => [A]_vars
  BY <1>1
<1>3. IInv /\ [Next]_vars => IInv'
  BY StepPreserves
<1> QED
  BY <1>2, <1>3, InitEstablishes, PTL DEF Spec, OnlyReleasesAct

-----------------------------------------------------------------------------
(* Type correctness, with overflows.                                       *)

(* What the events are.                                                    *)
LEMMA EventKinds ==
  ASSUME NEW e \in Event
  PROVE  /\ e.type \in {"MSC", "KEY", "SYN", "SYN_DROPPED"}
         /\ e.type = "MSC" => e.value \in Keys /\ e = Msc(e.value)
         /\ e.type = "KEY" => /\ e.value \in {0, 1} /\ e.key \in Keys
                              /\ e.time \in Stamp /\ e.held \in 0 .. MaxHold
         /\ e.type = "SYN_DROPPED" <=> e = Dropped
BY DEF Event, Syn, Msc, Dropped

LEMMA ReportTyped ==
  ASSUME NEW k \in Keys, NEW v \in {0, 1}, now \in Stamp, held \in [Keys -> 0 .. MaxHold]
  PROVE  Msc(k) \in Event /\ KeyEvent(k, v) \in Event /\ Syn \in Event
BY DEF Event, KeyEvent, Msc

(* Where the events of a report go: all behind the others, or the last of  *)
(* them behind the mark of the loss.                                       *)
LEMMA Emitted ==
  ASSUME buf \in Seq(Event), Len(buf) < BufSize, NEW s \in Seq(Event), Emit(s)
  PROVE  /\ buf' \in Seq(Event)
         /\ \/ /\ Fits(s) /\ Len(buf') = Len(buf) + Len(s)
               /\ \A i \in 1 .. Len(buf) : buf'[i] = buf[i]
               /\ \A i \in 1 .. Len(s) : buf'[Len(buf) + i] = s[i]
            \/ /\ ~Fits(s) /\ "overflow" \in hazards
               /\ \E m \in 1 .. Len(s) :
                    /\ Len(buf') = Len(s) - m + 2 /\ buf'[1] = Dropped
                    /\ \A i \in m .. Len(s) : buf'[i - m + 2] = s[i]
<1> DEFINE n == Len(buf)
           c == Len(s)
           m == BufSize - n
<1>1. n \in Nat /\ c \in Nat /\ BufSize \in Nat
  BY LenProperties, StreamAssumption
<1>2. CASE Fits(s) /\ buf' = buf \o s
  <2>1. /\ buf' \in Seq(Event) /\ Len(buf') = n + c
        /\ \A i \in 1 .. n + c : buf'[i] = IF i <= n THEN buf[i] ELSE s[i - n]
    BY <1>2, ConcatProperties
  <2>2. \A i \in 1 .. n : buf'[i] = buf[i]
    BY <1>1, <2>1
  <2>3. ASSUME NEW i \in 1 .. c PROVE buf'[n + i] = s[i]
    <3>1. n + i \in 1 .. n + c /\ ~(n + i <= n) /\ n + i - n = i
      BY <1>1
    <3> QED
      BY <2>1, <3>1
  <2> QED
    BY <1>2, <2>1, <2>2, <2>3
<1>3. CASE "overflow" \in hazards /\ ~Fits(s) /\ buf' = <<Dropped>> \o Newest(s)
  <2>1. m \in 1 .. c
    BY <1>1, <1>3 DEF Fits
  <2>2. \A i \in m .. c : s[i] \in Event
    BY <1>1, <2>1, ElementOfSeq
  <2>3. /\ Newest(s) \in Seq(Event) /\ Len(Newest(s)) = c - m + 1
        /\ \A i \in 1 .. c - m + 1 : Newest(s)[i] = s[m + i - 1]
    <3> HIDE DEF m
    <3>1. Newest(s) = SubSeq(s, m, c)
      BY DEF Newest, m
    <3>2. m \in Int /\ c \in Int /\ m <= c
      BY <1>1, <2>1
    <3> HIDE DEF c
    <3> QED
      BY <2>2, <3>1, <3>2, SubSeqProperties
  <2>4. <<Dropped>> \in Seq(Event) /\ Len(<<Dropped>>) = 1 /\ <<Dropped>>[1] = Dropped
    BY DEF Event
  <2>5. /\ buf' \in Seq(Event) /\ Len(buf') = 1 + (c - m + 1)
        /\ \A i \in 1 .. 1 + (c - m + 1) :
             buf'[i] = IF i <= 1 THEN <<Dropped>>[i] ELSE Newest(s)[i - 1]
    BY <1>3, <2>3, <2>4, ConcatProperties
  <2> HIDE DEF m, c
  <2>6. buf'[1] = Dropped
    BY <1>1, <2>1, <2>4, <2>5
  <2>7. ASSUME NEW i \in m .. c PROVE buf'[i - m + 2] = s[i]
    <3>1. /\ i - m + 2 \in 1 .. 1 + (c - m + 1) /\ ~(i - m + 2 <= 1)
          /\ i - m + 2 - 1 = i - m + 1 /\ i - m + 1 \in 1 .. c - m + 1 /\ m + (i - m + 1) - 1 = i
      BY <1>1, <2>1
    <3>2. buf'[i - m + 2] = Newest(s)[i - m + 1]
      BY <1>1, <2>1, <2>5, <3>1
    <3>3. Newest(s)[i - m + 1] = s[m + (i - m + 1) - 1]
      BY <1>1, <2>1, <2>3, <3>1
    <3> QED
      BY <3>1, <3>2, <3>3
  <2>8. Len(buf') = c - m + 2
    BY <1>1, <2>1, <2>5
  <2> QED
    BY <1>3, <2>1, <2>5, <2>6, <2>7, <2>8 DEF c
<1> QED
  BY <1>2, <1>3 DEF Emit

LEMMA EmitFits ==
  ASSUME buf \in Seq(Event), Len(buf) < BufSize, NEW s \in Seq(Event), Len(s) <= 5, Emit(s)
  PROVE  buf' \in Seq(Event) /\ Len(buf') < BufSize
<1>1. Len(buf) \in Nat /\ Len(s) \in Nat /\ BufSize \in Nat /\ BufSize > 6
  BY LenProperties, StreamAssumption
<1> QED
  BY <1>1, Emitted DEF Fits

LEMMA PacketTyped ==
  ASSUME TypeOK, NEW k \in Keys, NEW v \in {0, 1}
  PROVE  Packet(k, v) \in Seq(Event) /\ Len(Packet(k, v)) <= 5
BY ReportTyped DEF Packet, TypeOK

LEMMA RollPacketTyped ==
  ASSUME TypeOK, NEW k \in Keys, NEW l \in Keys
  PROVE  RollPacket(k, l) \in Seq(Event) /\ Len(RollPacket(k, l)) <= 5
BY ReportTyped DEF RollPacket, TypeOK

LEMMA ReadTyped == TypeOK /\ ReadEvent => TypeOK'
<1> SUFFICES ASSUME TypeOK, ReadEvent
             PROVE  TypeOK'
  OBVIOUS
<1> DEFINE e == Head(buf)
<1>1. /\ buf # <<>> /\ buf' = Tail(buf) /\ press' = Decode(press, e)
      /\ acted' = IF Dispatches(press, e) THEN Dispatched(press, e) ELSE acted
      /\ lastMsc' = IF e.type = "MSC" THEN e.value ELSE NoKey
      /\ synced' = \/ IsRelease(e) /\ lastMsc = e.key /\ e.type # "SYN_DROPPED"
                   \/ synced /\ e.type # "SYN_DROPPED"
      /\ UNCHANGED <<hazards, now, down, held>>
  <2>1. /\ buf # <<>> /\ buf' = Tail(buf) /\ press' = Decode(press, e)
        /\ acted' = IF Dispatches(press, e) THEN Dispatched(press, e) ELSE acted
        /\ lastMsc' = IF e.type = "MSC" THEN e.value ELSE NoKey
        /\ UNCHANGED <<hazards, now, down, held>>
    BY DEF ReadEvent
  <2>2. synced' = CASE e.type = "SYN_DROPPED"              -> FALSE
                    [] IsRelease(e) /\ lastMsc = e.key     -> TRUE
                    [] OTHER                               -> synced
    BY DEF ReadEvent
  <2>3. synced \in BOOLEAN
    BY DEF TypeOK
  <2>4. synced' = \/ IsRelease(e) /\ lastMsc = e.key /\ e.type # "SYN_DROPPED"
                  \/ synced /\ e.type # "SYN_DROPPED"
    BY <2>2, <2>3, Zenon DEF IsRelease
  <2> QED
    BY <2>1, <2>4
<1>2. /\ e \in Event /\ buf' \in Seq(Event) /\ Len(buf') = Len(buf) - 1 /\ Len(buf) \in Nat
      /\ Len(buf) < BufSize /\ BufSize \in Nat
  BY <1>1, HeadTailProperties, LenProperties, StreamAssumption DEF TypeOK
<1>3. /\ press.keycode \in Keys \cup {NoKey} /\ press.usec \in Stamp /\ 0 \in Stamp
      /\ press = [keycode |-> press.keycode, usec |-> press.usec]
      /\ press.keycode = NoKey => press.usec = 0
  BY TimeAssumption DEF TypeOK, Press, Stamp
<1> HIDE DEF e
<1>4. press' \in Press /\ (press'.keycode = NoKey => press'.usec = 0)
  <2>1. CASE e.type = "MSC"
    BY <1>1, <1>2, <1>3, <2>1, EventKinds, KeysAssumption DEF Decode, OnMsc, Press, Idle
  <2>2. CASE e.type = "KEY"
    <3>1. e.time \in Stamp
      BY <1>2, <2>2, EventKinds
    <3> QED
      BY <1>1, <1>3, <2>2, <3>1 DEF Decode, OnKey, Press, Idle
  <2>3. CASE e.type \notin {"MSC", "KEY"}
    BY <1>1, <2>3 DEF Decode, TypeOK
  <2> QED
    BY <2>1, <2>2, <2>3
<1>5. acted' \in [key : Keys \cup {NoKey}, mode : Modes]
  BY <1>1, <1>3 DEF Dispatches, Dispatched, PressMode, Modes, TypeOK
<1>6. lastMsc' \in Keys \cup {NoKey}
  BY <1>1, <1>2, EventKinds
<1>7. synced' \in BOOLEAN
  BY <1>1
<1> QED
  BY <1>1, <1>2, <1>4, <1>5, <1>6, <1>7 DEF TypeOK

LEMMA TypePreserved == TypeOK /\ [Next]_vars => TypeOK'
<1> SUFFICES ASSUME TypeOK, [Next]_vars
             PROVE  TypeOK'
  OBVIOUS
<1>1. CASE UNCHANGED vars
  BY <1>1 DEF vars, TypeOK
<1>2. CASE Tick
  <2>1. /\ UNCHANGED <<hazards, down, buf, press, acted, lastMsc, synced>>
        /\ now' = IF now = Modulus - 1 THEN 0 ELSE now + 1
        /\ held' = [k \in Keys |-> IF k \in down THEN held[k] + 1 ELSE held[k]]
        /\ \A k \in Keys : held'[k] <= MaxHold
    BY <1>2 DEF Tick
  <2>2. now' \in Stamp
    BY <2>1, TimeAssumption DEF TypeOK, Stamp
  <2>3. held' \in [Keys -> 0 .. MaxHold]
    <3>1. \A k \in Keys : held'[k] \in 0 .. MaxHold
      BY <2>1, StreamAssumption DEF TypeOK
    <3> QED
      BY <2>1, <3>1
  <2> QED
    BY <2>1, <2>2, <2>3 DEF TypeOK
<1>3. CASE ClockSet
  BY <1>3 DEF ClockSet, TypeOK
<1>4. ASSUME NEW k \in Keys, KeyDown(k)
      PROVE  TypeOK'
  <2>1. Packet(k, 1) \in Seq(Event) /\ Len(Packet(k, 1)) <= 5
    BY PacketTyped
  <2>2. PICK s \in Seq(Event) : s = Packet(k, 1) /\ Len(s) <= 5
    BY <2>1
  <2>3. buf' \in Seq(Event) /\ Len(buf') < BufSize
    BY <1>4, <2>2, EmitFits DEF KeyDown, TypeOK
  <2> QED
    BY <1>4, <2>3 DEF KeyDown, TypeOK
<1>5. ASSUME NEW k \in Keys, KeyUp(k)
      PROVE  TypeOK'
  <2>1. Packet(k, 0) \in Seq(Event) /\ Len(Packet(k, 0)) <= 5
    BY PacketTyped
  <2>2. PICK s \in Seq(Event) : s = Packet(k, 0) /\ Len(s) <= 5
    BY <2>1
  <2>3. buf' \in Seq(Event) /\ Len(buf') < BufSize
    BY <1>5, <2>2, EmitFits DEF KeyUp, TypeOK
  <2> QED
    BY <1>5, <2>3, StreamAssumption DEF KeyUp, TypeOK
<1>6. ASSUME NEW k \in Keys, NEW l \in Keys, KeyRoll(k, l)
      PROVE  TypeOK'
  <2>1. RollPacket(k, l) \in Seq(Event) /\ Len(RollPacket(k, l)) <= 5
    BY RollPacketTyped
  <2>2. PICK s \in Seq(Event) : s = RollPacket(k, l) /\ Len(s) <= 5
    BY <2>1
  <2>3. buf' \in Seq(Event) /\ Len(buf') < BufSize
    BY <1>6, <2>2, EmitFits DEF KeyRoll, TypeOK
  <2> QED
    BY <1>6, <2>3, StreamAssumption DEF KeyRoll, TypeOK
<1>7. CASE ReadEvent
  BY <1>7, ReadTyped
<1> QED
  BY <1>1, <1>2, <1>3, <1>4, <1>5, <1>6, <1>7 DEF Next

(* The stream and the decoder stay in range; the buffer, overflows         *)
(* included, always keeps one slot of its size free, and no time is kept   *)
(* without a button: with any buttons, clock and buffer.                   *)
THEOREM TypeCorrect == Spec => []TypeOK
<1>1. Init => TypeOK
  <2> SUFFICES ASSUME Init
               PROVE  TypeOK
    OBVIOUS
  <2>1. /\ hazards \in Streams /\ now \in Stamp /\ down \subseteq Keys
        /\ lastMsc = NoKey /\ synced \in BOOLEAN /\ buf = <<>>
    BY DEF Init
  <2>2. buf \in Seq(Event) /\ Len(buf) < BufSize
    BY <2>1, StreamAssumption
  <2>3. press \in Press /\ (press.keycode = NoKey => press.usec = 0)
    BY TimeAssumption DEF Init, Press, Idle, Stamp
  <2>4. held \in [Keys -> 0 .. MaxHold] /\ acted \in [key : Keys \cup {NoKey}, mode : Modes]
    BY StreamAssumption DEF Init, Modes
  <2> QED
    BY <2>1, <2>2, <2>3, <2>4 DEF TypeOK
<1> QED
  BY <1>1, TypePreserved, PTL DEF Spec

-----------------------------------------------------------------------------
(* Back in step.  Where events may be lost but one button is held at a     *)
(* time and the clock is left alone, every key event in the buffer follows *)
(* from the one before it, and the one the buttons will cause next follows *)
(* from the last; once the decoder has read a whole release it stands at   *)
(* the right place of that chain.                                          *)

Plain == hazards \subseteq {"late", "overflow"}

(* The key event the buttons will cause next, if that is now; of a push,   *)
(* only what it is.                                                        *)
Upcoming ==
  IF down = {} THEN [type |-> "KEY", value |-> 1]
  ELSE KeyEvent(CHOOSE k \in down : TRUE, 0)
Coming(j) == IF j \in Slots THEN buf[j] ELSE Upcoming

(* No key event between two slots.                                         *)
Quiet(i, j) == \A m \in Slots : i < m /\ m < j => buf[m].type # "KEY"

(* Key event f is what comes after e: the release of the button pushed,    *)
(* stamped as much later as it was held, or the next push.                 *)
Follows(e, f) ==
  IF e.value = 1 THEN f.value = 0 /\ f.key = e.key /\ Elapsed(f.time, e.time) = f.held
  ELSE f.value = 1

(* Key event f is what the decoder is ready for.                           *)
Starts(f) ==
  IF f.value = 1 THEN press.usec = 0 /\ press.keycode = lastMsc
  ELSE press.keycode = f.key /\ Elapsed(f.time, press.usec) = f.held

Chained ==
  \A i \in Slots, j \in 1 .. Len(buf) + 1 :
    i < j /\ buf[i].type = "KEY" /\ Coming(j).type = "KEY" /\ Quiet(i, j) =>
      Follows(buf[i], Coming(j))
Leads ==
  synced /\ (buf # <<>> => buf[1] # Dropped) =>
    \A j \in 1 .. Len(buf) + 1 : Coming(j).type = "KEY" /\ Quiet(0, j) => Starts(Coming(j))

(* A key event follows its scan value, unless that was lost; a scan value  *)
(* is followed by its key event.                                           *)
Heralded ==
  \A i \in Slots : buf[i].type = "KEY" =>
    IF i = 1 THEN synced => lastMsc = buf[1].key
    ELSE buf[i - 1] \in {Msc(buf[i].key), Dropped}
Followed ==
  \A i \in Slots : buf[i].type = "MSC" =>
    i < Len(buf) /\ buf[i + 1].type = "KEY" /\ buf[i + 1].key = buf[i].value

DroppedFirst == \A i \in Slots : buf[i] = Dropped => i = 1
Pending == lastMsc # NoKey => buf # <<>> /\ buf[1].type \in {"KEY", "SYN_DROPPED"}
Single  == (\A k \in Keys \ down : held[k] = 0) /\ (\A k, l \in down : k = l)

Chain   == Chained /\ Leads /\ Heralded /\ Followed /\ DroppedFirst
Steady  == Chain /\ Pending /\ Tracking /\ Single

(* The inductive invariant.                                                *)
StepInv == TypeOK /\ (Plain => Steady)

-----------------------------------------------------------------------------
LEMMA Only ==
  ASSUME NEW D, NEW k \in D, \A x, y \in D : x = y
  PROVE  (CHOOSE x \in D : TRUE) = k
OBVIOUS

LEMMA UpcomingIs ==
  ASSUME Single
  PROVE  /\ Upcoming.type = "KEY"
         /\ down = {} => Upcoming.value = 1
         /\ \A k \in down : Upcoming = KeyEvent(k, 0)
<1>1. ASSUME NEW k \in down PROVE Upcoming = KeyEvent(k, 0)
  BY Only DEF Single, Upcoming
<1>2. ASSUME down = {} PROVE Upcoming.type = "KEY" /\ Upcoming.value = 1
  BY <1>2 DEF Upcoming
<1>3. \A k : KeyEvent(k, 0).type = "KEY"
  BY DEF KeyEvent
<1> QED
  BY <1>1, <1>2, <1>3

LEMMA Initially ==
  ASSUME Init, Plain
  PROVE  Steady
<1>1. /\ down \subseteq Keys /\ Cardinality(down) <= 1 /\ held = [k \in Keys |-> 0]
      /\ buf = <<>> /\ press = Idle /\ lastMsc = NoKey /\ synced = (down = {})
  BY DEF Init, MaxDown, Plain
<1>2. Slots = {} /\ Len(buf) = 0
  BY <1>1 DEF Slots
<1>3. Single
  <2>1. IsFiniteSet(down)
    BY <1>1, ButtonsAssumption, FS_Subset
  <2>2. Cardinality(down) \in {0, 1}
    BY <1>1, <2>1, FS_CardinalityType
  <2>3. down = {} \/ \E x : down = {x}
    BY <2>1, <2>2, FS_EmptySet, FS_Singleton
  <2> QED
    BY <1>1, <2>3 DEF Single
<1>4. synced => Starts(Upcoming)
  BY <1>1, <1>3, UpcomingIs DEF Starts, Idle
<1>5. Leads
  BY <1>2, <1>4 DEF Leads, Coming
<1> QED
  BY <1>1, <1>2, <1>3, <1>5 DEF Steady, Chain, Chained, Heralded, Followed, DroppedFirst,
                               Pending, Tracking, Idle

-----------------------------------------------------------------------------
(* What a report looks like: scan values and key events in pairs, key      *)
(* events in a chain that ends at the next one (f), the first of them what *)
(* was to come.                                                            *)
Paired(s) ==
  /\ \A i \in 1 .. Len(s) : s[i].type = "KEY" => i > 1 /\ s[i - 1] = Msc(s[i].key)
  /\ \A i \in 1 .. Len(s) : s[i].type = "MSC" =>
       i < Len(s) /\ s[i + 1].type = "KEY" /\ s[i + 1].key = s[i].value
  /\ \A i \in 1 .. Len(s) : s[i] # Dropped
KeyFree(s, i, j) == \A m \in 1 .. Len(s) : i < m /\ m < j => s[m].type # "KEY"
Linked(s, f) ==
  \A i \in 1 .. Len(s) : s[i].type = "KEY" =>
    /\ \A j \in 1 .. Len(s) :
         i < j /\ s[j].type = "KEY" /\ KeyFree(s, i, j) => Follows(s[i], s[j])
    /\ KeyFree(s, i, Len(s) + 1) => Follows(s[i], f)
Expected(s) ==
  \E h \in 1 .. Len(s) :
    /\ s[h].type = "KEY" /\ KeyFree(s, 0, h)
    /\ Starts(Upcoming) => Starts(s[h])
    /\ \A e : Follows(e, Upcoming) => Follows(e, s[h])

(* A report that fits prolongs the chain.                                  *)
LEMMA JoinSteady ==
  ASSUME TypeOK, Chain, Upcoming.type = "KEY", UNCHANGED <<press, lastMsc, synced>>,
         NEW s \in Seq(Event), Paired(s), Linked(s, Upcoming'), Expected(s),
         buf' \in Seq(Event), Len(buf') = Len(buf) + Len(s),
         \A i \in 1 .. Len(buf) : buf'[i] = buf[i],
         \A i \in 1 .. Len(s) : buf'[Len(buf) + i] = s[i]
  PROVE  Chain'
<1> DEFINE n == Len(buf)
           c == Len(s)
           f == Upcoming'
<1>1. /\ n \in Nat /\ c \in Nat /\ Len(buf') = n + c
      /\ \A i \in 1 .. n : buf'[i] = buf[i]
      /\ \A i \in 1 .. c : buf'[n + i] = s[i]
  BY LenProperties DEF TypeOK
<1>2. PICK h \in 1 .. c :
        /\ s[h].type = "KEY" /\ KeyFree(s, 0, h)
        /\ Starts(Upcoming) => Starts(s[h])
        /\ \A e : Follows(e, Upcoming) => Follows(e, s[h])
  BY DEF Expected
<1>3. Coming(n + 1) = Upcoming /\ \A j \in 1 .. n : Coming(j) = buf[j]
  BY <1>1 DEF Coming, Slots
<1>4. /\ Slots = 1 .. n
      /\ Slots' = 1 .. n + c
  BY <1>1 DEF Slots
<1>5. \A j \in 1 .. n + c : Coming(j)' = buf'[j]
  BY <1>1 DEF Coming, Slots
<1>6. \A j : j = n + c + 1 => Coming(j)' = f
  BY <1>1 DEF Coming, Slots
<1> HIDE DEF n, c, f
<1>7. ASSUME NEW i \in 0 .. n + c, NEW j \in 1 .. n + c + 1, Quiet(i, j)'
      PROVE  /\ i <= n => Quiet(i, j)
             /\ i <= n /\ j > n => j - n <= h
             /\ i >= n /\ j > n => KeyFree(s, i - n, j - n)
  <2>1. \A m \in 1 .. n + c : i < m /\ m < j => buf'[m].type # "KEY"
    BY <1>4, <1>7 DEF Quiet
  <2>2. Quiet(i, j)
    BY <1>1, <1>4, <2>1 DEF Quiet
  <2>3. ASSUME NEW m \in 1 .. c, i - n < m, m < j - n PROVE s[m].type # "KEY"
    <3>1. n + m \in 1 .. n + c /\ i < n + m /\ n + m < j
      BY <1>1, <2>3
    <3> QED
      BY <1>1, <2>1, <3>1
  <2>4. i >= n /\ j > n => KeyFree(s, i - n, j - n)
    BY <2>3 DEF KeyFree, c
  <2>5. i <= n /\ j > n => j - n <= h
    <3> SUFFICES ASSUME i <= n, j > n, h < j - n
                 PROVE  FALSE
      BY <1>1
    <3>1. i - n < h
      BY <1>1
    <3> QED
      BY <1>2, <2>3, <3>1
  <2> QED
    BY <2>2, <2>4, <2>5
<1>8. \A j \in n + 1 .. n + c : j - n \in 1 .. c /\ buf'[j] = s[j - n]
  <2> SUFFICES ASSUME NEW j \in n + 1 .. n + c
               PROVE  j - n \in 1 .. c /\ buf'[j] = s[j - n]
    OBVIOUS
  <2>1. j - n \in 1 .. c /\ n + (j - n) = j
    BY <1>1
  <2> QED
    BY <1>1, <2>1
<1>9. ASSUME NEW i \in 0 .. n, NEW j \in n + 1 .. n + c + 1, Coming(j)'.type = "KEY", Quiet(i, j)'
      PROVE  Coming(j)' = s[h] /\ Quiet(i, n + 1)
  <2>1. j - n <= h /\ Quiet(i, j) /\ i \in 0 .. n + c /\ j \in 1 .. n + c + 1
    BY <1>1, <1>7, <1>9
  <2>2. j - n \in 1 .. c /\ j \in n + 1 .. n + c
    BY <1>1, <2>1
  <2>3. Coming(j)' = s[j - n]
    BY <1>5, <1>8, <2>1, <2>2
  <2>4. j - n = h
    <3> SUFFICES ASSUME j - n < h
                 PROVE  FALSE
      BY <1>1, <2>1
    <3>1. 0 < j - n
      BY <1>1
    <3> QED
      BY <1>2, <1>9, <2>2, <2>3, <3>1 DEF KeyFree, c
  <2>5. Quiet(i, n + 1)
    BY <1>1, <1>4, <2>1 DEF Quiet
  <2> QED
    BY <2>3, <2>4, <2>5
<1>10. Chained'
  <2> SUFFICES ASSUME NEW i \in 1 .. n + c, NEW j \in 1 .. n + c + 1, i < j,
                      buf'[i].type = "KEY", Coming(j)'.type = "KEY", Quiet(i, j)'
               PROVE  Follows(buf'[i], Coming(j)')
    BY <1>1, <1>4 DEF Chained, Follows
  <2>1. CASE j <= n
    <3>1. /\ i \in Slots /\ j \in 1 .. n + 1 /\ j \in 1 .. n /\ j \in 1 .. n + c
          /\ i \in 0 .. n + c /\ i <= n
      BY <1>1, <1>4, <2>1
    <3>2. buf'[i] = buf[i] /\ Coming(j)' = Coming(j)
      BY <1>1, <1>3, <1>4, <1>5, <3>1
    <3>3. Quiet(i, j)
      BY <1>7, <3>1
    <3> QED
      BY <3>1, <3>2, <3>3 DEF Chain, Chained, n
  <2>2. CASE i <= n /\ j > n
    <3>1. i \in Slots /\ buf'[i] = buf[i] /\ Coming(j)' = s[h] /\ Quiet(i, n + 1)
      BY <1>1, <1>4, <1>9, <2>2
    <3>2. n + 1 \in 1 .. n + 1 /\ i < n + 1
      BY <1>1, <2>2
    <3>3. Follows(buf[i], Upcoming)
      BY <1>3, <3>1, <3>2 DEF Chain, Chained, n
    <3> QED
      BY <1>2, <3>1, <3>3
  <2>3. CASE i > n /\ j <= n + c
    <3>1. /\ i - n \in 1 .. c /\ j - n \in 1 .. c /\ i - n < j - n
          /\ i \in n + 1 .. n + c /\ j \in n + 1 .. n + c /\ j \in 1 .. n + c
          /\ i \in 0 .. n + c /\ i >= n /\ j > n
      BY <1>1, <2>3
    <3>2. buf'[i] = s[i - n] /\ Coming(j)' = s[j - n]
      BY <1>5, <1>8, <3>1
    <3>3. KeyFree(s, i - n, j - n)
      BY <1>7, <3>1
    <3> QED
      BY <3>1, <3>2, <3>3 DEF Linked, c
  <2>4. CASE i > n /\ j = n + c + 1
    <3>1. /\ i - n \in 1 .. c /\ j - n = c + 1 /\ i \in n + 1 .. n + c
          /\ i \in 0 .. n + c /\ j > n /\ i >= n
      BY <1>1, <2>4
    <3>2. buf'[i] = s[i - n]
      BY <1>8, <3>1
    <3>3. Coming(j)' = f
      BY <1>6, <2>4
    <3>4. KeyFree(s, i - n, j - n)
      BY <1>7, <3>1
    <3> QED
      BY <3>1, <3>2, <3>3, <3>4 DEF Linked, c, f
  <2> QED
    BY <1>1, <2>1, <2>2, <2>3, <2>4
<1>11. Leads'
  <2> SUFFICES ASSUME synced', buf' # <<>> => buf'[1] # Dropped,
                      NEW j \in 1 .. n + c + 1, Coming(j)'.type = "KEY", Quiet(0, j)'
               PROVE  Starts(Coming(j))'
    BY <1>1 DEF Leads
  <2>1. synced /\ (buf # <<>> => buf[1] # Dropped)
    <3>1. ASSUME buf # <<>> PROVE 1 \in 1 .. n /\ buf' # <<>>
      BY <1>1, <3>1, EmptySeq, LenProperties DEF n, TypeOK
    <3> QED
      BY <1>1, <3>1
  <2>2. Starts(Coming(j)') <=> Starts(Coming(j))'
    BY DEF Starts
  <2>3. CASE j <= n
    <3>1. 0 \in 0 .. n + c /\ 0 <= n /\ j \in 1 .. n + 1 /\ j \in 1 .. n /\ j \in 1 .. n + c
      BY <1>1, <2>3
    <3>2. Coming(j)' = Coming(j)
      BY <1>1, <1>3, <1>5, <3>1
    <3>3. Quiet(0, j)
      BY <1>7, <3>1
    <3> QED
      BY <2>1, <2>2, <3>1, <3>2, <3>3 DEF Chain, Leads, n
  <2>4. CASE j > n
    <3>1. 0 \in 0 .. n /\ j \in n + 1 .. n + c + 1 /\ n + 1 \in 1 .. n + 1
      BY <1>1, <2>4
    <3>2. Coming(j)' = s[h] /\ Quiet(0, n + 1)
      BY <1>9, <3>1
    <3>3. Starts(Upcoming)
      BY <1>3, <2>1, <3>1, <3>2 DEF Chain, Leads, n
    <3> QED
      BY <1>2, <2>2, <3>2, <3>3
  <2> QED
    BY <1>1, <2>3, <2>4
<1>12. Heralded'
  <2> SUFFICES ASSUME NEW i \in 1 .. n + c, buf'[i].type = "KEY"
               PROVE  IF i = 1 THEN synced => lastMsc = buf'[1].key
                      ELSE buf'[i - 1] \in {Msc(buf'[i].key), Dropped}
    BY <1>4 DEF Heralded
  <2>1. CASE i <= n
    <3>1. i \in Slots /\ buf'[i] = buf[i] /\ (i # 1 => buf'[i - 1] = buf[i - 1])
      BY <1>1, <1>4, <2>1
    <3> QED
      BY <3>1 DEF Chain, Heralded
  <2>2. CASE i > n
    <3>1. i - n \in 1 .. c /\ buf'[i] = s[i - n]
      BY <1>1, <1>8, <2>2
    <3>2. i - n > 1 /\ s[i - n - 1] = Msc(s[i - n].key)
      BY <3>1 DEF Paired, c
    <3>3. i - 1 \in n + 1 .. n + c /\ i - 1 - n = i - n - 1 /\ i # 1
      BY <1>1, <3>1, <3>2
    <3>4. buf'[i - 1] = s[i - n - 1]
      BY <1>8, <3>3
    <3> QED
      BY <3>1, <3>2, <3>3, <3>4
  <2> QED
    BY <1>1, <2>1, <2>2
<1>13. Followed'
  <2> SUFFICES ASSUME NEW i \in 1 .. n + c, buf'[i].type = "MSC"
               PROVE  i < n + c /\ buf'[i + 1].type = "KEY" /\ buf'[i + 1].key = buf'[i].value
    BY <1>1, <1>4 DEF Followed
  <2>1. CASE i <= n
    <3>1. i \in Slots /\ buf'[i] = buf[i]
      BY <1>1, <1>4, <2>1
    <3>2. i < n /\ buf[i + 1].type = "KEY" /\ buf[i + 1].key = buf[i].value
      BY <3>1 DEF Chain, Followed, n
    <3>3. i + 1 \in 1 .. n
      BY <1>1, <3>2
    <3> QED
      BY <1>1, <3>1, <3>2, <3>3
  <2>2. CASE i > n
    <3>1. i - n \in 1 .. c /\ buf'[i] = s[i - n]
      BY <1>1, <1>8, <2>2
    <3>2. i - n < c /\ s[i - n + 1].type = "KEY" /\ s[i - n + 1].key = s[i - n].value
      BY <3>1 DEF Paired, c
    <3>3. i + 1 \in n + 1 .. n + c /\ i + 1 - n = i - n + 1
      BY <1>1, <3>1, <3>2
    <3>4. buf'[i + 1] = s[i + 1 - n]
      BY <1>1, <1>8, <3>3
    <3>5. buf'[i + 1].type = "KEY" /\ buf'[i + 1].key = buf'[i].value
      BY <3>1, <3>2, <3>3, <3>4
    <3> QED
      BY <1>1, <3>1, <3>2, <3>5
  <2> QED
    BY <1>1, <2>1, <2>2
<1>14. DroppedFirst'
  <2> SUFFICES ASSUME NEW i \in 1 .. n + c, buf'[i] = Dropped
               PROVE  i = 1
    BY <1>4 DEF DroppedFirst
  <2>1. CASE i <= n
    <3>1. i \in Slots /\ buf'[i] = buf[i]
      BY <1>1, <1>4, <2>1
    <3> QED
      BY <3>1 DEF Chain, DroppedFirst
  <2>2. CASE i > n
    <3>1. i - n \in 1 .. c /\ buf'[i] = s[i - n]
      BY <1>1, <1>8, <2>2
    <3> QED
      BY <3>1 DEF Paired, c
  <2> QED
    BY <1>1, <2>1, <2>2
<1> QED
  BY <1>10, <1>11, <1>12, <1>13, <1>14 DEF Chain

(* A report that finds the buffer full leaves the mark of the loss and its *)
(* last events, a chain of their own.                                      *)
LEMMA LossSteady ==
  ASSUME NEW s \in Seq(Event), NEW m \in 1 .. Len(s), Paired(s), Linked(s, Upcoming'),
         Len(buf') = Len(s) - m + 2, buf'[1] = Dropped,
         \A i \in m .. Len(s) : buf'[i - m + 2] = s[i]
  PROVE  Chain'
<1> DEFINE c == Len(s)
           f == Upcoming'
           z == c - m + 2
<1>1. c \in Nat /\ m \in 1 .. c /\ z \in Nat /\ z >= 2 /\ Len(buf') = z
  BY LenProperties
<1>2. Slots' = 1 .. z /\ Dropped.type = "SYN_DROPPED"
  BY <1>1 DEF Slots, Dropped
<1>3. \A j \in 1 .. z : Coming(j)' = buf'[j]
  BY <1>1 DEF Coming, Slots
<1>4. \A j : j = z + 1 => Coming(j)' = f
  BY <1>1 DEF Coming, Slots
<1>5. ASSUME NEW i \in 2 .. z PROVE i + m - 2 \in m .. c /\ i + m - 2 \in 1 .. c /\ buf'[i] = s[i + m - 2]
  <2>1. i + m - 2 \in m .. c /\ i + m - 2 - m + 2 = i /\ i + m - 2 \in 1 .. c
    BY <1>1
  <2> QED
    BY <2>1
<1>6. ASSUME NEW i \in 2 .. z, NEW j \in 2 .. z + 1, Quiet(i, j)'
      PROVE  KeyFree(s, i + m - 2, j + m - 2)
  <2>1. \A h \in 1 .. z : i < h /\ h < j => buf'[h].type # "KEY"
    BY <1>2, <1>6 DEF Quiet
  <2>2. ASSUME NEW h \in 1 .. c, i + m - 2 < h, h < j + m - 2 PROVE s[h].type # "KEY"
    <3>1. /\ h - m + 2 \in 1 .. z /\ i < h - m + 2 /\ h - m + 2 < j /\ h - m + 2 \in 2 .. z
          /\ h \in m .. c
      BY <1>1, <2>2
    <3>2. buf'[h - m + 2] = s[h]
      BY <3>1
    <3> QED
      BY <2>1, <3>1, <3>2
  <2> QED
    BY <2>2 DEF KeyFree
<1>7. z - 2 = c - m /\ c \in Int /\ m \in Int /\ z \in Int
  BY <1>1
<1> HIDE DEF c, f, z
<1>8. Chained'
  <2> SUFFICES ASSUME NEW i \in 1 .. z, NEW j \in 1 .. z + 1, i < j,
                      buf'[i].type = "KEY", Coming(j)'.type = "KEY", Quiet(i, j)'
               PROVE  Follows(buf'[i], Coming(j)')
    BY <1>1, <1>2 DEF Chained, Follows
  <2>1. i \in 2 .. z /\ j \in 2 .. z + 1
    BY <1>1, <1>2
  <2>2. i + m - 2 \in 1 .. c /\ buf'[i] = s[i + m - 2]
    BY <1>5, <2>1
  <2>3. KeyFree(s, i + m - 2, j + m - 2)
    BY <1>6, <2>1
  <2>4. CASE j \in 2 .. z
    <3>1. j + m - 2 \in 1 .. c /\ buf'[j] = s[j + m - 2]
      BY <1>5, <2>4
    <3>2. Coming(j)' = buf'[j]
      BY <1>3, <2>4
    <3>3. i + m - 2 < j + m - 2
      BY <1>1
    <3> QED
      BY <2>2, <2>3, <3>1, <3>2, <3>3 DEF Linked, c
  <2>5. CASE j = z + 1
    <3>1. Coming(j)' = f
      BY <1>4, <2>5
    <3>2. j + m - 2 = c + 1
      BY <1>7, <2>5
    <3> QED
      BY <2>2, <2>3, <3>1, <3>2 DEF Linked, c, f
  <2> QED
    BY <1>1, <2>1, <2>4, <2>5
<1>9. Leads'
  <2>1. buf' # <<>>
    BY <1>1
  <2> QED
    BY <2>1 DEF Leads
<1>10. Heralded'
  <2> SUFFICES ASSUME NEW i \in 1 .. z, buf'[i].type = "KEY"
               PROVE  IF i = 1 THEN synced' => lastMsc' = buf'[1].key
                      ELSE buf'[i - 1] \in {Msc(buf'[i].key), Dropped}
    BY <1>2 DEF Heralded
  <2>1. i \in 2 .. z /\ i # 1
    BY <1>1, <1>2
  <2>2. i + m - 2 \in 1 .. c /\ buf'[i] = s[i + m - 2]
    BY <1>5, <2>1
  <2>3. i + m - 2 > 1 /\ s[i + m - 2 - 1] = Msc(buf'[i].key)
    BY <2>2 DEF Paired, c
  <2>4. CASE i = 2
    BY <2>4
  <2>5. CASE i # 2
    <3>1. i - 1 \in 2 .. z /\ i - 1 + m - 2 = i + m - 2 - 1
      BY <1>1, <2>1, <2>5
    <3>2. buf'[i - 1] = s[i - 1 + m - 2]
      BY <1>5, <3>1
    <3> QED
      BY <2>1, <2>3, <3>1, <3>2
  <2> QED
    BY <2>4, <2>5
<1>11. Followed'
  <2> SUFFICES ASSUME NEW i \in 1 .. z, buf'[i].type = "MSC"
               PROVE  i < z /\ buf'[i + 1].type = "KEY" /\ buf'[i + 1].key = buf'[i].value
    BY <1>1, <1>2 DEF Followed
  <2>1. i \in 2 .. z
    BY <1>1, <1>2
  <2>2. i + m - 2 \in 1 .. c /\ buf'[i] = s[i + m - 2]
    BY <1>5, <2>1
  <2>3. /\ i + m - 2 < c /\ s[i + m - 2 + 1].type = "KEY"
        /\ s[i + m - 2 + 1].key = s[i + m - 2].value
    BY <2>2 DEF Paired, c
  <2>4. i + 1 \in 2 .. z /\ i + 1 + m - 2 = i + m - 2 + 1 /\ i < z
    BY <1>7, <2>1, <2>3
  <2>5. buf'[i + 1] = s[i + 1 + m - 2]
    BY <1>5, <2>4
  <2> QED
    BY <2>2, <2>3, <2>4, <2>5
<1>12. DroppedFirst'
  <2> SUFFICES ASSUME NEW i \in 1 .. z, buf'[i] = Dropped, i # 1
               PROVE  FALSE
    BY <1>2 DEF DroppedFirst
  <2>1. i \in 2 .. z
    BY <1>1
  <2>2. i + m - 2 \in 1 .. c /\ buf'[i] = s[i + m - 2]
    BY <1>5, <2>1
  <2> QED
    BY <2>2 DEF Paired, c
<1> QED
  BY <1>8, <1>9, <1>10, <1>11, <1>12 DEF Chain

(* Whether it fits or not, a report leaves the decoder in step.            *)
LEMMA EmitSteady ==
  ASSUME TypeOK, Plain, Steady, UNCHANGED <<press, lastMsc, synced>>, Single',
         NEW s \in Seq(Event), Paired(s), Linked(s, Upcoming'), Expected(s), Emit(s)
  PROVE  Steady'
<1>1. buf \in Seq(Event) /\ Len(buf) < BufSize
  BY DEF TypeOK
<1>2. Upcoming.type = "KEY"
  BY UpcomingIs DEF Steady
<1>3. Chain'
  <2>1. CASE /\ Fits(s) /\ Len(buf') = Len(buf) + Len(s)
             /\ \A i \in 1 .. Len(buf) : buf'[i] = buf[i]
             /\ \A i \in 1 .. Len(s) : buf'[Len(buf) + i] = s[i]
    BY <1>1, <1>2, <2>1, Emitted, JoinSteady DEF Steady
  <2>2. CASE \E m \in 1 .. Len(s) :
               /\ Len(buf') = Len(s) - m + 2 /\ buf'[1] = Dropped
               /\ \A i \in m .. Len(s) : buf'[i - m + 2] = s[i]
    BY <2>2, LossSteady
  <2> QED
    BY <1>1, <2>1, <2>2, Emitted
<1>4. Tracking'
  BY DEF Steady, Tracking
<1>5. Pending'
  <2> SUFFICES ASSUME lastMsc # NoKey
               PROVE  buf' # <<>> /\ buf'[1].type \in {"KEY", "SYN_DROPPED"}
    BY DEF Pending
  <2>1. buf # <<>> /\ buf[1].type \in {"KEY", "SYN_DROPPED"}
    BY DEF Steady, Pending
  <2>2. Len(buf) \in Nat /\ Len(buf) # 0 /\ Len(s) \in Nat
    BY <1>1, <2>1, EmptySeq, LenProperties
  <2>3. CASE /\ Fits(s) /\ Len(buf') = Len(buf) + Len(s)
             /\ \A i \in 1 .. Len(buf) : buf'[i] = buf[i]
    <3>1. 1 \in 1 .. Len(buf) /\ Len(buf') # 0
      BY <2>2, <2>3
    <3> QED
      BY <2>1, <2>3, <3>1
  <2>4. CASE \E m \in 1 .. Len(s) : Len(buf') = Len(s) - m + 2 /\ buf'[1] = Dropped
    <3>1. Len(buf') # 0 /\ buf'[1].type = "SYN_DROPPED"
      BY <2>2, <2>4 DEF Dropped
    <3> QED
      BY <3>1
  <2> QED
    BY <1>1, <2>3, <2>4, Emitted
<1> QED
  BY <1>3, <1>4, <1>5 DEF Steady

-----------------------------------------------------------------------------
(* The remote's reports are such reports.                                  *)
LEMMA EventFields ==
  ASSUME NEW k, NEW v
  PROVE  /\ Msc(k).type = "MSC" /\ Msc(k).value = k /\ Syn.type = "SYN"
         /\ KeyEvent(k, v).type = "KEY" /\ KeyEvent(k, v).value = v
         /\ KeyEvent(k, v).key = k /\ KeyEvent(k, v).time = now
         /\ KeyEvent(k, v).held = held[k]
         /\ Dropped.type = "SYN_DROPPED"
BY DEF Msc, Syn, KeyEvent, Dropped

LEMMA ElapsedNone == ASSUME NEW t \in Stamp PROVE Elapsed(t, t) = 0
BY TimeAssumption DEF Elapsed, Stamp

LEMMA PacketSteady ==
  ASSUME TypeOK, Plain, Steady, NEW k \in Keys, NEW v \in {0, 1}, Emit(Packet(k, v)),
         v = 1 => down = {} /\ down' = {k} /\ held' = held,
         v = 0 => k \in down /\ down' = {} /\ held' = [held EXCEPT ![k] = 0],
         UNCHANGED <<now, press, lastMsc, synced>>
  PROVE  Steady'
<1>1. PICK e : e = KeyEvent(k, v)
  OBVIOUS
<1>2. PICK s : s = <<Msc(k), e, Syn>>
  OBVIOUS
<1>3. e \in Event /\ Msc(k) \in Event /\ Syn \in Event
  BY <1>1, ReportTyped DEF TypeOK
<1>4. /\ s \in Seq(Event) /\ Len(s) = 3 /\ s[1] = Msc(k) /\ s[2] = e /\ s[3] = Syn
      /\ \A i \in 1 .. 3 : i = 1 \/ i = 2 \/ i = 3
  BY <1>2, <1>3
<1>5. Emit(s)
  BY <1>1, <1>2 DEF Packet
<1>6. /\ Msc(k).type = "MSC" /\ Msc(k).value = k /\ Syn.type = "SYN" /\ Dropped.type = "SYN_DROPPED"
      /\ e.type = "KEY" /\ e.value = v /\ e.key = k /\ e.time = now /\ e.held = held[k]
  BY <1>1, EventFields
<1>7. Paired(s)
  BY <1>4, <1>6 DEF Paired
<1>8. Single'
  <2>1. CASE v = 1
    BY <2>1 DEF Steady, Single, TypeOK
  <2>2. CASE v = 0
    <3>1. \A l \in Keys \ {k} : l \notin down
      BY <2>2 DEF Steady, Single
    <3> QED
      BY <2>2, <3>1 DEF Steady, Single, TypeOK
  <2> QED
    BY <2>1, <2>2
<1>9. Follows(e, Upcoming')
  <2>1. CASE v = 1
    <3>1. Upcoming' = KeyEvent(k, 0)'
      <4>1. \A x, y \in {k} : x = y
        OBVIOUS
      <4>2. (CHOOSE x \in {k} : TRUE) = k
        BY <4>1, Only
      <4> QED
        BY <2>1, <4>2 DEF Upcoming, KeyEvent
    <3>2. /\ Upcoming'.value = 0 /\ Upcoming'.key = k /\ Upcoming'.time = now
          /\ Upcoming'.held = held[k]
      BY <2>1, <3>1 DEF KeyEvent
    <3>3. held[k] = 0
      BY <2>1 DEF Steady, Single
    <3>4. Elapsed(now, now) = 0
      BY ElapsedNone DEF TypeOK
    <3> QED
      BY <1>6, <2>1, <3>2, <3>3, <3>4 DEF Follows
  <2>2. CASE v = 0
    <3>1. Upcoming'.value = 1
      BY <2>2 DEF Upcoming
    <3> QED
      BY <1>6, <2>2, <3>1 DEF Follows
  <2> QED
    BY <2>1, <2>2
<1>10. Linked(s, Upcoming')
  BY <1>4, <1>6, <1>9 DEF Linked
<1>11. Expected(s)
  <2>1. s[2].type = "KEY" /\ KeyFree(s, 0, 2) /\ 2 \in 1 .. Len(s)
    BY <1>4, <1>6 DEF KeyFree
  <2>2. CASE v = 1
    <3>1. Upcoming.value = 1
      BY <2>2, UpcomingIs DEF Steady
    <3>2. Starts(Upcoming) => Starts(e)
      BY <1>6, <2>2, <3>1 DEF Starts
    <3>3. \A a : Follows(a, Upcoming) => Follows(a, e)
      BY <1>6, <2>2, <3>1 DEF Follows
    <3> QED
      BY <1>4, <2>1, <3>2, <3>3 DEF Expected
  <2>3. CASE v = 0
    <3>1. Upcoming = e
      BY <1>1, <2>3, UpcomingIs DEF Steady
    <3> QED
      BY <1>4, <2>1, <3>1 DEF Expected
  <2> QED
    BY <2>2, <2>3
<1> QED
  BY <1>4, <1>5, <1>7, <1>8, <1>10, <1>11, EmitSteady

LEMMA RollSteady ==
  ASSUME TypeOK, Plain, Steady, NEW k \in Keys, NEW l \in Keys, Emit(RollPacket(k, l)),
         k \in down, l \notin down, down' = (down \ {k}) \cup {l},
         held' = [held EXCEPT ![k] = 0],
         UNCHANGED <<now, press, lastMsc, synced>>
  PROVE  Steady'
<1>1. PICK e : e = KeyEvent(k, 0)
  OBVIOUS
<1>2. PICK f : f = KeyEvent(l, 1)
  OBVIOUS
<1>3. PICK s : s = <<Msc(k), e, Msc(l), f, Syn>>
  OBVIOUS
<1>4. e \in Event /\ f \in Event /\ Msc(k) \in Event /\ Msc(l) \in Event /\ Syn \in Event
  BY <1>1, <1>2, ReportTyped DEF TypeOK
<1>5. /\ s \in Seq(Event) /\ Len(s) = 5
      /\ s[1] = Msc(k) /\ s[2] = e /\ s[3] = Msc(l) /\ s[4] = f /\ s[5] = Syn
      /\ \A i \in 1 .. 5 : i = 1 \/ i = 2 \/ i = 3 \/ i = 4 \/ i = 5
  BY <1>3, <1>4
<1>6. Emit(s)
  BY <1>1, <1>2, <1>3 DEF RollPacket
<1>7. /\ Msc(k).type = "MSC" /\ Msc(k).value = k /\ Msc(l).type = "MSC" /\ Msc(l).value = l
      /\ Syn.type = "SYN" /\ Dropped.type = "SYN_DROPPED"
      /\ e.type = "KEY" /\ e.value = 0 /\ e.key = k
      /\ f.type = "KEY" /\ f.value = 1 /\ f.key = l /\ f.time = now /\ f.held = held[l]
  BY <1>1, <1>2, EventFields
<1>8. Paired(s)
  BY <1>5, <1>7 DEF Paired
<1>9. down' = {l} /\ k # l /\ \A h \in Keys \ {k} : held[h] = 0
  BY DEF Steady, Single
<1>10. Single'
  BY <1>9 DEF Single, TypeOK
<1>11. Follows(f, Upcoming')
  <2>1. Upcoming' = KeyEvent(l, 0)'
    <3>1. \A x, y \in {l} : x = y
      OBVIOUS
    <3>2. (CHOOSE x \in {l} : TRUE) = l
      BY <3>1, Only
    <3> QED
      BY <1>9, <3>2 DEF Upcoming, KeyEvent
  <2>2. /\ Upcoming'.value = 0 /\ Upcoming'.key = l /\ Upcoming'.time = now
        /\ Upcoming'.held = 0
    BY <1>9, <2>1 DEF KeyEvent, TypeOK
  <2>3. Elapsed(now, now) = 0
    BY ElapsedNone DEF TypeOK
  <2> QED
    BY <1>7, <2>2, <2>3 DEF Follows
<1>12. Linked(s, Upcoming')
  <2>1. Follows(e, f)
    BY <1>7 DEF Follows
  <2>2. ~KeyFree(s, 2, Len(s) + 1)
    BY <1>5, <1>7 DEF KeyFree
  <2> QED
    BY <1>5, <1>7, <1>11, <2>1, <2>2 DEF Linked
<1>13. Expected(s)
  <2>1. s[2].type = "KEY" /\ KeyFree(s, 0, 2) /\ 2 \in 1 .. Len(s)
    BY <1>5, <1>7 DEF KeyFree
  <2>2. Upcoming = e
    BY <1>1, UpcomingIs DEF Steady
  <2> QED
    BY <1>5, <2>1, <2>2 DEF Expected
<1> QED
  BY <1>5, <1>6, <1>8, <1>10, <1>12, <1>13, EmitSteady

-----------------------------------------------------------------------------
(* A tick makes the release to come one later and its hold one longer.     *)
LEMMA ElapsesOne ==
  ASSUME NEW t \in Stamp, NEW p \in Stamp, NEW h \in Nat, Elapsed(t, p) = h, h + 1 < Modulus
  PROVE  Elapsed(IF t = Modulus - 1 THEN 0 ELSE t + 1, p) = h + 1
BY TimeAssumption DEF Elapsed, Stamp

LEMMA TickSteady ==
  ASSUME TypeOK, Plain, Steady, Tick
  PROVE  Steady'
<1>1. /\ UNCHANGED <<down, buf, press, lastMsc, synced>>
      /\ now' = IF now = Modulus - 1 THEN 0 ELSE now + 1
      /\ held' = [k \in Keys |-> IF k \in down THEN held[k] + 1 ELSE held[k]]
      /\ \A k \in Keys : held'[k] <= MaxHold
  BY DEF Tick
<1>2. PICK u : u = Upcoming
  OBVIOUS
<1>3. PICK f : f = Upcoming'
  OBVIOUS
<1>4. Single'
  BY <1>1 DEF Steady, Single, TypeOK
<1>5. u.type = "KEY" /\ f.type = "KEY"
  <2>1. CASE down = {}
    BY <1>1, <1>2, <1>3, <2>1 DEF Upcoming
  <2>2. CASE down # {}
    BY <1>1, <1>2, <1>3, <2>2 DEF Upcoming, KeyEvent
  <2> QED
    BY <2>1, <2>2
<1>6. \/ u = f
      \/ /\ u.value = 0 /\ f.value = 0 /\ f.key = u.key
         /\ \A p \in Stamp : Elapsed(u.time, p) = u.held => Elapsed(f.time, p) = f.held
  <2>1. CASE down = {}
    BY <1>1, <1>2, <1>3, <2>1 DEF Upcoming
  <2>2. ASSUME NEW k \in down
        PROVE  /\ u.value = 0 /\ f.value = 0 /\ f.key = u.key
               /\ \A p \in Stamp : Elapsed(u.time, p) = u.held => Elapsed(f.time, p) = f.held
    <3>1. (CHOOSE x \in down : TRUE) = k
      BY Only DEF Steady, Single
    <3>2. k \in Keys /\ held[k] \in Nat /\ held[k] + 1 \in Nat /\ held'[k] = held[k] + 1
      BY <1>1, <2>2, StreamAssumption DEF TypeOK
    <3>3. held[k] + 1 < Modulus
      BY <1>1, <3>2, StreamAssumption, HoldAssumption, TimeAssumption
    <3>4. u.value = 0 /\ u.key = k /\ u.time = now /\ u.held = held[k]
      BY <1>2, <2>2, <3>1 DEF Upcoming, KeyEvent
    <3>5. f = KeyEvent(k, 0)'
      BY <1>1, <1>3, <2>2, <3>1 DEF Upcoming, KeyEvent
    <3>6. f.value = 0 /\ f.key = k /\ f.time = now' /\ f.held = held[k] + 1
      BY <1>1, <3>2, <3>5 DEF KeyEvent
    <3>7. ASSUME NEW p \in Stamp, Elapsed(u.time, p) = u.held
          PROVE  Elapsed(f.time, p) = f.held
      <4>1. now \in Stamp
        BY DEF TypeOK
      <4>2. Elapsed(IF now = Modulus - 1 THEN 0 ELSE now + 1, p) = held[k] + 1
        BY <3>2, <3>3, <3>4, <3>7, <4>1, ElapsesOne
      <4> QED
        BY <1>1, <3>6, <4>2
    <3> QED
      BY <3>4, <3>6, <3>7
  <2> QED
    BY <2>1, <2>2
<1>7. ASSUME NEW e \in Event, e.type = "KEY", Follows(e, u)
      PROVE  Follows(e, f)
  <2>1. e.time \in Stamp
    BY <1>7, EventKinds
  <2> QED
    BY <1>6, <1>7, <2>1 DEF Follows
<1>8. Starts(u) => Starts(f)
  <2>1. press.usec \in Stamp
    BY DEF TypeOK, Press
  <2> QED
    BY <1>6, <2>1 DEF Starts
<1>9. /\ Slots' = Slots
      /\ \A i, j : Quiet(i, j)' <=> Quiet(i, j)
      /\ \A g : Starts(g)' <=> Starts(g)
      /\ \A j : \/ j \in Slots /\ Coming(j)' = buf[j] /\ Coming(j) = buf[j]
                \/ Coming(j)' = f /\ Coming(j) = u
  BY <1>1, <1>2, <1>3 DEF Slots, Quiet, Starts, Coming
<1>10. Chained'
  <2> SUFFICES ASSUME NEW i \in Slots, NEW j \in 1 .. Len(buf) + 1, i < j, buf[i].type = "KEY",
                      Coming(j)'.type = "KEY", Quiet(i, j)'
               PROVE  Follows(buf[i], Coming(j)')
    BY <1>1, <1>9 DEF Chained, Follows
  <2>1. Quiet(i, j) /\ Coming(j).type = "KEY"
    BY <1>5, <1>9
  <2>2. Follows(buf[i], Coming(j))
    BY <2>1 DEF Steady, Chain, Chained
  <2>3. buf[i] \in Event
    BY ElementOfSeq DEF Slots, TypeOK
  <2> QED
    BY <1>7, <1>9, <2>2, <2>3
<1>11. Leads'
  <2> SUFFICES ASSUME synced, buf # <<>> => buf[1] # Dropped,
                      NEW j \in 1 .. Len(buf) + 1, Coming(j)'.type = "KEY", Quiet(0, j)'
               PROVE  Starts(Coming(j))'
    BY <1>1 DEF Leads
  <2>1. Quiet(0, j) /\ Coming(j).type = "KEY"
    BY <1>5, <1>9
  <2>2. Starts(Coming(j))
    BY <2>1 DEF Steady, Chain, Leads
  <2>3. Starts(Coming(j))' <=> Starts(Coming(j)')
    BY <1>1 DEF Starts
  <2> QED
    BY <1>8, <1>9, <2>2, <2>3
<1>12. Heralded' /\ Followed' /\ DroppedFirst' /\ Pending' /\ Tracking'
  BY <1>1, <1>9 DEF Steady, Chain, Heralded, Followed, DroppedFirst, Pending, Tracking
<1> QED
  BY <1>4, <1>10, <1>11, <1>12 DEF Steady, Chain

-----------------------------------------------------------------------------
(* The daemon reads the first event.                                       *)
LEMMA ReadSteady ==
  ASSUME TypeOK, Plain, Steady, ReadEvent
  PROVE  Steady'
<1>1. PICK e : e = Head(buf)
  OBVIOUS
<1>2. /\ buf # <<>> /\ buf' = Tail(buf) /\ press' = Decode(press, e)
      /\ lastMsc' = IF e.type = "MSC" THEN e.value ELSE NoKey
      /\ UNCHANGED <<hazards, now, down, held>>
  BY <1>1 DEF ReadEvent
<1>3. /\ e.type = "SYN_DROPPED" => ~synced'
      /\ synced' => synced \/ (IsRelease(e) /\ lastMsc = e.key)
  <2>1. synced' = CASE e.type = "SYN_DROPPED"              -> FALSE
                    [] IsRelease(e) /\ lastMsc = e.key     -> TRUE
                    [] OTHER                               -> synced
    BY <1>1 DEF ReadEvent
  <2> QED
    BY <2>1, Zenon DEF IsRelease
<1>4. PICK n : n = Len(buf)
  OBVIOUS
<1>5. /\ n \in Nat \ {0} /\ e \in Event /\ e = buf[1] /\ buf' \in Seq(Event)
      /\ Len(buf') = n - 1 /\ \A i \in 1 .. n - 1 : buf'[i] = buf[i + 1]
  BY <1>1, <1>2, <1>4, HeadTailProperties, LenProperties, EmptySeq DEF TypeOK
<1>6. Slots = 1 .. n /\ Slots' = 1 .. n - 1
  BY <1>4, <1>5 DEF Slots
<1>7. /\ press.keycode \in Keys \cup {NoKey} /\ press.usec \in Stamp
      /\ press = [keycode |-> press.keycode, usec |-> press.usec]
      /\ press.keycode = NoKey => press.usec = 0
  BY DEF TypeOK, Press
<1>8. Single' /\ Upcoming' = Upcoming
  BY <1>2 DEF Steady, Single, Upcoming, KeyEvent
<1>9. ASSUME NEW j \in 1 .. n
      PROVE  Coming(j)' = Coming(j + 1)
  <2>1. CASE j = n
    BY <1>5, <1>6, <1>8, <2>1 DEF Coming
  <2>2. CASE j # n
    <3>1. j \in 1 .. n - 1 /\ j + 1 \in 1 .. n
      BY <1>5, <2>2
    <3> QED
      BY <1>5, <1>6, <3>1 DEF Coming
  <2> QED
    BY <2>1, <2>2
<1>10. ASSUME NEW i \in 0 .. n - 1, NEW j \in 1 .. n, Quiet(i, j)'
       PROVE  Quiet(i + 1, j + 1)
  <2> SUFFICES ASSUME NEW m \in 1 .. n, i + 1 < m, m < j + 1
               PROVE  buf[m].type # "KEY"
    BY <1>6 DEF Quiet
  <2>1. m - 1 \in 1 .. n - 1 /\ i < m - 1 /\ m - 1 < j /\ m - 1 + 1 = m
    BY <1>5
  <2> QED
    BY <1>5, <1>6, <1>10, <2>1 DEF Quiet
<1>11. Chained'
  <2> SUFFICES ASSUME NEW i \in 1 .. n - 1, NEW j \in 1 .. n, i < j,
                      buf'[i].type = "KEY", Coming(j)'.type = "KEY", Quiet(i, j)'
               PROVE  Follows(buf'[i], Coming(j)')
    BY <1>5, <1>6 DEF Chained, Follows
  <2>1. /\ i + 1 \in Slots /\ j + 1 \in 1 .. n + 1 /\ i + 1 < j + 1 /\ i \in 0 .. n - 1
        /\ buf'[i] = buf[i + 1] /\ Coming(j)' = Coming(j + 1)
    BY <1>5, <1>6, <1>9
  <2>2. Quiet(i + 1, j + 1)
    BY <1>10, <2>1
  <2> QED
    BY <1>4, <2>1, <2>2 DEF Steady, Chain, Chained
<1>12. Heralded'
  <2> SUFFICES ASSUME NEW i \in 1 .. n - 1, buf'[i].type = "KEY"
               PROVE  IF i = 1 THEN synced' => lastMsc' = buf'[1].key
                      ELSE buf'[i - 1] \in {Msc(buf'[i].key), Dropped}
    BY <1>6 DEF Heralded
  <2>1. i + 1 \in Slots /\ buf'[i] = buf[i + 1] /\ i + 1 # 1 /\ i + 1 - 1 = i
    BY <1>5, <1>6
  <2>2. buf[i] \in {Msc(buf'[i].key), Dropped}
    BY <2>1 DEF Steady, Chain, Heralded
  <2>3. CASE i = 1
    BY <1>2, <1>3, <1>5, <2>2, <2>3 DEF Msc, Dropped
  <2>4. CASE i # 1
    <3>1. i - 1 \in 1 .. n - 1 /\ i - 1 + 1 = i
      BY <1>5, <2>4
    <3>2. buf'[i - 1] = buf[i]
      BY <1>5, <3>1
    <3> QED
      BY <2>2, <2>4, <3>2
  <2> QED
    BY <2>3, <2>4
<1>13. Followed'
  <2> SUFFICES ASSUME NEW i \in 1 .. n - 1, buf'[i].type = "MSC"
               PROVE  i < n - 1 /\ buf'[i + 1].type = "KEY" /\ buf'[i + 1].key = buf'[i].value
    BY <1>5, <1>6 DEF Followed
  <2>1. i + 1 \in Slots /\ buf'[i] = buf[i + 1]
    BY <1>5, <1>6
  <2>2. i + 1 < n /\ buf[i + 1 + 1].type = "KEY" /\ buf[i + 1 + 1].key = buf[i + 1].value
    BY <1>4, <2>1 DEF Steady, Chain, Followed
  <2>3. i + 1 \in 1 .. n - 1 /\ i < n - 1
    BY <1>5, <2>2
  <2>4. buf'[i + 1] = buf[i + 1 + 1]
    BY <1>5, <2>3
  <2> QED
    BY <2>1, <2>2, <2>3, <2>4
<1>14. DroppedFirst'
  <2> SUFFICES ASSUME NEW i \in 1 .. n - 1, buf'[i] = Dropped
               PROVE  FALSE
    BY <1>6 DEF DroppedFirst
  <2>1. i + 1 \in Slots /\ buf'[i] = buf[i + 1] /\ i + 1 # 1
    BY <1>5, <1>6
  <2> QED
    BY <2>1 DEF Steady, Chain, DroppedFirst
<1>15. ASSUME e.type = "MSC"
       PROVE  1 < n /\ buf[2].type = "KEY" /\ buf[2].key = e.value /\ e.value \in Keys
  <2>1. 1 \in Slots
    BY <1>5, <1>6
  <2>2. 1 < n /\ buf[1 + 1].type = "KEY" /\ buf[1 + 1].key = e.value
    BY <1>4, <1>5, <1>15, <2>1 DEF Steady, Chain, Followed
  <2> QED
    BY <1>5, <1>15, <2>2, EventKinds
<1>16. Pending' /\ Tracking'
  <2>1. CASE e.type = "MSC"
    <3>1. 1 \in 1 .. n - 1 /\ buf'[1] = buf[2] /\ buf' # <<>>
      BY <1>5, <1>15, <2>1
    <3>2. press' = OnMsc(press, e.value) /\ lastMsc' = e.value
      BY <1>2, <2>1 DEF Decode
    <3>3. press'.keycode \in {e.value, NoKey}
      BY <1>7, <3>2 DEF OnMsc, Idle
    <3> QED
      BY <1>15, <2>1, <3>1, <3>2, <3>3 DEF Pending, Tracking
  <2>2. CASE e.type # "MSC"
    BY <1>2, <2>2 DEF Pending, Tracking
  <2> QED
    BY <2>1, <2>2
<1>17. Leads'
  <2> SUFFICES ASSUME synced', NEW j \in 1 .. n, Coming(j)'.type = "KEY", Quiet(0, j)'
               PROVE  Starts(Coming(j))'
    BY <1>5 DEF Leads
  <2>1. PICK f : f = Coming(j + 1)
    OBVIOUS
  <2>2. Coming(j)' = f /\ f.type = "KEY" /\ Quiet(1, j + 1)
    <3>1. 0 \in 0 .. n - 1 /\ 0 + 1 = 1
      BY <1>5
    <3> QED
      BY <1>9, <1>10, <2>1, <3>1
  <2>3. /\ 1 \in Slots /\ 1 \in 1 .. n + 1 /\ j + 1 \in 1 .. n + 1 /\ 1 < j + 1
        /\ Coming(1) = e /\ Quiet(0, 1)
    BY <1>5, <1>6 DEF Coming, Quiet
  <2>4. e.type # "SYN_DROPPED" /\ e # Dropped
    BY <1>3 DEF Dropped
  <2>5. SUFFICES IF f.value = 1 THEN press'.usec = 0 /\ press'.keycode = lastMsc'
                 ELSE press'.keycode = f.key /\ Elapsed(f.time, press'.usec) = f.held
    BY <2>2, <2>5 DEF Starts
  <2>6. ASSUME synced, e.type # "KEY"
        PROVE  Starts(f)
    <3>1. Quiet(0, j + 1)
      BY <1>5, <1>6, <2>2, <2>6 DEF Quiet
    <3> QED
      BY <1>4, <1>5, <2>1, <2>2, <2>3, <2>4, <2>6, <3>1 DEF Steady, Chain, Leads
  <2>7. CASE e.type = "KEY"
    <3>1. Follows(e, f)
      BY <1>4, <1>5, <2>1, <2>2, <2>3, <2>7 DEF Steady, Chain, Chained
    <3>2. lastMsc = e.key /\ lastMsc' = NoKey /\ press' = OnKey(press, e)
      BY <1>2, <1>3, <1>5, <2>3, <2>7 DEF Steady, Chain, Heralded, Decode
    <3>3. e.value \in {0, 1} /\ e.key \in Keys /\ e.key # NoKey
      BY <1>5, <2>7, EventKinds, KeysAssumption
    <3>4. CASE e.value = 0
      <4>1. press' = Idle
        BY <1>7, <2>7, <3>2, <3>4 DEF OnKey, StartsTiming, Dispatches, Idle
      <4> QED
        BY <3>1, <3>2, <3>4, <4>1 DEF Follows, Idle
    <3>5. CASE e.value = 1
      <4>1. synced
        BY <1>3, <3>5 DEF IsRelease
      <4>2. Starts(e)
        BY <1>4, <2>3, <2>4, <2>7, <1>5, <4>1 DEF Steady, Chain, Leads
      <4>3. press.usec = 0 /\ press.keycode = e.key
        BY <3>2, <3>5, <4>2 DEF Starts
      <4>4. press'.keycode = e.key /\ press'.usec = e.time
        BY <1>7, <3>2, <3>3, <3>5, <4>3 DEF OnKey, StartsTiming
      <4> QED
        BY <3>1, <3>5, <4>4 DEF Follows
    <3> QED
      BY <3>3, <3>4, <3>5
  <2>8. CASE e.type = "MSC"
    <3>1. synced
      BY <1>3, <2>8 DEF IsRelease
    <3>2. Starts(f)
      BY <2>6, <2>8, <3>1
    <3>3. f = buf[2]
      <4>1. 2 \in Slots /\ 1 < 2
        BY <1>5, <1>6, <1>15, <2>8
      <4>2. ~(2 < j + 1)
        BY <1>15, <2>2, <2>8, <4>1 DEF Quiet
      <4>3. j + 1 = 2
        BY <4>2
      <4> QED
        BY <2>1, <4>1, <4>3 DEF Coming
    <3>4. lastMsc = NoKey
      BY <1>5, <2>8 DEF Steady, Pending
    <3>5. lastMsc' = e.value /\ press' = OnMsc(press, e.value) /\ f.key = e.value /\ e.value # NoKey
      BY <1>2, <1>15, <2>8, <3>3, KeysAssumption DEF Decode
    <3> QED
      BY <1>7, <3>2, <3>4, <3>5 DEF Starts, OnMsc
  <2>9. CASE e.type \notin {"KEY", "MSC"}
    <3>1. synced
      BY <1>3, <2>9 DEF IsRelease
    <3>2. Starts(f)
      BY <2>6, <2>9, <3>1
    <3>3. press' = press /\ lastMsc' = NoKey
      BY <1>2, <2>9 DEF Decode
    <3>4. lastMsc = NoKey
      BY <1>5, <2>4, <2>9 DEF Steady, Pending
    <3> QED
      BY <3>2, <3>3, <3>4 DEF Starts
  <2> QED
    BY <2>7, <2>8, <2>9
<1> QED
  BY <1>8, <1>11, <1>12, <1>13, <1>14, <1>16, <1>17 DEF Steady, Chain

LEMMA SteadyPreserved == TypeOK /\ Plain /\ Steady /\ [Next]_vars => Steady'
<1> SUFFICES ASSUME TypeOK, Plain, Steady, [Next]_vars
             PROVE  Steady'
  OBVIOUS
<1>1. MaxDown = 1
  BY DEF Plain, MaxDown
<1>2. CASE UNCHANGED vars
  <2>1. UNCHANGED <<now, down, held, buf, press, lastMsc, synced>>
    BY <1>2 DEF vars
  <2>2. UNCHANGED <<Slots, Upcoming>>
    BY <2>1 DEF Slots, Upcoming, KeyEvent
  <2>3. /\ \A i, j : Quiet(i, j)' <=> Quiet(i, j)
        /\ \A j : Coming(j)' = Coming(j)
        /\ \A f : Starts(f)' <=> Starts(f)
    BY <2>1, <2>2 DEF Quiet, Coming, Starts
  <2>4. Chained'
    BY <2>1, <2>2, <2>3 DEF Steady, Chain, Chained, Follows
  <2>5. Leads'
    <3>1. \A j : Starts(Coming(j))' <=> Starts(Coming(j))
      BY <2>1, <2>3 DEF Starts
    <3> QED
      BY <2>1, <2>3, <3>1 DEF Steady, Chain, Leads
  <2>6. Heralded' /\ Followed' /\ DroppedFirst' /\ Pending' /\ Tracking' /\ Single'
    BY <2>1, <2>2 DEF Steady, Chain, Heralded, Followed, DroppedFirst, Pending, Tracking, Single
  <2> QED
    BY <2>4, <2>5, <2>6 DEF Steady, Chain
<1>3. CASE Tick
  BY <1>3, TickSteady
<1>4. CASE ClockSet
  BY <1>4 DEF ClockSet, Plain
<1>5. ASSUME NEW k \in Keys, KeyDown(k)
      PROVE  Steady'
  <2>1. IsFiniteSet(down)
    BY ButtonsAssumption, FS_Subset DEF TypeOK
  <2>2. Cardinality(down) < 1 /\ Cardinality(down) \in Nat
    BY <1>1, <1>5, <2>1, FS_CardinalityType DEF KeyDown
  <2>3. down = {}
    BY <2>1, <2>2, FS_EmptySet
  <2>4. down' = {k}
    BY <1>5, <2>3 DEF KeyDown
  <2>5. Emit(Packet(k, 1)) /\ held' = held /\ UNCHANGED <<now, press, lastMsc, synced>>
    BY <1>5 DEF KeyDown
  <2> QED
    BY <2>3, <2>4, <2>5, PacketSteady
<1>6. ASSUME NEW k \in Keys, KeyUp(k)
      PROVE  Steady'
  <2>1. /\ k \in down /\ Emit(Packet(k, 0)) /\ held' = [held EXCEPT ![k] = 0]
        /\ UNCHANGED <<now, press, lastMsc, synced>>
    BY <1>6 DEF KeyUp
  <2>2. down' = {}
    BY <1>6 DEF KeyUp, Steady, Single
  <2>3. 0 \in {0, 1} /\ 0 # 1
    OBVIOUS
  <2> QED
    BY <2>1, <2>2, <2>3, PacketSteady
<1>7. ASSUME NEW k \in Keys, NEW l \in Keys, KeyRoll(k, l)
      PROVE  Steady'
  <2>1. /\ k \in down /\ l \notin down /\ down' = (down \ {k}) \cup {l}
        /\ held' = [held EXCEPT ![k] = 0] /\ Emit(RollPacket(k, l))
        /\ UNCHANGED <<now, press, lastMsc, synced>>
    BY <1>7 DEF KeyRoll
  <2> QED
    BY <2>1, RollSteady
<1>8. CASE ReadEvent
  BY <1>8, ReadSteady
<1> QED
  BY <1>2, <1>3, <1>4, <1>5, <1>6, <1>7, <1>8 DEF Next

LEMMA StepInvHolds == Spec => []StepInv
<1>1. Init => (Plain => Steady)
  BY Initially
<1>2. TypeOK /\ (Plain => Steady) /\ [Next]_vars => (Plain => Steady)'
  <2> SUFFICES ASSUME TypeOK, Plain => Steady, [Next]_vars, Plain'
               PROVE  Steady'
    OBVIOUS
  <2>1. Plain
    BY DEF vars, Next, Tick, ClockSet, KeyDown, KeyUp, KeyRoll, ReadEvent, Plain
  <2> QED
    BY <2>1, SteadyPreserved
<1> QED
  BY <1>1, <1>2, TypeCorrect, PTL DEF Spec, StepInv

(* In step, the decoder enters the switch at a release and at nothing      *)
(* else, and rightly.                                                      *)
LEMMA ReadsRightly ==
  ASSUME TypeOK, Steady, synced, buf # <<>>, NEW e, e = Head(buf)
  PROVE  /\ Dispatches(press, e) <=> IsRelease(e)
         /\ IsRelease(e) => Dispatched(press, e) = [key |-> e.key, mode |-> ModeOf(e.held)]
<1>1. /\ e \in Event /\ e = buf[1] /\ 1 \in Slots /\ 1 \in 1 .. Len(buf) + 1
  BY HeadTailProperties, LenProperties, EmptySeq DEF TypeOK, Slots
<1>2. CASE e.type # "KEY"
  BY <1>2 DEF Dispatches, IsRelease
<1>3. CASE e.type = "KEY"
  <2>1. /\ e.key \in Keys /\ e.key # NoKey /\ e.value \in {0, 1} /\ e.held \in 0 .. MaxHold
    BY <1>1, <1>3, EventKinds, KeysAssumption
  <2>2. lastMsc = e.key
    BY <1>1, <1>3 DEF Steady, Chain, Heralded
  <2>3. Starts(e)
    <3>1. Coming(1) = e /\ Quiet(0, 1) /\ buf[1] # Dropped
      BY <1>1, <1>3 DEF Coming, Quiet, Dropped, Slots
    <3> QED
      BY <1>1, <1>3, <3>1 DEF Steady, Chain, Leads
  <2>4. CASE e.value = 1
    BY <2>3, <2>4 DEF Starts, Dispatches, IsRelease
  <2>5. CASE e.value = 0
    <3>1. press.keycode = e.key /\ Elapsed(e.time, press.usec) = e.held
      BY <2>3, <2>5 DEF Starts
    <3>2. Dispatches(press, e) /\ IsRelease(e)
      BY <1>3, <2>1, <2>5, <3>1 DEF Dispatches, IsRelease
    <3>3. Signed(e.held) = e.held
      BY <2>1, HoldAssumption, StreamAssumption, TimeAssumption DEF Signed
    <3> QED
      BY <3>1, <3>2, <3>3 DEF Dispatched, PressMode, ModeOf
  <2> QED
    BY <2>1, <2>4, <2>5
<1> QED
  BY <1>2, <1>3

(* Whatever it missed before, from the first whole release it reads until  *)
(* events are lost again the decoder acts at each release and at nothing   *)
(* else, for its button and in the mode its hold calls for: with any       *)
(* number of buttons, any clock, any threshold and a buffer of any size.   *)
THEOREM InStep == Spec => InStepIsExact
<1> DEFINE A == (ReadEvent /\ synced /\ hazards \subseteq {"late", "overflow"}) =>
       LET e == Head(buf) IN
         /\ Dispatches(press, e) <=> IsRelease(e)
         /\ IsRelease(e) => acted' = [key |-> e.key, mode |-> ModeOf(e.held)]
<1>1. StepInv => A
  <2> SUFFICES ASSUME StepInv, ReadEvent, synced, hazards \subseteq {"late", "overflow"}
               PROVE  LET e == Head(buf) IN
                        /\ Dispatches(press, e) <=> IsRelease(e)
                        /\ IsRelease(e) => acted' = [key |-> e.key, mode |-> ModeOf(e.held)]
    OBVIOUS
  <2>1. PICK e : e = Head(buf)
    OBVIOUS
  <2>2. TypeOK /\ Steady /\ buf # <<>>
    BY DEF StepInv, Plain, ReadEvent
  <2>3. /\ Dispatches(press, e) <=> IsRelease(e)
        /\ IsRelease(e) => Dispatched(press, e) = [key |-> e.key, mode |-> ModeOf(e.held)]
    BY <2>1, <2>2, ReadsRightly
  <2>4. acted' = IF Dispatches(press, e) THEN Dispatched(press, e) ELSE acted
    BY <2>1 DEF ReadEvent
  <2> QED
    BY <2>1, <2>3, <2>4
<1>2. StepInv => [A]_vars
  BY <1>1
<1> QED
  BY <1>2, StepInvHolds, PTL DEF Spec, InStepIsExact

-----------------------------------------------------------------------------
(* The releases of a buffer, in order.                                     *)

(* Induction: every nonempty set of numbers has a least element.           *)
LEMMA Least ==
  ASSUME NEW T \in SUBSET Nat, T # {}
  PROVE  \E n \in T : \A m \in T : n <= m
<1> DEFINE R == OpToRel(<, Nat)
<1>1. IsWellFoundedOn(R, Nat)
  BY NatLessThanWellFounded
<1>2. \A m, n \in Nat : <<m, n>> \in R <=> m < n
  BY DEF OpToRel
<1> HIDE DEF R
<1>3. PICK n \in T : \A m \in T : <<m, n>> \notin R
  BY <1>1, WFMin
<1>4. \A m \in T : n <= m
  <2> SUFFICES ASSUME NEW m \in T
               PROVE  n <= m
    OBVIOUS
  <2>1. m \in Nat /\ n \in Nat /\ ~(m < n)
    BY <1>2, <1>3
  <2> QED
    BY <2>1
<1> QED
  BY <1>4

LEMMA Induction ==
  ASSUME NEW T \in SUBSET Nat, 0 \in T, \A n \in T : n + 1 \in T
  PROVE  T = Nat
<1> SUFFICES ASSUME Nat \ T # {}
             PROVE  FALSE
  OBVIOUS
<1>1. PICK n \in Nat \ T : \A m \in Nat \ T : n <= m
  BY Least
<1>2. n # 0 /\ n - 1 \in Nat
  BY <1>1
<1>3. n - 1 \in T
  BY <1>1, <1>2
<1> QED
  BY <1>1, <1>2, <1>3

Call == [key : Keys, mode : Modes]

(* g collects the debts of b up to each of its first m events.             *)
Collects(g, b, m) ==
  /\ g \in [0 .. m -> Seq(Call)] /\ g[0] = <<>>
  /\ \A n \in 1 .. m :
       g[n] = IF IsRelease(b[n]) THEN Append(g[n - 1], Debt(b[n])) ELSE g[n - 1]

LEMMA DebtIsCall ==
  ASSUME NEW e \in Event, IsRelease(e)
  PROVE  Debt(e) \in Call
BY EventKinds DEF IsRelease, Debt, Call, Modes, ModeOf

LEMMA Collector ==
  ASSUME NEW b \in Seq(Event)
  PROVE  \E g : Collects(g, b, Len(b))
<1> DEFINE T == {m \in Nat : m <= Len(b) => \E g : Collects(g, b, m)}
<1>1. Len(b) \in Nat
  BY LenProperties
<1>2. 0 \in T
  <2>1. Collects([n \in 0 .. 0 |-> <<>>], b, 0)
    BY DEF Collects
  <2> QED
    BY <2>1
<1>3. ASSUME NEW m \in T PROVE m + 1 \in T
  <2> SUFFICES ASSUME m + 1 <= Len(b)
               PROVE  \E g : Collects(g, b, m + 1)
    OBVIOUS
  <2>1. m \in Nat /\ m <= Len(b) /\ m + 1 \in 1 .. Len(b) /\ b[m + 1] \in Event
    BY <1>1, ElementOfSeq
  <2>2. PICK g : Collects(g, b, m)
    BY <2>1
  <2> DEFINE last == IF IsRelease(b[m + 1]) THEN Append(g[m], Debt(b[m + 1])) ELSE g[m]
             h == [n \in 0 .. m + 1 |-> IF n <= m THEN g[n] ELSE last]
  <2>3. g[m] \in Seq(Call) /\ g \in [0 .. m -> Seq(Call)]
    BY <2>1, <2>2 DEF Collects
  <2>4. last \in Seq(Call)
    <3>1. CASE IsRelease(b[m + 1])
      <4>1. Debt(b[m + 1]) \in Call
        BY <2>1, <3>1, DebtIsCall
      <4> QED
        BY <2>3, <3>1, <4>1, AppendProperties
    <3>2. CASE ~IsRelease(b[m + 1])
      BY <2>3, <3>2
    <3> QED
      BY <3>1, <3>2
  <2>5. h[m + 1] = last /\ \A n \in 0 .. m : h[n] = g[n]
    BY <2>1
  <2>6. h \in [0 .. m + 1 -> Seq(Call)]
    BY <2>1, <2>3, <2>4
  <2> HIDE DEF h
  <2>7. h[0] = <<>>
    <3>1. 0 \in 0 .. m
      BY <2>1
    <3>2. g[0] = <<>>
      BY <2>2 DEF Collects
    <3> QED
      BY <2>5, <3>1, <3>2
  <2>8. ASSUME NEW n \in 1 .. m + 1
        PROVE  h[n] = IF IsRelease(b[n]) THEN Append(h[n - 1], Debt(b[n])) ELSE h[n - 1]
    <3>1. CASE n = m + 1
      BY <2>1, <2>5, <3>1
    <3>2. CASE n # m + 1
      <4>1. n \in 1 .. m /\ n \in 0 .. m /\ n - 1 \in 0 .. m
        BY <2>1, <3>2
      <4> QED
        BY <2>2, <2>5, <4>1 DEF Collects
    <3> QED
      BY <3>1, <3>2
  <2> QED
    BY <2>6, <2>7, <2>8 DEF Collects
<1>4. T = Nat
  <2> HIDE DEF T
  <2>1. T \in SUBSET Nat
    BY DEF T
  <2> QED
    BY <1>2, <1>3, <2>1, Induction
<1> QED
  BY <1>1, <1>4

LEMMA Collected ==
  ASSUME NEW b \in Seq(Event)
  PROVE  \E g : Collects(g, b, Len(b)) /\ Debts(b) = g[Len(b)]
<1> DEFINE n == Len(b)
           Rec(g) == [m \in 0 .. n |->
                        IF m = 0 THEN <<>>
                        ELSE IF IsRelease(b[m]) THEN Append(g[m - 1], Debt(b[m]))
                        ELSE g[m - 1]]
           d == CHOOSE g : g = Rec(g)
<1>1. n \in Nat
  BY LenProperties
<1>2. PICK c : Collects(c, b, n)
  BY Collector
<1>3. ASSUME NEW g
      PROVE  /\ Rec(g)[0] = <<>>
             /\ \A m \in 1 .. n :
                  Rec(g)[m] = IF IsRelease(b[m]) THEN Append(g[m - 1], Debt(b[m])) ELSE g[m - 1]
             /\ Rec(g) = [m \in 0 .. n |-> Rec(g)[m]]
  <2>1. n \in Nat /\ 0 \in 0 .. n /\ \A m \in 1 .. n : m \in 0 .. n /\ m # 0
    BY <1>1
  <2> HIDE DEF n
  <2> QED
    BY <2>1
<1>4. Debts(b) = d[n]
  BY DEF Debts
<1> HIDE DEF n, Rec
<1>5. c = Rec(c)
  <2>1. c = [m \in 0 .. n |-> c[m]] /\ c[0] = <<>>
    BY <1>2 DEF Collects
  <2>2. \A m \in 1 .. n : c[m] = Rec(c)[m]
    BY <1>2, <1>3 DEF Collects
  <2>3. \A m \in 0 .. n : m = 0 \/ m \in 1 .. n
    BY <1>1
  <2>4. \A m \in 0 .. n : c[m] = Rec(c)[m]
    BY <1>3, <2>1, <2>2, <2>3
  <2>5. Rec(c) = [m \in 0 .. n |-> Rec(c)[m]]
    BY <1>3
  <2> QED
    BY <2>1, <2>4, <2>5
<1>6. d = Rec(d)
  BY <1>5
<1> HIDE DEF d
<1>7. /\ d[0] = <<>>
      /\ \A m \in 1 .. n :
           d[m] = IF IsRelease(b[m]) THEN Append(d[m - 1], Debt(b[m])) ELSE d[m - 1]
  BY <1>3, <1>6
<1>8. \A m \in 0 .. n : d[m] = c[m]
  <2> DEFINE T == {m \in Nat : m <= n => d[m] = c[m]}
  <2>1. 0 \in T
    BY <1>2, <1>7 DEF Collects
  <2>2. ASSUME NEW m \in T PROVE m + 1 \in T
    <3> SUFFICES ASSUME m + 1 <= n
                 PROVE  d[m + 1] = c[m + 1]
      OBVIOUS
    <3>1. m + 1 \in 1 .. n /\ m + 1 - 1 = m /\ d[m] = c[m]
      BY <1>1
    <3> QED
      BY <1>2, <1>7, <3>1 DEF Collects
  <2>3. T = Nat
    <3> HIDE DEF T
    <3>1. T \in SUBSET Nat
      BY DEF T
    <3> QED
      BY <2>1, <2>2, <3>1, Induction
  <2> QED
    BY <1>1, <2>3
<1>9. d[n] = c[n] /\ n = Len(b)
  BY <1>1, <1>8 DEF n
<1> QED
  BY <1>2, <1>4, <1>9

LEMMA DebtsTyped ==
  ASSUME NEW b \in Seq(Event)
  PROVE  Debts(b) \in Seq(Call)
<1>1. PICK g : Collects(g, b, Len(b)) /\ Debts(b) = g[Len(b)]
  BY Collected
<1>2. Len(b) \in 0 .. Len(b)
  BY LenProperties
<1> QED
  BY <1>1, <1>2 DEF Collects

LEMMA DebtsNone == Debts(<<>>) = <<>>
<1>1. <<>> \in Seq(Event) /\ Len(<<>>) = 0
  BY EmptySeq
<1>2. PICK g : Collects(g, <<>>, Len(<<>>)) /\ Debts(<<>>) = g[Len(<<>>)]
  BY <1>1, Collected
<1> QED
  BY <1>1, <1>2 DEF Collects

(* One more event owes what it calls for.                                  *)
LEMMA DebtsAppend ==
  ASSUME NEW b \in Seq(Event), NEW e \in Event
  PROVE  Debts(Append(b, e)) = IF IsRelease(e) THEN Append(Debts(b), Debt(e)) ELSE Debts(b)
<1>1. PICK c : c = Append(b, e)
  OBVIOUS
<1>2. PICK n : n = Len(b)
  OBVIOUS
<1>3. /\ n \in Nat /\ c \in Seq(Event) /\ Len(c) = n + 1 /\ c[n + 1] = e
      /\ \A m \in 1 .. n : c[m] = b[m]
  BY <1>1, <1>2, AppendProperties, LenProperties
<1>4. PICK g : Collects(g, b, n) /\ Debts(b) = g[n]
  BY <1>2, Collected
<1>5. PICK h : Collects(h, c, n + 1) /\ Debts(c) = h[n + 1]
  BY <1>3, Collected
<1>6. h[0] = g[0]
  BY <1>4, <1>5 DEF Collects
<1>7. ASSUME NEW m \in Nat, m + 1 <= n, h[m] = g[m]
      PROVE  h[m + 1] = g[m + 1]
  <2>1. m + 1 \in 1 .. n /\ m + 1 \in 1 .. n + 1 /\ m + 1 - 1 = m
    BY <1>3, <1>7
  <2>2. g[m + 1] = IF IsRelease(b[m + 1]) THEN Append(g[m], Debt(b[m + 1])) ELSE g[m]
    BY <1>4, <2>1 DEF Collects
  <2>3. h[m + 1] = IF IsRelease(c[m + 1]) THEN Append(h[m], Debt(c[m + 1])) ELSE h[m]
    BY <1>5, <2>1 DEF Collects
  <2> QED
    BY <1>3, <1>7, <2>1, <2>2, <2>3
<1>8. h[n] = g[n]
  <2> DEFINE T == {m \in Nat : m <= n => h[m] = g[m]}
  <2>1. 0 \in T
    BY <1>6
  <2>2. ASSUME NEW m \in T PROVE m + 1 \in T
    <3>1. m \in Nat /\ m + 1 \in Nat /\ (m + 1 <= n => m <= n)
      BY <1>3
    <3> QED
      BY <1>7, <3>1
  <2>3. T \in SUBSET Nat
    OBVIOUS
  <2>4. n \in T => h[n] = g[n]
    BY <1>3
  <2> HIDE DEF T
  <2> QED
    BY <1>3, <2>1, <2>2, <2>3, <2>4, Induction
<1>9. h[n + 1] = IF IsRelease(e) THEN Append(h[n], Debt(e)) ELSE h[n]
  <2>1. n + 1 \in 1 .. n + 1 /\ n + 1 - 1 = n
    BY <1>3
  <2> QED
    BY <1>3, <1>5, <2>1 DEF Collects
<1> QED
  BY <1>1, <1>4, <1>5, <1>8, <1>9

(* The first event's debt comes first.                                     *)
LEMMA DebtsFirst ==
  ASSUME NEW b \in Seq(Event), b # <<>>
  PROVE  Debts(b) = (IF IsRelease(Head(b)) THEN <<Debt(Head(b))>> ELSE <<>>) \o Debts(Tail(b))
<1> DEFINE first == IF IsRelease(Head(b)) THEN <<Debt(Head(b))>> ELSE <<>>
<1>1. PICK c : c = Tail(b)
  OBVIOUS
<1>2. PICK n : n = Len(c)
  OBVIOUS
<1>3. /\ n \in Nat /\ c \in Seq(Event) /\ Len(b) = n + 1 /\ Head(b) = b[1] /\ Head(b) \in Event
      /\ \A m \in 1 .. n : c[m] = b[m + 1]
  BY <1>1, <1>2, HeadTailProperties, LenProperties, EmptySeq
<1>4. PICK g : Collects(g, b, n + 1) /\ Debts(b) = g[n + 1]
  BY <1>3, Collected
<1>5. PICK h : Collects(h, c, n) /\ Debts(c) = h[n]
  BY <1>2, <1>3, Collected
<1>6. first \in Seq(Call)
  BY <1>3, DebtIsCall
<1>7. g[1] = first
  <2>1. 1 \in 1 .. n + 1 /\ 1 - 1 = 0
    BY <1>3
  <2>2. g[1] = IF IsRelease(b[1]) THEN Append(g[0], Debt(b[1])) ELSE g[0]
    BY <1>4, <2>1 DEF Collects
  <2>3. g[0] = <<>>
    BY <1>4 DEF Collects
  <2> QED
    BY <1>3, <2>2, <2>3
<1> HIDE DEF first
<1>8. g[1] = first \o h[0]
  <2>1. h[0] = <<>>
    BY <1>5 DEF Collects
  <2> QED
    BY <1>6, <1>7, <2>1, ConcatEmptySeq
<1>9. ASSUME NEW m \in Nat, m + 1 <= n, g[m + 1] = first \o h[m]
      PROVE  g[m + 2] = first \o h[m + 1]
  <2>1. /\ m + 1 \in 1 .. n /\ m + 2 \in 1 .. n + 1 /\ m + 1 - 1 = m /\ m \in 0 .. n
        /\ m + 2 - 1 = m + 1 /\ m + 1 + 1 = m + 2
    BY <1>3, <1>9
  <2>2. PICK e : e = b[m + 2]
    OBVIOUS
  <2>3. e = c[m + 1] /\ e \in Event
    BY <1>2, <1>3, <2>1, <2>2, ElementOfSeq
  <2>4. h[m + 1] = IF IsRelease(e) THEN Append(h[m], Debt(e)) ELSE h[m]
    BY <1>5, <2>1, <2>3 DEF Collects
  <2>5. g[m + 2] = IF IsRelease(e) THEN Append(g[m + 1], Debt(e)) ELSE g[m + 1]
    BY <1>4, <2>1, <2>2 DEF Collects
  <2>6. PICK x : x = h[m]
    OBVIOUS
  <2>7. x \in Seq(Call)
    BY <1>5, <2>1, <2>6 DEF Collects
  <2>8. CASE IsRelease(e)
    <3>1. PICK d : d = Debt(e) /\ d \in Call
      BY <2>3, <2>8, DebtIsCall
    <3>2. <<d>> \in Seq(Call) /\ first \o x \in Seq(Call)
      BY <1>6, <2>7, <3>1, ConcatProperties
    <3>3. Append(first \o x, d) = (first \o x) \o <<d>>
      BY <3>1, <3>2, AppendIsConcat
    <3>4. Append(x, d) = x \o <<d>>
      BY <2>7, <3>1, AppendIsConcat
    <3>5. (first \o x) \o <<d>> = first \o (x \o <<d>>)
      <4>1. PICK y : y = <<d>>
        OBVIOUS
      <4>2. y \in Seq(Call)
        BY <3>2, <4>1
      <4>3. (first \o x) \o y = first \o (x \o y)
        BY <1>6, <2>7, <4>2, ConcatAssociative
      <4> QED
        BY <4>1, <4>3
    <3> QED
      BY <1>9, <2>4, <2>5, <2>6, <2>8, <3>1, <3>3, <3>4, <3>5
  <2>9. CASE ~IsRelease(e)
    BY <1>9, <2>4, <2>5, <2>9
  <2> QED
    BY <2>8, <2>9
<1>10. g[n + 1] = first \o h[n]
  <2> DEFINE T == {m \in Nat : m <= n => g[m + 1] = first \o h[m]}
  <2>1. 0 \in T
    BY <1>8, 0 + 1 = 1
  <2>2. ASSUME NEW m \in T PROVE m + 1 \in T
    <3>1. m \in Nat /\ m + 1 \in Nat /\ (m + 1 <= n => m <= n) /\ m + 1 + 1 = m + 2
      BY <1>3
    <3> QED
      BY <1>9, <3>1
  <2>3. T \in SUBSET Nat
    OBVIOUS
  <2>4. n \in T => g[n + 1] = first \o h[n]
    BY <1>3
  <2> HIDE DEF T
  <2> QED
    BY <1>3, <2>1, <2>2, <2>3, <2>4, Induction
<1> QED
  BY <1>1, <1>4, <1>5, <1>10 DEF first

-----------------------------------------------------------------------------
(* The decoder implements Buttons where nothing goes wrong.                *)

(* Then nothing is ever missed.                                            *)
Whole == synced /\ \A i \in Slots : buf[i] # Dropped

LEMMA JoinWhole ==
  ASSUME buf \in Seq(Event), Len(buf) < BufSize, Whole, hazards = {}, synced' = synced,
         NEW s \in Seq(Event), \A i \in 1 .. Len(s) : s[i] # Dropped, Emit(s)
  PROVE  Whole'
<1>1. /\ buf' \in Seq(Event) /\ Len(buf') = Len(buf) + Len(s)
      /\ \A i \in 1 .. Len(buf) : buf'[i] = buf[i]
      /\ \A i \in 1 .. Len(s) : buf'[Len(buf) + i] = s[i]
  BY Emitted
<1>2. Len(buf) \in Nat /\ Len(s) \in Nat
  BY LenProperties
<1>3. ASSUME NEW i \in 1 .. Len(buf) + Len(s) PROVE buf'[i] # Dropped
  <2>1. CASE i \in 1 .. Len(buf)
    BY <1>1, <2>1 DEF Whole, Slots
  <2>2. CASE i \notin 1 .. Len(buf)
    <3>1. i - Len(buf) \in 1 .. Len(s) /\ Len(buf) + (i - Len(buf)) = i
      BY <1>2, <2>2
    <3>2. buf'[i] = s[i - Len(buf)]
      BY <1>1, <3>1
    <3> QED
      BY <3>1, <3>2
  <2> QED
    BY <2>1, <2>2
<1> QED
  BY <1>1, <1>3 DEF Whole, Slots

(* What joins a buffer that has room.                                      *)
LEMMA PacketOwes ==
  ASSUME TypeOK, hazards = {}, NEW k \in Keys, NEW v \in {0, 1}, Emit(Packet(k, v))
  PROVE  /\ v = 1 => Owed' = Owed
         /\ v = 0 => Owed' = Append(Owed, [key |-> k, mode |-> ModeOf(held[k])])
         /\ Whole /\ synced' = synced => Whole'
<1>1. PICK e : e = KeyEvent(k, v)
  OBVIOUS
<1>2. PICK b : b = buf
  OBVIOUS
<1>3. e \in Event /\ Msc(k) \in Event /\ Syn \in Event /\ b \in Seq(Event)
  BY <1>1, <1>2, ReportTyped DEF TypeOK
<1>4. PICK s : s = <<Msc(k), e, Syn>>
  OBVIOUS
<1>5. s \in Seq(Event) /\ Len(s) = 3 /\ s[1] = Msc(k) /\ s[2] = e /\ s[3] = Syn
  BY <1>3, <1>4
<1>6. Emit(s) /\ buf' = b \o s
  BY <1>1, <1>2, <1>4 DEF Packet, Emit
<1>7. /\ ~IsRelease(Msc(k)) /\ ~IsRelease(Syn) /\ (IsRelease(e) <=> v = 0)
      /\ Debt(e) = [key |-> k, mode |-> ModeOf(held[k])]
  BY <1>1, EventFields DEF IsRelease, Debt
<1>8. PICK b1 : b1 = Append(b, Msc(k))
  OBVIOUS
<1>9. PICK b2 : b2 = Append(b1, e)
  OBVIOUS
<1>10. b1 \in Seq(Event) /\ b2 \in Seq(Event)
  BY <1>3, <1>8, <1>9, AppendProperties
<1>11. buf' = Append(b2, Syn)
  BY <1>3, <1>4, <1>6, <1>8, <1>9
<1>12. Debts(b1) = Debts(b)
  BY <1>3, <1>7, <1>8, DebtsAppend
<1>13. Debts(b2) = IF v = 0 THEN Append(Debts(b), Debt(e)) ELSE Debts(b)
  BY <1>3, <1>7, <1>9, <1>10, <1>12, DebtsAppend
<1>14. Debts(Append(b2, Syn)) = Debts(b2)
  BY <1>3, <1>7, <1>10, DebtsAppend
<1>15. Owed' = Debts(Append(b2, Syn)) /\ Owed = Debts(b)
  BY <1>2, <1>11 DEF Owed
<1>16. Whole /\ synced' = synced => Whole'
  <2>1. \A i \in 1 .. Len(s) : s[i] # Dropped
    <3>1. Msc(k) # Dropped /\ e # Dropped /\ Syn # Dropped
      BY <1>1, EventFields
    <3>2. \A i \in 1 .. 3 : i = 1 \/ i = 2 \/ i = 3
      OBVIOUS
    <3> QED
      BY <1>5, <3>1, <3>2
  <2> QED
    BY <1>5, <1>6, <2>1, JoinWhole DEF TypeOK
<1> QED
  BY <1>7, <1>13, <1>14, <1>15, <1>16

LEMMA RollOwes ==
  ASSUME TypeOK, hazards = {}, NEW k \in Keys, NEW l \in Keys, Emit(RollPacket(k, l))
  PROVE  /\ Owed' = Append(Owed, [key |-> k, mode |-> ModeOf(held[k])])
         /\ Whole /\ synced' = synced => Whole'
<1>1. PICK e : e = KeyEvent(k, 0)
  OBVIOUS
<1>2. PICK f : f = KeyEvent(l, 1)
  OBVIOUS
<1>3. PICK b : b = buf
  OBVIOUS
<1>4. /\ e \in Event /\ f \in Event /\ Msc(k) \in Event /\ Msc(l) \in Event /\ Syn \in Event
      /\ b \in Seq(Event)
  BY <1>1, <1>2, <1>3, ReportTyped DEF TypeOK
<1>5. PICK s : s = <<Msc(k), e, Msc(l), f, Syn>>
  OBVIOUS
<1>6. /\ s \in Seq(Event) /\ Len(s) = 5
      /\ s[1] = Msc(k) /\ s[2] = e /\ s[3] = Msc(l) /\ s[4] = f /\ s[5] = Syn
  BY <1>4, <1>5
<1>7. Emit(s) /\ buf' = b \o s
  BY <1>1, <1>2, <1>3, <1>5 DEF RollPacket, Emit
<1>8. /\ ~IsRelease(Msc(k)) /\ ~IsRelease(Msc(l)) /\ ~IsRelease(Syn) /\ ~IsRelease(f)
      /\ IsRelease(e) /\ Debt(e) = [key |-> k, mode |-> ModeOf(held[k])]
  BY <1>1, <1>2, EventFields DEF IsRelease, Debt
<1>9. PICK b1 : b1 = Append(b, Msc(k))
  OBVIOUS
<1>10. PICK b2 : b2 = Append(b1, e)
  OBVIOUS
<1>11. PICK b3 : b3 = Append(b2, Msc(l))
  OBVIOUS
<1>12. PICK b4 : b4 = Append(b3, f)
  OBVIOUS
<1>13. b1 \in Seq(Event) /\ b2 \in Seq(Event) /\ b3 \in Seq(Event) /\ b4 \in Seq(Event)
  BY <1>4, <1>9, <1>10, <1>11, <1>12, AppendProperties
<1>14. buf' = Append(b4, Syn)
  BY <1>4, <1>5, <1>7, <1>9, <1>10, <1>11, <1>12
<1>15. /\ Debts(b1) = Debts(b) /\ Debts(b2) = Append(Debts(b1), Debt(e))
       /\ Debts(b3) = Debts(b2) /\ Debts(b4) = Debts(b3)
       /\ Debts(Append(b4, Syn)) = Debts(b4)
  BY <1>4, <1>8, <1>9, <1>10, <1>11, <1>12, <1>13, DebtsAppend
<1>16. Owed' = Debts(Append(b4, Syn)) /\ Owed = Debts(b)
  BY <1>3, <1>14 DEF Owed
<1>17. Whole /\ synced' = synced => Whole'
  <2>1. \A i \in 1 .. Len(s) : s[i] # Dropped
    <3>1. Msc(k) # Dropped /\ e # Dropped /\ Msc(l) # Dropped /\ f # Dropped /\ Syn # Dropped
      BY <1>1, <1>2, EventFields
    <3>2. \A i \in 1 .. 5 : i = 1 \/ i = 2 \/ i = 3 \/ i = 4 \/ i = 5
      OBVIOUS
    <3> QED
      BY <1>6, <3>1, <3>2
  <2> QED
    BY <1>6, <1>7, <2>1, JoinWhole DEF TypeOK
<1> QED
  BY <1>8, <1>15, <1>16, <1>17

(* What leaves it.                                                         *)
LEMMA ReadOwes ==
  ASSUME TypeOK, Steady, Whole, hazards = {}, ReadEvent
  PROVE  /\ Whole'
         /\ \/ Owed # <<>> /\ acted' = Head(Owed) /\ Owed' = Tail(Owed)
            \/ UNCHANGED <<Owed, acted>>
<1>1. PICK e : e = Head(buf)
  OBVIOUS
<1>2. PICK b : b = buf
  OBVIOUS
<1>3. /\ b # <<>> /\ b \in Seq(Event) /\ buf' = Tail(b) /\ Tail(b) \in Seq(Event)
      /\ Len(Tail(b)) = Len(b) - 1 /\ Len(b) \in Nat
      /\ \A i \in 1 .. Len(Tail(b)) : Tail(b)[i] = b[i + 1]
      /\ e = b[1] /\ 1 \in 1 .. Len(b) /\ e \in Event
  BY <1>1, <1>2, HeadTailProperties, LenProperties, EmptySeq DEF ReadEvent, TypeOK
<1>4. Whole'
  <2>1. e.type # "SYN_DROPPED"
    BY <1>2, <1>3, EventKinds DEF Whole, Slots
  <2>2. synced' = CASE e.type = "SYN_DROPPED"              -> FALSE
                    [] IsRelease(e) /\ lastMsc = e.key     -> TRUE
                    [] OTHER                               -> synced
    BY <1>1 DEF ReadEvent
  <2>3. synced /\ synced'
    BY <2>1, <2>2, Zenon DEF Whole
  <2>4. ASSUME NEW i \in 1 .. Len(Tail(b)) PROVE Tail(b)[i] # Dropped
    <3>1. i + 1 \in 1 .. Len(b) /\ Tail(b)[i] = b[i + 1]
      BY <1>3
    <3> QED
      BY <1>2, <3>1 DEF Whole, Slots
  <2> QED
    BY <1>3, <2>3, <2>4 DEF Whole, Slots
<1>5. /\ Dispatches(press, e) <=> IsRelease(e)
      /\ IsRelease(e) => Dispatched(press, e) = Debt(e)
  BY <1>1, <1>2, <1>3, ReadsRightly DEF Whole, Debt
<1>6. acted' = IF Dispatches(press, e) THEN Dispatched(press, e) ELSE acted
  BY <1>1 DEF ReadEvent
<1>7. /\ Owed = (IF IsRelease(e) THEN <<Debt(e)>> ELSE <<>>) \o Owed'
      /\ Owed' \in Seq(Call)
  <2>1. Debts(b) = (IF IsRelease(Head(b)) THEN <<Debt(Head(b))>> ELSE <<>>) \o Debts(Tail(b))
    BY <1>3, DebtsFirst
  <2>2. Owed' = Debts(Tail(b)) /\ Owed = Debts(b)
    BY <1>2, <1>3 DEF Owed
  <2> QED
    BY <1>1, <1>2, <1>3, <2>1, <2>2, DebtsTyped
<1>8. CASE IsRelease(e)
  <2>1. PICK d : d = Debt(e) /\ d \in Call
    BY <1>3, <1>8, DebtIsCall
  <2>2. PICK q : q = Owed' /\ q \in Seq(Call)
    BY <1>7
  <2>3. Owed = <<d>> \o q
    BY <1>7, <1>8, <2>1, <2>2
  <2>4. <<d>> \o q # <<>> /\ Head(<<d>> \o q) = d /\ Tail(<<d>> \o q) = q
    BY <2>1, <2>2
  <2> QED
    BY <1>4, <1>5, <1>6, <1>8, <2>1, <2>2, <2>3, <2>4
<1>9. CASE ~IsRelease(e)
  <2>1. Owed = Owed'
    BY <1>7, <1>9, ConcatEmptySeq
  <2> QED
    BY <1>4, <1>5, <1>6, <1>9, <2>1
<1> QED
  BY <1>8, <1>9

(* Every step of the stream and the decoder is one of Buttons', or none.   *)
LEMMA StepMaps ==
  ASSUME TypeOK, Steady, Whole, hazards = {}, [Next]_vars
  PROVE  Whole' /\ [Promise!Next]_(Promise!vars)
<1>1. CASE UNCHANGED vars
  BY <1>1 DEF vars, Whole, Slots, Owed, Promise!vars
<1>2. CASE Tick
  <2>1. Whole' /\ UNCHANGED Owed
    BY <1>2 DEF Tick, Whole, Slots, Owed
  <2>2. Promise!TimePasses
    BY <1>2, <2>1 DEF Tick, Promise!TimePasses
  <2> QED
    BY <2>1, <2>2 DEF Promise!Next
<1>3. CASE ClockSet
  BY <1>3 DEF ClockSet
<1>4. ASSUME NEW k \in Keys, KeyDown(k)
      PROVE  Whole' /\ [Promise!Next]_(Promise!vars)
  <2>1. /\ k \notin down /\ down' = down \cup {k} /\ Emit(Packet(k, 1))
        /\ UNCHANGED <<held, acted, synced>>
    BY <1>4 DEF KeyDown
  <2>2. UNCHANGED Owed /\ Whole'
    BY <2>1, PacketOwes
  <2>3. Promise!Push(k)
    BY <2>1, <2>2 DEF Promise!Push
  <2> QED
    BY <2>2, <2>3 DEF Promise!Next
<1>5. ASSUME NEW k \in Keys, KeyUp(k)
      PROVE  Whole' /\ [Promise!Next]_(Promise!vars)
  <2>1. /\ k \in down /\ down' = down \ {k} /\ Emit(Packet(k, 0))
        /\ held' = [held EXCEPT ![k] = 0] /\ UNCHANGED <<acted, synced>>
    BY <1>5 DEF KeyUp
  <2>2. 0 \in {0, 1} /\ 0 # 1
    OBVIOUS
  <2>3. Owed' = Append(Owed, [key |-> k, mode |-> ModeOf(held[k])]) /\ Whole'
    BY <2>1, <2>2, PacketOwes
  <2>4. Promise!Release(k)
    BY <2>1, <2>3 DEF Promise!Release, Promise!Due, Promise!ModeOf, ModeOf
  <2> QED
    BY <2>3, <2>4 DEF Promise!Next
<1>6. ASSUME NEW k \in Keys, NEW l \in Keys, KeyRoll(k, l)
      PROVE  Whole' /\ [Promise!Next]_(Promise!vars)
  <2>1. /\ k \in down /\ l \notin down /\ down' = (down \ {k}) \cup {l} /\ Emit(RollPacket(k, l))
        /\ held' = [held EXCEPT ![k] = 0] /\ UNCHANGED <<acted, synced>>
    BY <1>6 DEF KeyRoll
  <2>2. Owed' = Append(Owed, [key |-> k, mode |-> ModeOf(held[k])]) /\ Whole'
    BY <2>1, RollOwes
  <2>3. Promise!Roll(k, l)
    BY <2>1, <2>2 DEF Promise!Roll, Promise!Due, Promise!ModeOf, ModeOf
  <2> QED
    BY <2>2, <2>3 DEF Promise!Next
<1>7. CASE ReadEvent
  <2>1. /\ Whole' /\ UNCHANGED <<down, held>>
        /\ \/ Owed # <<>> /\ acted' = Head(Owed) /\ Owed' = Tail(Owed)
           \/ UNCHANGED <<Owed, acted>>
    BY <1>7, ReadOwes DEF ReadEvent
  <2>2. CASE Owed # <<>> /\ acted' = Head(Owed) /\ Owed' = Tail(Owed)
    <3>1. Promise!Act
      BY <2>1, <2>2 DEF Promise!Act
    <3> QED
      BY <2>1, <3>1 DEF Promise!Next
  <2>3. CASE UNCHANGED <<Owed, acted>>
    BY <2>1, <2>3 DEF Promise!vars
  <2> QED
    BY <2>1, <2>2, <2>3
<1> QED
  BY <1>1, <1>2, <1>3, <1>4, <1>5, <1>6, <1>7 DEF Next

(* Where nothing goes wrong with the stream, the decoder does what Buttons *)
(* promises, step by step: each release is acted upon once, in the order   *)
(* of the releases and in the mode its hold calls for, and nothing else    *)
(* is; whatever the clock reads, a press stamped 0 included, for any       *)
(* buttons, clock, threshold and buffer.                                   *)
THEOREM DecoderKeepsPromise ==
  Spec /\ hazards = {} => Promise!Init /\ [][Promise!Next]_(Promise!vars)
<1>1. Init /\ hazards = {} => Whole /\ Promise!Init
  <2> SUFFICES ASSUME Init, hazards = {}
               PROVE  Whole /\ Promise!Init
    OBVIOUS
  <2>1. /\ buf = <<>> /\ synced /\ down = {} /\ held = [k \in Keys |-> 0]
        /\ acted = [key |-> NoKey, mode |-> "NORMAL"]
    BY DEF Init
  <2>2. Slots = {}
    BY <2>1 DEF Slots
  <2>3. Owed = <<>>
    BY <2>1, DebtsNone DEF Owed
  <2> QED
    BY <2>1, <2>2, <2>3 DEF Whole, Promise!Init
<1>2. StepInv /\ Whole /\ hazards = {} /\ [Next]_vars => Whole' /\ [Promise!Next]_(Promise!vars)
  BY StepMaps DEF StepInv, Plain
<1>3. hazards = {} /\ [Next]_vars => (hazards = {})'
  BY DEF vars, Next, Tick, ClockSet, KeyDown, KeyUp, KeyRoll, ReadEvent
<1> QED
  BY <1>1, <1>2, <1>3, StepInvHolds, PTL DEF Spec
=============================================================================
