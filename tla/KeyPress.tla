------------------------------ MODULE KeyPress ------------------------------
(***************************************************************************)
(* The decoder of the main loop fed by the button stream of one open       *)
(* remote: the remote's buttons, the kernel's evdev client buffer and the  *)
(* decoder, one action per physical change and one per input_event read.   *)
(*                                                                         *)
(* The device, its discovery and its disappearance are in EventLoop; here  *)
(* it stays open.  The stream has what makes decoding hard: presses and    *)
(* releases of several buttons, a descriptor opened while a button is held *)
(* (the remote reconnects because a button was pushed), a full kernel      *)
(* buffer (the daemon sits in a Binder call) and a wall clock that is set  *)
(* while a button is down.                                                 *)
(***************************************************************************)
EXTENDS KeyDecoder, Sequences, FiniteSets

CONSTANTS
  MaxHold,     (* bound: a button is held at most this long                *)
  BufSize,     (* slots of the evdev client buffer                         *)
  Streams      (* what may go wrong with the stream, one set for each kind *)
               (* of stream to look at; see Hazards                        *)

Hazards ==
  { "late",       (* the descriptor is opened while a button is held       *)
    "overflow",   (* the buffer fills up faster than the daemon reads      *)
    "clock",      (* the wall clock is set                                 *)
    "chord" }     (* the remote reports two buttons held at the same time  *)

ASSUME StreamAssumption ==
  /\ MaxHold \in Nat
  /\ BufSize \in Nat /\ BufSize > 6
  /\ Streams \subseteq SUBSET Hazards

(* A remote has so many buttons; the decoder compares times 32 bits wide,  *)
(* so no button is held for half the clock's range (35 minutes).           *)
ASSUME ButtonsAssumption == IsFiniteSet(Keys)
ASSUME HoldAssumption == 2 * MaxHold < Modulus

VARIABLES
  hazards,  (* what may go wrong in this behaviour                         *)
  now,      (* the clock evdev stamps events with                          *)
  down,     (* buttons being held                                          *)
  held,     (* how long each has been held                                 *)
  buf,      (* events in the client buffer, oldest first                   *)
  press,    (* press_keycode and press_usec                                *)
  acted,    (* the switch's last entry: key and mode                       *)
  lastMsc,  (* auxiliary: the scan value if the last event read was EV_MSC *)
  synced    (* auxiliary: no event was missed since a release was read     *)

vars == <<hazards, now, down, held, buf, press, acted, lastMsc, synced>>

MaxDown == IF "chord" \in hazards THEN 2 ELSE 1

Modes == {"NORMAL", "LONG_PRESS"}

(* What the hold time says the mode must be.                               *)
ModeOf(h) == IF h < Threshold THEN "NORMAL" ELSE "LONG_PRESS"

-----------------------------------------------------------------------------
(* The kernel's side.  A key event carries, besides what the daemon reads, *)
(* the button that caused it and how long that button had been held.       *)

KeyEvent(k, v) ==
  [type |-> "KEY", value |-> v, time |-> now, key |-> k, held |-> held[k]]

Packet(k, v) == <<Msc(k), KeyEvent(k, v), Syn>>

(* The report in which button l replaces button k.                         *)
RollPacket(k, l) == <<Msc(k), KeyEvent(k, 0), Msc(l), KeyEvent(l, 1), Syn>>

Dropped == [type |-> "SYN_DROPPED"]

(* __pass_event stores event by event.  The first that finds the ring full *)
(* replaces all before it by SYN_DROPPED; the rest of the report has room  *)
(* behind it.                                                              *)
Fits(events)   == Len(buf) + Len(events) < BufSize
Newest(events) == SubSeq(events, BufSize - Len(buf), Len(events))

Emit(events) ==
  \/ Fits(events) /\ buf' = buf \o events
  \/ /\ "overflow" \in hazards /\ ~Fits(events)
     /\ buf' = <<Dropped>> \o Newest(events)

-----------------------------------------------------------------------------
Init ==
  /\ hazards \in Streams
  /\ now \in Stamp
  /\ down \in SUBSET Keys
  /\ Cardinality(down) <= MaxDown /\ ("late" \notin hazards => down = {})
  /\ held = [k \in Keys |-> 0]
  /\ buf = <<>>
  /\ press = Idle
  /\ acted = [key |-> NoKey, mode |-> "NORMAL"]
  /\ lastMsc = NoKey
  /\ synced = (down = {})

Tick ==
  /\ now' = IF now = Modulus - 1 THEN 0 ELSE now + 1
  /\ held' = [k \in Keys |-> IF k \in down THEN held[k] + 1 ELSE held[k]]
  /\ \A k \in Keys : held'[k] <= MaxHold
  /\ UNCHANGED <<hazards, down, buf, press, acted, lastMsc, synced>>

(* CLOCK_REALTIME is set; time does not pass.                              *)
ClockSet ==
  /\ "clock" \in hazards
  /\ now' \in Stamp
  /\ UNCHANGED <<hazards, down, held, buf, press, acted, lastMsc, synced>>

KeyDown(k) ==
  /\ k \notin down
  /\ Cardinality(down) < MaxDown
  /\ down' = down \cup {k}
  /\ Emit(Packet(k, 1))
  /\ UNCHANGED <<hazards, now, held, press, acted, lastMsc, synced>>

KeyUp(k) ==
  /\ k \in down
  /\ down' = down \ {k}
  /\ held' = [held EXCEPT ![k] = 0]
  /\ Emit(Packet(k, 0))
  /\ UNCHANGED <<hazards, now, press, acted, lastMsc, synced>>

(* A remote that reports one button at a time: pushing l releases k.       *)
KeyRoll(k, l) ==
  /\ Cardinality(down) = MaxDown
  /\ k \in down
  /\ l \notin down
  /\ down' = (down \ {k}) \cup {l}
  /\ held' = [held EXCEPT ![k] = 0]
  /\ Emit(RollPacket(k, l))
  /\ UNCHANGED <<hazards, now, press, acted, lastMsc, synced>>

-----------------------------------------------------------------------------
(* The daemon's side.                                                      *)

IsRelease(e) == e.type = "KEY" /\ e.value = 0

(* One turn of the loop with POLLIN on the remote: read one event, decode  *)
(* it and, when the decoder says so, enter the switch.                     *)
ReadEvent ==
  /\ buf # <<>>
  /\ LET e == Head(buf) IN
       /\ press' = Decode(press, e)
       /\ acted' = IF Dispatches(press, e) THEN Dispatched(press, e) ELSE acted
       /\ lastMsc' = IF e.type = "MSC" THEN e.value ELSE NoKey
       /\ synced' = CASE e.type = "SYN_DROPPED"              -> FALSE
                      [] IsRelease(e) /\ lastMsc = e.key     -> TRUE
                      [] OTHER                               -> synced
  /\ buf' = Tail(buf)
  /\ UNCHANGED <<hazards, now, down, held>>

Next ==
  \/ Tick
  \/ ClockSet
  \/ \E k \in Keys : KeyDown(k) \/ KeyUp(k)
  \/ \E k, l \in Keys : KeyRoll(k, l)
  \/ ReadEvent

(* The remote and the clock owe nothing; the daemon keeps reading.         *)
Spec == Init /\ [][Next]_vars /\ WF_vars(ReadEvent)

-----------------------------------------------------------------------------
Event ==
       [type : {"MSC"}, value : Keys]
  \cup [type : {"KEY"}, value : {0, 1}, time : Stamp, key : Keys, held : 0 .. MaxHold]
  \cup {Syn, Dropped}

(* The type invariant of the stream and the decoder; the buffer never      *)
(* holds more than one event less than its size (__pass_event), and no     *)
(* time stamp is kept without a button to go with it: whatever path main   *)
(* leaves the decoder by, it clears both locals or press_usec is clear.    *)
TypeOK ==
  /\ hazards \in Streams
  /\ now \in Stamp
  /\ down \subseteq Keys
  /\ held \in [Keys -> 0 .. MaxHold]
  /\ buf \in Seq(Event) /\ Len(buf) < BufSize
  /\ press \in Press
  /\ acted \in [key : Keys \cup {NoKey}, mode : Modes]
  /\ lastMsc \in Keys \cup {NoKey}
  /\ synced \in BOOLEAN
  /\ press.keycode = NoKey => press.usec = 0

(* The releases in a buffer, as what they call for.                        *)
Debt(e) == [key |-> e.key, mode |-> ModeOf(e.held)]
Debts(b) ==
  LET debts[n \in 0 .. Len(b)] ==
        IF n = 0 THEN <<>>
        ELSE IF IsRelease(b[n]) THEN Append(debts[n - 1], Debt(b[n]))
        ELSE debts[n - 1]
  IN  debts[Len(b)]
Owed == Debts(buf)

Promise == INSTANCE Buttons WITH owed <- Owed

(* With one button at a time, the descriptor open before the first press,  *)
(* holds shorter than half the clock's range and a daemon that keeps up,   *)
(* main's decoder acts on every release once, in order and in the right    *)
(* mode, whatever the clock reads when the presses come - also when a      *)
(* press is stamped 0, the value that means "no press".                    *)
ActsAsPromised == Promise!Spec

(* Whatever the decoder missed - events dropped from a full kernel buffer, *)
(* a press made before the descriptor was open - reading one whole release *)
(* brings it back in step: from then on, until events are missed again,    *)
(* it enters the switch at every release and at nothing else, with the     *)
(* released button and the mode its hold time calls for.                   *)
InStepIsExact ==
  [][(ReadEvent /\ synced /\ hazards \subseteq {"late", "overflow"}) =>
       LET e == Head(buf) IN
         /\ Dispatches(press, e) <=> IsRelease(e)
         /\ IsRelease(e) => acted' = [key |-> e.key, mode |-> ModeOf(e.held)]
    ]_vars

(* Buttons held together, a clock set under a held button and a descriptor *)
(* opened late can cost a release or its mode, but the switch is only ever *)
(* entered by the release of the very button it acts for: no action on a   *)
(* push and none in another button's name (the "dispatched when the        *)
(* button is released" of the README, for a buffer that does not overflow).*)
OnlyReleasesAct ==
  [][(ReadEvent /\ Dispatches(press, Head(buf)) /\ "overflow" \notin hazards) =>
       /\ IsRelease(Head(buf))
       /\ acted'.key = Head(buf).key
    ]_vars
=============================================================================
