----------------------------- MODULE KeyDecoder -----------------------------
(***************************************************************************)
(* The button decoder inside the daemon's main loop                        *)
(* (native/g20dispatcher.c, main, the part of the loop body after the      *)
(* read of one struct input_event).                                        *)
(*                                                                         *)
(* The decoder keeps two locals of main: press_keycode, the scan value of  *)
(* the button being tracked, and press_usec, the time stamp of its press.  *)
(* Both use zero for "nothing".  They are modelled by one record          *)
(*                                                                         *)
(*     [keycode |-> a key or NoKey, usec |-> a time stamp]                 *)
(*                                                                         *)
(* and the loop body by pure operators on it, so that the button-stream    *)
(* specification (KeyPress) and the event-loop specification (EventLoop)   *)
(* run the same decoder.                                                   *)
(*                                                                         *)
(* Time stamps.  event.input_event_sec * 1000000L + event.input_event_usec *)
(* is computed in long, 32 bits on the armeabi-v7a build, and the real-    *)
(* time clock left that range long ago: the arithmetic wraps on every      *)
(* event.  A time stamp is therefore a residue in 0 .. Modulus-1           *)
(* (Modulus is 2^32 in the program) read as a signed number when it is     *)
(* compared.  In C the overflow is undefined; wrapping is the outcome the  *)
(* build produces.                                                         *)
(***************************************************************************)
EXTENDS Integers

CONSTANTS
  Keys,       (* scan values (MSC_SCAN) of the remote's buttons            *)
  NoKey,      (* the value 0 of press_keycode                              *)
  Modulus,    (* number of values of suseconds_t                           *)
  Threshold   (* KEY_HOLD_THRESHOLD_US                                     *)

ASSUME KeysAssumption == NoKey \notin Keys
ASSUME TimeAssumption ==
  /\ Modulus \in Nat
  /\ Threshold \in Nat
  /\ 0 < Threshold
  /\ 2 * Threshold < Modulus

Stamp == 0 .. Modulus - 1

(***************************************************************************)
(* struct input_event, with the fields the decoder looks at.  EV_SYN       *)
(* carries nothing for it; the code of EV_KEY and EV_MSC is never read.    *)
(***************************************************************************)
Msc(k)       == [type |-> "MSC", value |-> k]
Key(v, t)    == [type |-> "KEY", value |-> v, time |-> t]
Syn          == [type |-> "SYN"]

Press == [keycode : Keys \cup {NoKey}, usec : Stamp]
Idle  == [keycode |-> NoKey, usec |-> 0]

-----------------------------------------------------------------------------
(* The hold time.                                                          *)

(* press_usec subtracted from the event's stamp, both in 32 bits; the      *)
(* difference of the residues (mutant).                                    *)
ElapsedUnwrapped(t, p) == t - p
Elapsed(t, p) == IF t >= p THEN t - p ELSE t - p + Modulus

(* The residue read as a signed long.                                      *)
Signed(u) == IF 2 * u >= Modulus THEN u - Modulus ELSE u

PressMode(t, p) ==
  IF Signed(Elapsed(t, p)) < Threshold THEN "NORMAL" ELSE "LONG_PRESS"

-----------------------------------------------------------------------------
(* One event through the decoder.                                          *)

(* EV_MSC: start tracking, or give up when another button interrupts.      *)
(* Mutants: only the button is forgotten; the other button is ignored.     *)
OnMscKeepsTime(press, k) ==
  IF press.keycode = NoKey THEN [press EXCEPT !.keycode = k]
  ELSE IF k # press.keycode THEN [press EXCEPT !.keycode = NoKey]
  ELSE press

OnMscIgnoresOther(press, k) ==
  IF press.keycode = NoKey THEN [press EXCEPT !.keycode = k] ELSE press

OnMsc(press, k) ==
  IF press.keycode = NoKey THEN [press EXCEPT !.keycode = k]
  ELSE IF k # press.keycode THEN Idle
  ELSE press

(* The press of a button: only its time is noted.                          *)
StartsTiming(press, e) == press.usec = 0 /\ e.value = 1

(* An EV_KEY that reaches the switch: the code falls through to it on a    *)
(* release, and on any EV_KEY while a press is being timed.                *)
Dispatches(press, e) ==
  /\ e.type = "KEY"
  /\ press.keycode # NoKey
  /\ press.usec = 0 => e.value = 0

(* What the switch is entered with.                                        *)
Dispatched(press, e) ==
  [key |-> press.keycode, mode |-> PressMode(e.time, press.usec)]

(* The press is over once it is dispatched; only the button is forgotten   *)
(* (mutant).                                                               *)
OnKeyKeepsTime(press, e) ==
  IF press.keycode = NoKey THEN press
  ELSE IF StartsTiming(press, e) THEN [press EXCEPT !.usec = e.time]
  ELSE IF Dispatches(press, e) THEN [press EXCEPT !.keycode = NoKey]
  ELSE press

OnKey(press, e) ==
  IF press.keycode = NoKey THEN press
  ELSE IF StartsTiming(press, e) THEN [press EXCEPT !.usec = e.time]
  ELSE IF Dispatches(press, e) THEN Idle
  ELSE press

Decode(press, e) ==
  IF e.type = "MSC" THEN OnMsc(press, e.value)
  ELSE IF e.type = "KEY" THEN OnKey(press, e)
  ELSE press
=============================================================================
