------------------------------- MODULE Buttons -------------------------------
(***************************************************************************)
(* What the daemon promises the person holding the remote: every press of  *)
(* a button is acted upon exactly once, when the button is released, in    *)
(* the order of the releases, as a long press if and only if the button    *)
(* was held at least Threshold.                                            *)
(*                                                                         *)
(* KeyPress, the decoder behind the kernel's event buffer, implements this *)
(* specification.                                                          *)
(***************************************************************************)
EXTENDS Integers, Sequences

CONSTANTS Keys, NoKey, Threshold, MaxHold

VARIABLES
  down,    (* the buttons being held                                       *)
  held,    (* how long each of them has been held                          *)
  owed,    (* releases not acted upon yet, oldest first                    *)
  acted    (* the last action taken                                        *)

vars == <<down, held, owed, acted>>

ModeOf(h) == IF h < Threshold THEN "NORMAL" ELSE "LONG_PRESS"
Due(k)    == [key |-> k, mode |-> ModeOf(held[k])]

Init ==
  /\ down = {}
  /\ held = [k \in Keys |-> 0]
  /\ owed = <<>>
  /\ acted = [key |-> NoKey, mode |-> "NORMAL"]

TimePasses ==
  /\ held' = [k \in Keys |-> IF k \in down THEN held[k] + 1 ELSE held[k]]
  /\ \A k \in Keys : held'[k] <= MaxHold
  /\ UNCHANGED <<down, owed, acted>>

Push(k) ==
  /\ k \notin down
  /\ down' = down \cup {k}
  /\ UNCHANGED <<held, owed, acted>>

Release(k) ==
  /\ k \in down
  /\ down' = down \ {k}
  /\ held' = [held EXCEPT ![k] = 0]
  /\ owed' = Append(owed, Due(k))
  /\ UNCHANGED acted

(* One finger slides from button k to button l.                            *)
Roll(k, l) ==
  /\ k \in down
  /\ l \notin down
  /\ down' = (down \ {k}) \cup {l}
  /\ held' = [held EXCEPT ![k] = 0]
  /\ owed' = Append(owed, Due(k))
  /\ UNCHANGED acted

Act ==
  /\ owed # <<>>
  /\ acted' = Head(owed)
  /\ owed' = Tail(owed)
  /\ UNCHANGED <<down, held>>

Next ==
  \/ TimePasses
  \/ \E k \in Keys : Push(k) \/ Release(k)
  \/ \E k, l \in Keys : Roll(k, l)
  \/ Act

Spec == Init /\ [][Next]_vars /\ WF_vars(Act)
=============================================================================
