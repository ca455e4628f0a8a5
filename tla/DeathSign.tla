------------------------------ MODULE DeathSign ------------------------------
(***************************************************************************)
(* What the sentinel promises the accessibility service: a sign that the   *)
(* daemon is dead, never given while it lives and given in the end if it   *)
(* had come up.  G20Service is written against this promise, one daemon at *)
(* a time; Sentinel, the processes and their descriptors, implements it.   *)
(***************************************************************************)
VARIABLES
  daemon,   (* "starting", "up", "lost" (dead, the sign is owed), "gone"   *)
  signed    (* has the sign been given?                                    *)

vars == <<daemon, signed>>

Init == daemon = "starting" /\ signed = FALSE

Opens == daemon = "starting" /\ daemon' = "up" /\ UNCHANGED signed
Fails == daemon = "starting" /\ daemon' = "gone" /\ UNCHANGED signed
Dies  == daemon = "up" /\ daemon' = "lost" /\ UNCHANGED signed
Sign  == daemon \in {"up", "lost"} /\ daemon' = "gone" /\ signed' = TRUE
Owed  == daemon = "lost" /\ Sign

Next == Opens \/ Fails \/ Dies \/ Sign
Spec == Init /\ [][Next]_vars /\ WF_vars(Owed)
=============================================================================
