------------------------------- MODULE KodiReply -------------------------------
(***************************************************************************)
(* How the daemon reads activity_task's reply (IsKodiTopmostApp.cpp): the  *)
(* header of the list and of the task, then a search for the end of an     *)
(* Intent it does not parse, then the name of the activity's package.      *)
(*                                                                         *)
(* A parcel is a sequence of 32-bit words.  What the service writes and    *)
(* what Parcel's read functions do is modelled from how they are used.     *)
(***************************************************************************)
EXTENDS Integers, Sequences

CONSTANTS
  Size,        (* characters in Kodi's package name (13)                   *)
  Kodi,        (* the words they take in a parcel                          *)
  Actions,     (* strings an Intent's action can be, as written            *)
  Bodies,      (* what an Intent can have between action and user hint     *)
  Names        (* package names of activities, as written                  *)

(* Words of a string of n characters and its terminating null.             *)
Words16(n) == (2 * (n + 1) + 3) \div 4
Words8(n)  == (n + 1 + 3) \div 4
KodiName   == <<Size>> \o Kodi

(* A string is its length, negative for none, and its words.  No character *)
(* of a package name is the 0xFFFE or 0xFFFF that a word of -2 is made of. *)
IsString(s, words) == s \in Seq(Int) /\ s # <<>> /\ Len(s) = IF s[1] < 0 THEN 1 ELSE 1 + words
ASSUME ReplyAssumption ==
  /\ Size \in Nat /\ Kodi \in Seq(Int) /\ KodiName \in Names
  /\ \A a \in Actions : IsString(a, Words8(a[1]))
  /\ \A n \in Names : IsString(n, Words16(n[1])) /\ \A i \in 1 .. Len(n) : n[i] # -2
  /\ \A b \in Bodies : b \in Seq(Int)

VARIABLES
  task,        (* what activity_task answers with; see Task                *)
  reply,       (* the parcel                                               *)
  pos,         (* words of it that were read                               *)
  at,          (* where IsKodiTopmostApp is                                *)
  answer
parser == <<task, reply, pos, at, answer>>

UserCurrent == -2
NoBundle    == -1
Task == [status : {0, -1}, length : {0, 1}, running : {0, 1}, intent : {0, 1},
         action : Actions, body : Bodies, name : Names]

(* Status, number of tasks, the task is not null, four numbers nobody      *)
(* reads, is it running, has it an Intent; the Intent; the activity.       *)
Written(t) ==
  <<t.status, t.length>> \o
  IF t.length = 0 THEN <<>>
  ELSE <<1, 7, 7, 7, 7, t.running, t.intent>>
       \o (IF t.intent = 0 THEN <<>> ELSE t.action \o t.body \o <<UserCurrent, NoBundle>>)
       \o t.name \o <<7, 7>>

(* A read beyond the end gives 0 and does not move.                        *)
Word(p) == IF p < Len(reply) THEN reply[p + 1] ELSE 0
Past(p) == IF p < Len(reply) THEN p + 1 ELSE p
PastString8(p) ==
  LET n == Word(p) IN
  IF n < 0 \/ p + 1 + Words8(n) > Len(reply) THEN Past(p) ELSE p + 1 + Words8(n)

Done(b) == at' = "done" /\ answer' = b
Ask ==
  /\ at = "idle" /\ at' = "header"
  /\ pos' = 0 /\ UNCHANGED <<task, reply, answer>>

(* activity_task cannot be reached, or the call fails.                     *)
NoReply == at = "header" /\ Done(FALSE) /\ UNCHANGED <<task, reply, pos>>

(* The header; the action is read over.                                    *)
Header ==
  /\ at = "header"
  /\ IF Word(0) # 0 \/ Word(1) # 1 \/ Word(2) = 0 \/ Word(7) = 0
     THEN Done(FALSE) /\ UNCHANGED pos
     ELSE /\ pos' = IF Word(8) # 0 THEN PastString8(9) ELSE 9
          /\ at' = IF Word(8) # 0 THEN "scan" ELSE "name"
          /\ UNCHANGED answer
  /\ UNCHANGED <<task, reply>>

(* One turn of the search: the second word is read only after a -2.  Two   *)
(* words are read in any case (mutant).                                    *)
Scanned(next, found) ==
  /\ at = "scan"
  /\ pos' = next
  /\ IF found THEN at' = "name" /\ UNCHANGED answer
     ELSE IF Len(reply) - next >= 4 THEN UNCHANGED <<at, answer>>
     ELSE Done(FALSE)
  /\ UNCHANGED <<task, reply>>
ScanPairs == Scanned(Past(Past(pos)), Word(pos) = -2 /\ Word(Past(pos)) = -1)
(* It goes on at the end of the parcel (mutant).                           *)
ScanForever ==
  LET second == Word(pos) = -2 IN
  /\ at = "scan"
  /\ pos' = IF second THEN Past(Past(pos)) ELSE Past(pos)
  /\ IF second /\ Word(Past(pos)) = -1 THEN at' = "name" ELSE UNCHANGED at
  /\ UNCHANGED <<task, reply, answer>>
Scan ==
  LET second == Word(pos) = -2 IN
  Scanned(IF second THEN Past(Past(pos)) ELSE Past(pos), second /\ Word(Past(pos)) = -1)

(* The length is read, then the string from the length on, if it is there. *)
(* The string is taken to be there (mutant).                               *)
NameUnasked ==
  /\ at = "name"
  /\ Done(SubSeq(reply, pos + 1, Len(reply)) = KodiName)
  /\ pos' = pos + 1 + Words16(Size)
  /\ UNCHANGED <<task, reply>>
Name ==
  /\ at = "name"
  /\ Done(/\ Word(pos) = Size /\ pos + 1 + Words16(Size) <= Len(reply)
          /\ SubSeq(reply, pos + 1, pos + 1 + Words16(Size)) = KodiName)
  /\ pos' = IF answer' THEN pos + 1 + Words16(Size) ELSE pos
  /\ UNCHANGED <<task, reply>>

ParserInit ==
  /\ task \in Task /\ reply = Written(task)
  /\ pos = 0 /\ at = "idle" /\ answer = FALSE
Parse == NoReply \/ Header \/ Scan \/ Name
=============================================================================
