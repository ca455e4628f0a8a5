---------------------------- MODULE DispatchProofs ----------------------------
(***************************************************************************)
(* Proofs about the switch, the service's filter and the parser of         *)
(* activity_task's reply, for any strings and any Intents in it.           *)
(*                                                                         *)
(* The parser searches for the Intent's end word by word.  Where it is in  *)
(* the reply is all there is to know: beyond the end of the Intent it      *)
(* finds nothing, so that it reads a name only where there is one; and     *)
(* before the end it is never one word away with a -2 ahead, unless an odd *)
(* number of them ends the Intent.                                         *)
(***************************************************************************)
EXTENDS Dispatch, SequenceTheorems, TLAPS

(* What the parser's place in the reply is compared with.                  *)
BodyAt(t) == 9 + Len(t.action)
EndAt(t)  == BodyAt(t) + Len(t.body)
NameAt(t) == IF t.intent = 0 THEN 9 ELSE EndAt(t) + 2

Misled == task.intent = 1 /\ HasPair(task.body)
(* An odd number of -2 between p and the Intent's end, the first of them   *)
(* at p or after another word.                                             *)
OddFrom(p) ==
  \E n \in 1 .. EndAt(task) - p :
    /\ n % 2 = 1
    /\ \A i \in EndAt(task) - n + 1 .. EndAt(task) : reply[i] = -2
    /\ n < EndAt(task) - p => reply[EndAt(task) - n] # -2

Started == at \in {"idle", "header"} => pos = 0 /\ ~answer
Headed  ==
  at \in {"scan", "name"} =>
    task.status = 0 /\ task.length = 1 /\ task.running = 1 /\ ~answer
Sound   ==
  /\ at = "scan" => task.intent = 1 /\ pos >= BodyAt(task)
  /\ at = "name" /\ ~Misled => pos = NameAt(task)
Full    ==
  at = "scan" /\ ~Misled /\ ~OddEnd(task.body) => pos <= EndAt(task) /\ ~OddFrom(pos)

Steps == {"idle", "header", "scan", "name", "done"}
ParserTypes ==
  /\ task \in Task /\ reply = Written(task)
  /\ at \in Steps /\ answer \in BOOLEAN /\ pos \in 0 .. Len(reply)

(* The inductive invariant of the parser.                                  *)
PInv == ParserTypes /\ Started /\ Headed /\ Sound /\ Full /\ KodiRecognised

-----------------------------------------------------------------------------
(* What is where in a reply.                                               *)
LEMMA Strings ==
  ASSUME NEW t \in Task
  PROVE  /\ t.action \in Seq(Int) /\ t.body \in Seq(Int) /\ t.name \in Seq(Int)
         /\ Len(t.action) \in Nat /\ Len(t.body) \in Nat /\ Len(t.name) \in Nat
         /\ IsString(t.action, Words8(t.action[1])) /\ IsString(t.name, Words16(t.name[1]))
         /\ Len(t.action) > 0 /\ Len(t.name) > 0
         /\ \A i \in 1 .. Len(t.name) : t.name[i] # -2
         /\ t.action[1] \in Int /\ t.name[1] \in Int
         /\ t.status \in {0, -1} /\ t.length \in {0, 1} /\ t.running \in {0, 1}
         /\ t.intent \in {0, 1}
<1>1. /\ t.action \in Actions /\ t.body \in Bodies /\ t.name \in Names
      /\ t.status \in {0, -1} /\ t.length \in {0, 1} /\ t.running \in {0, 1}
      /\ t.intent \in {0, 1}
  BY DEF Task
<1>2. /\ IsString(t.action, Words8(t.action[1])) /\ IsString(t.name, Words16(t.name[1]))
      /\ t.body \in Seq(Int) /\ \A i \in 1 .. Len(t.name) : t.name[i] # -2
  BY <1>1, ReplyAssumption
<1>3. t.action \in Seq(Int) /\ t.name \in Seq(Int) /\ t.action # <<>> /\ t.name # <<>>
  BY <1>2 DEF IsString
<1>5. /\ Len(t.action) \in Nat /\ Len(t.body) \in Nat /\ Len(t.name) \in Nat
      /\ Len(t.action) > 0 /\ Len(t.name) > 0
  BY <1>2, <1>3, LenProperties, EmptySeq
<1>6. 1 \in 1 .. Len(t.action) /\ 1 \in 1 .. Len(t.name)
  BY <1>5
<1>7. t.action[1] \in Int /\ t.name[1] \in Int
  BY <1>3, <1>6, ElementOfSeq
<1> QED
  BY <1>1, <1>2, <1>3, <1>5, <1>7

(* Sequence w is a and behind it b.                                        *)
Joins(w, a, b) ==
  /\ w \in Seq(Int) /\ Len(a) \in Nat /\ Len(b) \in Nat /\ Len(w) = Len(a) + Len(b)
  /\ \A i \in 1 .. Len(a) : w[i] = a[i]
  /\ \A i \in 1 .. Len(b) : w[Len(a) + i] = b[i]

LEMMA Joining ==
  ASSUME NEW a \in Seq(Int), NEW b \in Seq(Int)
  PROVE  Joins(a \o b, a, b)
BY ConcatProperties, LenProperties DEF Joins

(* An Intent: its action, its body and the two words at its end.           *)
IntentOf(m, a, b, u) ==
  /\ m \in Seq(Int) /\ Len(m) = Len(a) + Len(b) + 2
  /\ \A i \in 1 .. Len(a) : m[i] = a[i]
  /\ \A i \in 1 .. Len(b) : m[Len(a) + i] = b[i]
  /\ \A i \in 1 .. 2 : m[Len(a) + Len(b) + i] = u[i]

LEMMA IntentLayout ==
  ASSUME NEW a, NEW b, NEW u, Len(u) = 2, NEW ab, NEW m, Joins(ab, a, b), Joins(m, ab, u)
  PROVE  IntentOf(m, a, b, u)
<1>1. /\ Len(a) \in Nat /\ Len(b) \in Nat /\ Len(ab) = Len(a) + Len(b)
      /\ m \in Seq(Int) /\ Len(m) = Len(a) + Len(b) + 2
  BY DEF Joins
<1>2. ASSUME NEW i \in 1 .. Len(a)
      PROVE  m[i] = a[i]
  <2>1. i \in 1 .. Len(ab)
    BY <1>1
  <2> QED
    BY <2>1 DEF Joins
<1>3. ASSUME NEW i \in 1 .. Len(b)
      PROVE  m[Len(a) + i] = b[i]
  <2>1. Len(a) + i \in 1 .. Len(ab)
    BY <1>1
  <2>2. m[Len(a) + i] = ab[Len(a) + i] /\ ab[Len(a) + i] = b[i]
    BY <2>1 DEF Joins
  <2> QED
    BY <2>2
<1>4. \A i \in 1 .. 2 : m[Len(a) + Len(b) + i] = u[i]
  BY <1>1 DEF Joins
<1> QED
  BY <1>1, <1>2, <1>3, <1>4 DEF IntentOf

(* A reply: two words and seven, the Intent, a name, two more words.       *)
ReplyOf(w, h, r, m, n, z) ==
  /\ w \in Seq(Int) /\ Len(w) = 9 + Len(m) + Len(n) + 2
  /\ \A i \in 1 .. 2 : w[i] = h[i]
  /\ \A i \in 1 .. 7 : w[2 + i] = r[i]
  /\ \A i \in 1 .. Len(m) : w[9 + i] = m[i]
  /\ \A i \in 1 .. Len(n) : w[9 + Len(m) + i] = n[i]
  /\ \A i \in 1 .. 2 : w[9 + Len(m) + Len(n) + i] = z[i]

LEMMA ReplyLayout ==
  ASSUME NEW h, Len(h) = 2, NEW r, Len(r) = 7, NEW m, NEW n, NEW z, Len(z) = 2,
         NEW rm, NEW rmn, NEW all, NEW w,
         Joins(rm, r, m), Joins(rmn, rm, n), Joins(all, rmn, z), Joins(w, h, all)
  PROVE  ReplyOf(w, h, r, m, n, z)
<1>1. /\ Len(m) \in Nat /\ Len(n) \in Nat /\ Len(rm) = 7 + Len(m)
      /\ Len(rmn) = 7 + Len(m) + Len(n) /\ Len(all) = 9 + Len(m) + Len(n)
  BY DEF Joins
<1>0. w \in Seq(Int) /\ Len(w) = 9 + Len(m) + Len(n) + 2
  BY <1>1 DEF Joins
<1>2. \A i \in 1 .. Len(all) : w[2 + i] = all[i]
  BY DEF Joins
<1>3. \A i \in 1 .. Len(rmn) : all[i] = rmn[i]
  BY DEF Joins
<1>4. \A i \in 1 .. Len(rm) : rmn[i] = rm[i]
  BY DEF Joins
<1>5. \A i \in 1 .. 7 : w[2 + i] = r[i]
  <2> SUFFICES ASSUME NEW i \in 1 .. 7
               PROVE  w[2 + i] = r[i]
    OBVIOUS
  <2>1. i \in 1 .. Len(rm) /\ i \in 1 .. Len(rmn) /\ i \in 1 .. Len(all) /\ i \in 1 .. Len(r)
    BY <1>1
  <2>2. rm[i] = r[i]
    BY <2>1 DEF Joins
  <2>3. w[2 + i] = all[i]
    BY <2>1, <1>2
  <2>4. all[i] = rmn[i] /\ rmn[i] = rm[i]
    BY <2>1, <1>3, <1>4
  <2> QED
    BY <2>2, <2>3, <2>4
<1>6. \A i \in 1 .. Len(m) : w[9 + i] = m[i]
  <2> SUFFICES ASSUME NEW i \in 1 .. Len(m)
               PROVE  w[9 + i] = m[i]
    OBVIOUS
  <2>1. PICK j : j = 7 + i
    OBVIOUS
  <2>2. /\ j \in 1 .. Len(rm) /\ j \in 1 .. Len(rmn) /\ j \in 1 .. Len(all)
        /\ 2 + j = 9 + i
    BY <2>1, <1>1
  <2>3. rm[j] = m[i]
    BY <2>1 DEF Joins
  <2>4. w[2 + j] = all[j]
    BY <2>2, <1>2
  <2>5. all[j] = rmn[j] /\ rmn[j] = rm[j]
    BY <2>2, <1>3, <1>4
  <2> QED
    BY <2>2, <2>3, <2>4, <2>5
<1>7. \A i \in 1 .. Len(n) : w[9 + Len(m) + i] = n[i]
  <2> SUFFICES ASSUME NEW i \in 1 .. Len(n)
               PROVE  w[9 + Len(m) + i] = n[i]
    OBVIOUS
  <2>1. PICK j : j = Len(rm) + i
    OBVIOUS
  <2>2. j \in 1 .. Len(rmn) /\ j \in 1 .. Len(all) /\ 2 + j = 9 + Len(m) + i
    BY <2>1, <1>1
  <2>3. rmn[j] = n[i]
    BY <2>1 DEF Joins
  <2>4. w[2 + j] = all[j]
    BY <2>2, <1>2
  <2>5. all[j] = rmn[j]
    BY <2>2, <1>3
  <2> QED
    BY <2>2, <2>3, <2>4, <2>5
<1>8. \A i \in 1 .. 2 : w[9 + Len(m) + Len(n) + i] = z[i]
  <2> SUFFICES ASSUME NEW i \in 1 .. 2
               PROVE  w[9 + Len(m) + Len(n) + i] = z[i]
    OBVIOUS
  <2>1. PICK j : j = Len(rmn) + i
    OBVIOUS
  <2>2. j \in 1 .. Len(all) /\ 2 + j = 9 + Len(m) + Len(n) + i
    BY <2>1, <1>1
  <2>3. all[j] = z[i]
    BY <2>1 DEF Joins
  <2>4. w[2 + j] = all[j]
    BY <2>2, <1>2
  <2> QED
    BY <2>2, <2>3, <2>4
<1>9. \A i \in 1 .. 2 : w[i] = h[i]
  BY DEF Joins
<1> QED
  BY <1>0, <1>5, <1>6, <1>7, <1>8, <1>9 DEF ReplyOf

(* The reply about a task.                                                 *)
LEMMA Layout ==
  ASSUME NEW t \in Task, t.length = 1, NEW w, w = Written(t)
  PROVE  /\ w \in Seq(Int)
         /\ Len(w) = NameAt(t) + Len(t.name) + 2
         /\ w[1] = t.status /\ w[2] = 1 /\ w[3] = 1 /\ w[8] = t.running /\ w[9] = t.intent
         /\ \A i \in 1 .. Len(t.name) : w[NameAt(t) + i] = t.name[i]
         /\ \A i \in 1 .. 2 : w[NameAt(t) + Len(t.name) + i] = 7
         /\ t.intent = 1 =>
              /\ \A i \in 1 .. Len(t.action) : w[9 + i] = t.action[i]
              /\ \A i \in 1 .. Len(t.body) : w[BodyAt(t) + i] = t.body[i]
              /\ w[EndAt(t) + 1] = -2 /\ w[EndAt(t) + 2] = -1
<1>1. PICK a, b, n, h, r, z, u, m :
        /\ a = t.action /\ b = t.body /\ n = t.name
        /\ h = <<t.status, t.length>> /\ r = <<1, 7, 7, 7, 7, t.running, t.intent>>
        /\ z = <<7, 7>> /\ u = <<UserCurrent, NoBundle>>
        /\ m = IF t.intent = 0 THEN <<>> ELSE (a \o b) \o u
  OBVIOUS
<1>2. a \in Seq(Int) /\ b \in Seq(Int) /\ n \in Seq(Int)
  BY <1>1, Strings
<1>3. /\ h \in Seq(Int) /\ r \in Seq(Int) /\ z \in Seq(Int) /\ u \in Seq(Int)
      /\ Len(h) = 2 /\ Len(r) = 7 /\ Len(z) = 2 /\ Len(u) = 2
  <2>1. t.status \in Int /\ t.length \in Int /\ t.running \in Int /\ t.intent \in Int
    BY Strings
  <2>2. h \in Seq(Int) /\ Len(h) = 2
    BY <1>1, <2>1
  <2>3. r \in Seq(Int) /\ Len(r) = 7
    BY <1>1, <2>1
  <2>4. z \in Seq(Int) /\ Len(z) = 2 /\ u \in Seq(Int) /\ Len(u) = 2
    BY <1>1 DEF UserCurrent, NoBundle
  <2> QED
    BY <2>2, <2>3, <2>4
<1>4. /\ h[1] = t.status /\ h[2] = 1 /\ r[1] = 1 /\ r[6] = t.running /\ r[7] = t.intent
      /\ z[1] = 7 /\ z[2] = 7 /\ u[1] = -2 /\ u[2] = -1
  BY <1>1 DEF UserCurrent, NoBundle
<1>5. w = h \o (r \o m \o n \o z)
  BY <1>1 DEF Written
<1>6. /\ Len(a) \in Nat /\ Len(b) \in Nat /\ Len(n) \in Nat
      /\ BodyAt(t) = 9 + Len(a) /\ EndAt(t) = 9 + Len(a) + Len(b)
  BY <1>1, <1>2, LenProperties DEF BodyAt, EndAt
<1>7. t.intent = 1 =>
        /\ m \in Seq(Int) /\ Len(m) = Len(a) + Len(b) + 2
        /\ \A i \in 1 .. Len(a) : m[i] = a[i]
        /\ \A i \in 1 .. Len(b) : m[Len(a) + i] = b[i]
        /\ \A i \in 1 .. 2 : m[Len(a) + Len(b) + i] = u[i]
  <2> SUFFICES ASSUME t.intent = 1
               PROVE  IntentOf(m, a, b, u)
    BY DEF IntentOf
  <2>1. PICK ab : ab = a \o b
    OBVIOUS
  <2>2. m = ab \o u
    BY <1>1, <2>1
  <2>3. Joins(ab, a, b)
    BY <2>1, <1>2, Joining
  <2>4. ab \in Seq(Int)
    BY <2>3 DEF Joins
  <2>5. Joins(m, ab, u)
    BY <2>2, <2>4, <1>3, Joining
  <2> QED
    BY <2>3, <2>5, <1>3, IntentLayout
<1>8. m \in Seq(Int) /\ Len(m) \in Nat /\ NameAt(t) = 9 + Len(m)
  <2>1. CASE t.intent = 0
    <3>1. m = <<>>
      BY <1>1, <2>1
    <3> QED
      BY <3>1, <2>1, EmptySeq DEF NameAt
  <2>2. CASE t.intent = 1
    <3>1. NameAt(t) = 9 + (Len(a) + Len(b) + 2)
      BY <2>2, <1>6 DEF NameAt
    <3>2. m \in Seq(Int) /\ Len(m) = Len(a) + Len(b) + 2
      BY <2>2, <1>7
    <3> QED
      BY <3>1, <3>2, <1>6
  <2> QED
    BY <2>1, <2>2, Strings
<1>9. /\ w \in Seq(Int) /\ Len(w) = 9 + Len(m) + Len(n) + 2
      /\ \A i \in 1 .. 2 : w[i] = h[i]
      /\ \A i \in 1 .. 7 : w[2 + i] = r[i]
      /\ \A i \in 1 .. Len(m) : w[9 + i] = m[i]
      /\ \A i \in 1 .. Len(n) : w[9 + Len(m) + i] = n[i]
      /\ \A i \in 1 .. 2 : w[9 + Len(m) + Len(n) + i] = z[i]
  <2>1. PICK rm, rmn, all : rm = r \o m /\ rmn = rm \o n /\ all = rmn \o z
    OBVIOUS
  <2>2. w = h \o all
    BY <2>1, <1>5
  <2>3. Joins(rm, r, m) /\ rm \in Seq(Int)
    <3>1. Joins(rm, r, m)
      BY <2>1, <1>3, <1>8, Joining
    <3> QED
      BY <3>1 DEF Joins
  <2>4. Joins(rmn, rm, n) /\ rmn \in Seq(Int)
    <3>1. Joins(rmn, rm, n)
      BY <2>1, <2>3, <1>2, Joining
    <3> QED
      BY <3>1 DEF Joins
  <2>5. Joins(all, rmn, z) /\ all \in Seq(Int)
    <3>1. Joins(all, rmn, z)
      BY <2>1, <2>4, <1>3, Joining
    <3> QED
      BY <3>1 DEF Joins
  <2>6. Joins(w, h, all)
    BY <2>2, <2>5, <1>3, Joining
  <2>7. ReplyOf(w, h, r, m, n, z)
    BY <2>3, <2>4, <2>5, <2>6, <1>3, ReplyLayout
  <2> QED
    BY <2>7 DEF ReplyOf
<1>10. w[1] = t.status /\ w[2] = 1 /\ w[3] = 1 /\ w[8] = t.running /\ w[9] = t.intent
  <2>1. w[2 + 1] = r[1] /\ w[2 + 6] = r[6] /\ w[2 + 7] = r[7] /\ w[1] = h[1] /\ w[2] = h[2]
    BY <1>9
  <2> QED
    BY <2>1, <1>4
<1>11. /\ \A i \in 1 .. Len(n) : w[NameAt(t) + i] = n[i]
       /\ \A i \in 1 .. 2 : w[NameAt(t) + Len(n) + i] = 7
       /\ Len(w) = NameAt(t) + Len(n) + 2
  <2>1. ASSUME NEW i \in 1 .. Len(n)
        PROVE  w[NameAt(t) + i] = n[i]
    <3>1. NameAt(t) + i = 9 + Len(m) + i
      BY <1>8
    <3> QED
      BY <3>1, <1>9
  <2>2. ASSUME NEW i \in 1 .. 2
        PROVE  w[NameAt(t) + Len(n) + i] = 7
    <3>1. NameAt(t) + Len(n) + i = 9 + Len(m) + Len(n) + i
      BY <1>8
    <3>2. z[i] = 7
      BY <1>4
    <3> QED
      BY <3>1, <3>2, <1>9
  <2>3. Len(w) = NameAt(t) + Len(n) + 2
    BY <1>8, <1>9
  <2> QED
    BY <2>1, <2>2, <2>3
<1>12. ASSUME t.intent = 1
       PROVE  /\ \A i \in 1 .. Len(a) : w[9 + i] = a[i]
              /\ \A i \in 1 .. Len(b) : w[BodyAt(t) + i] = b[i]
              /\ w[EndAt(t) + 1] = -2 /\ w[EndAt(t) + 2] = -1
  <2>lengths. Len(m) = Len(a) + Len(b) + 2
    BY <1>7, <1>12
  <2>1. ASSUME NEW i \in 1 .. Len(a)
        PROVE  w[9 + i] = a[i]
    <3>1. i \in 1 .. Len(m)
      BY <2>lengths, <1>6
    <3> QED
      BY <3>1, <1>7, <1>9, <1>12
  <2>2. ASSUME NEW i \in 1 .. Len(b)
        PROVE  w[BodyAt(t) + i] = b[i]
    <3>1. Len(a) + i \in 1 .. Len(m) /\ 9 + (Len(a) + i) = BodyAt(t) + i
      BY <2>lengths, <1>6
    <3>2. w[9 + (Len(a) + i)] = m[Len(a) + i] /\ m[Len(a) + i] = b[i]
      BY <3>1, <1>7, <1>9, <1>12
    <3> QED
      BY <3>1, <3>2
  <2>3. ASSUME NEW i \in 1 .. 2
        PROVE  w[EndAt(t) + i] = u[i]
    <3>1. /\ Len(a) + Len(b) + i \in 1 .. Len(m)
          /\ 9 + (Len(a) + Len(b) + i) = EndAt(t) + i
      BY <2>lengths, <1>6
    <3>2. /\ w[9 + (Len(a) + Len(b) + i)] = m[Len(a) + Len(b) + i]
          /\ m[Len(a) + Len(b) + i] = u[i]
      BY <3>1, <1>7, <1>9, <1>12
    <3> QED
      BY <3>1, <3>2
  <2> QED
    BY <2>1, <2>2, <2>3, <1>4
<1> QED
  BY <1>1, <1>9, <1>10, <1>11, <1>12

(* The reply of a service that has no task.                                *)
LEMMA NoTask ==
  ASSUME NEW t \in Task, t.length = 0
  PROVE  /\ Written(t) \in Seq(Int) /\ Len(Written(t)) = 2
         /\ Written(t)[1] = t.status /\ Written(t)[2] = 0
<1>1. Written(t) = <<t.status, t.length>> \o <<>>
  BY DEF Written
<1>2. <<t.status, t.length>> \in Seq(Int)
  BY Strings
<1>3. Written(t) = <<t.status, t.length>>
  BY <1>1, <1>2, ConcatEmptySeq
<1> QED
  BY <1>2, <1>3

-----------------------------------------------------------------------------
(* What the parser's reads give.                                           *)
LEMMA Placed ==
  ASSUME ParserTypes, task.length = 1
  PROVE  /\ Len(task.name) \in Nat /\ Len(task.name) > 0 /\ Len(task.body) \in Nat
         /\ BodyAt(task) \in Nat /\ BodyAt(task) > 9 /\ NameAt(task) \in Nat
         /\ EndAt(task) \in Nat /\ EndAt(task) = BodyAt(task) + Len(task.body)
         /\ BodyAt(task) <= EndAt(task) /\ NameAt(task) >= 9
         /\ task.intent = 0 => NameAt(task) = 9
         /\ task.intent = 1 => NameAt(task) = EndAt(task) + 2 /\ NameAt(task) > BodyAt(task)
         /\ task.intent \in {0, 1}
         /\ Len(reply) = NameAt(task) + Len(task.name) + 2 /\ Len(reply) \in Nat
         /\ NameAt(task) + 2 < Len(reply)
<1>1. task \in Task /\ reply = Written(task)
  BY DEF ParserTypes
<1>2. PICK a, b, n : a = Len(task.action) /\ b = Len(task.body) /\ n = Len(task.name)
  OBVIOUS
<1>3. a \in Nat /\ b \in Nat /\ n \in Nat /\ a > 0 /\ n > 0 /\ task.intent \in {0, 1}
  BY <1>1, <1>2, Strings
<1>4. /\ BodyAt(task) = 9 + a /\ EndAt(task) = BodyAt(task) + b
      /\ NameAt(task) = IF task.intent = 0 THEN 9 ELSE EndAt(task) + 2
  BY <1>2 DEF BodyAt, EndAt, NameAt
<1>5. Len(reply) = NameAt(task) + n + 2
  BY <1>1, <1>2, Layout
<1>6. /\ BodyAt(task) \in Nat /\ BodyAt(task) > 9
      /\ EndAt(task) \in Nat /\ EndAt(task) = BodyAt(task) + b
      /\ BodyAt(task) <= EndAt(task)
  BY <1>3, <1>4
<1>7. /\ NameAt(task) \in Nat /\ NameAt(task) >= 9
      /\ task.intent = 0 => NameAt(task) = 9
      /\ task.intent = 1 => NameAt(task) = EndAt(task) + 2 /\ NameAt(task) > BodyAt(task)
  BY <1>3, <1>4, <1>6
<1>8. Len(reply) \in Nat /\ NameAt(task) + 2 < Len(reply)
  BY <1>3, <1>5, <1>7
<1> QED
  BY <1>2, <1>3, <1>5, <1>6, <1>7, <1>8

LEMMA Printed ==
  ASSUME ParserTypes, task.length = 1
  PROVE  /\ reply[1] = task.status /\ reply[2] = 1 /\ reply[3] = 1
         /\ reply[8] = task.running /\ reply[9] = task.intent
         /\ \A i \in 1 .. Len(task.name) : reply[NameAt(task) + i] = task.name[i]
         /\ \A i \in 1 .. 2 : reply[NameAt(task) + Len(task.name) + i] = 7
         /\ task.intent = 1 =>
              /\ \A i \in 1 .. Len(task.action) : reply[9 + i] = task.action[i]
              /\ \A i \in 1 .. Len(task.body) : reply[BodyAt(task) + i] = task.body[i]
              /\ reply[EndAt(task) + 1] = -2 /\ reply[EndAt(task) + 2] = -1
<1>1. task \in Task /\ reply = Written(task)
  BY DEF ParserTypes
<1> QED
  BY <1>1, Layout

LEMMA HeaderWords ==
  ASSUME ParserTypes, task.length = 1
  PROVE  /\ Word(0) = task.status /\ Word(1) = 1 /\ Word(2) = 1
         /\ Word(7) = task.running /\ Word(8) = task.intent
<1>1. Len(reply) \in Nat /\ Len(reply) > 9
  BY Placed
<1>2. /\ reply[1] = task.status /\ reply[2] = 1 /\ reply[3] = 1
      /\ reply[8] = task.running /\ reply[9] = task.intent
  BY Printed
<1> QED
  BY <1>1, <1>2 DEF Word

(* A read beyond the action ends where the body begins.                    *)
LEMMA ActionRead ==
  ASSUME ParserTypes, task.length = 1, task.intent = 1
  PROVE  PastString8(9) = BodyAt(task)
<1>1. PICK a, n : a = Len(task.action) /\ n = task.action[1]
  OBVIOUS
<1>2. task.action \in Seq(Int) /\ a \in Nat /\ a > 0 /\ a = IF n < 0 THEN 1 ELSE 1 + Words8(n)
  BY <1>1, Strings DEF ParserTypes, IsString
<1>3. n \in Int
  BY <1>1, Strings DEF ParserTypes
<1>4. BodyAt(task) = 9 + a
  BY <1>1 DEF BodyAt
<1>5. Len(reply) \in Nat /\ Len(reply) > 9 + a
  <2>1. /\ Len(reply) = NameAt(task) + Len(task.name) + 2 /\ NameAt(task) > BodyAt(task)
        /\ NameAt(task) \in Nat /\ Len(task.name) \in Nat
    BY Placed
  <2> QED
    BY <2>1, <1>2, <1>4
<1>6. Word(9) = n
  <2>1. reply[9 + 1] = n
    <3>1. \A i \in 1 .. a : reply[9 + i] = task.action[i]
      BY <1>1, Printed
    <3> QED
      BY <3>1, <1>1, <1>2
  <2> QED
    BY <2>1, <1>2, <1>5 DEF Word
<1>7. CASE n < 0
  BY <1>2, <1>4, <1>5, <1>6, <1>7 DEF PastString8, Past
<1>8. CASE ~(n < 0)
  <2>1. Words8(n) \in Nat
    BY <1>3, <1>8 DEF Words8
  <2> QED
    BY <2>1, <1>2, <1>4, <1>5, <1>6, <1>8 DEF PastString8
<1> QED
  BY <1>7, <1>8

(* The reads stay inside.                                                  *)
LEMMA Inside ==
  ASSUME ParserTypes, NEW p \in 0 .. Len(reply)
  PROVE  Past(p) \in 0 .. Len(reply) /\ PastString8(p) \in 0 .. Len(reply)
<1>1. reply \in Seq(Int)
  BY Layout, NoTask, Strings DEF ParserTypes
<1>2. Len(reply) \in Nat
  BY <1>1, LenProperties
<1>3. Past(p) \in 0 .. Len(reply)
  BY <1>2 DEF Past
<1>4. Word(p) \in Int
  <2>1. CASE p < Len(reply)
    <3>1. p + 1 \in 1 .. Len(reply)
      BY <1>2, <2>1
    <3> QED
      BY <3>1, <2>1, <1>1, ElementOfSeq DEF Word
  <2>2. CASE ~(p < Len(reply))
    BY <2>2 DEF Word
  <2> QED
    BY <2>1, <2>2
<1>5. PICK n : n = Word(p)
  OBVIOUS
<1>6. CASE n < 0
  BY <1>3, <1>5, <1>6 DEF PastString8
<1>7. CASE ~(n < 0)
  <2>1. Words8(n) \in Nat
    BY <1>4, <1>5, <1>7 DEF Words8
  <2>2. PICK k \in Nat : k = Words8(n)
    BY <2>1
  <2> QED
    BY <2>2, <1>2, <1>3, <1>5, <1>7 DEF PastString8
<1> QED
  BY <1>3, <1>6, <1>7

(* The pair the search looks for is at the Intent's end, unless the body   *)
(* has it.                                                                 *)
LEMMA PairAtEnd ==
  ASSUME ParserTypes, task.length = 1, task.intent = 1, ~HasPair(task.body),
         NEW p \in Nat, p >= BodyAt(task), Word(p) = -2, Word(Past(p)) = -1
  PROVE  p = EndAt(task)
<1>1. PICK S, B, E, L, N, n :
        /\ S = BodyAt(task) /\ B = Len(task.body) /\ E = EndAt(task) /\ L = Len(reply)
        /\ N = NameAt(task) /\ n = Len(task.name)
  OBVIOUS
<1>2. /\ S \in Nat /\ B \in Nat /\ E \in Nat /\ L \in Nat /\ N \in Nat /\ n \in Nat
      /\ n > 0 /\ E = S + B /\ N = E + 2 /\ L = N + n + 2
  BY <1>1, Placed
<1>0. p >= S /\ E = EndAt(task)
  BY <1>1
<1>3. p < L /\ reply[p + 1] = -2
  BY <1>1, <1>2 DEF Word
<1>4. p + 1 < L /\ reply[p + 2] = -1
  BY <1>1, <1>2, <1>3 DEF Word, Past
<1>5. /\ \A i \in 1 .. B : reply[S + i] = task.body[i]
      /\ reply[E + 1] = -2 /\ reply[E + 2] = -1
      /\ \A i \in 1 .. n : reply[N + i] = task.name[i]
      /\ \A i \in 1 .. 2 : reply[N + n + i] = 7
  BY <1>1, Printed
<1>6. \A i \in 1 .. n : task.name[i] # -2
  BY <1>1, Strings DEF ParserTypes
<1>7. CASE p < E
  <2>1. PICK i : i = p + 1 - S
    OBVIOUS
  <2>2. i \in 1 .. B /\ S + i = p + 1
    BY <2>1, <1>0, <1>2, <1>7
  <2>3. task.body[i] = -2
    BY <2>2, <1>3, <1>5
  <2>4. CASE i = B
    <3>1. p + 2 = E + 1
      BY <2>2, <2>4, <1>2
    <3> QED
      BY <3>1, <1>4, <1>5
  <2>5. CASE i # B
    <3>1. i + 1 \in 1 .. B /\ S + (i + 1) = p + 2 /\ i \in 1 .. B - 1
      BY <2>2, <2>5, <1>2
    <3>2. task.body[i + 1] = -1
      BY <3>1, <1>4, <1>5
    <3> QED
      BY <3>1, <3>2, <2>3, <1>1 DEF HasPair
  <2> QED
    BY <2>4, <2>5
<1>8. CASE p = E + 1
  BY <1>2, <1>3, <1>5, <1>8
<1>9. CASE p > E + 1
  <2>1. PICK i : i = p + 1 - N
    OBVIOUS
  <2>2. i \in 1 .. n + 2 /\ N + i = p + 1
    BY <2>1, <1>2, <1>3, <1>9
  <2>3. CASE i <= n
    <3>1. i \in 1 .. n
      BY <2>2, <2>3, <1>2
    <3>2. reply[N + i] = task.name[i] /\ task.name[i] # -2
      BY <3>1, <1>5, <1>6
    <3> QED
      BY <3>2, <2>2, <1>3
  <2>4. CASE i > n
    <3>1. i - n \in 1 .. 2 /\ N + n + (i - n) = p + 1
      BY <2>2, <2>4, <1>2
    <3> QED
      BY <3>1, <1>3, <1>5
  <2> QED
    BY <2>2, <2>3, <2>4, <1>2
<1>10. p < E \/ p = E \/ p = E + 1 \/ p > E + 1
  BY <1>2
<1> QED
  BY <1>0, <1>7, <1>8, <1>9, <1>10

-----------------------------------------------------------------------------
(* An odd number of -2 at the end, in the body and in the reply.           *)
LEMMA OddFromBody ==
  ASSUME ParserTypes, task.length = 1, task.intent = 1, OddFrom(BodyAt(task))
  PROVE  OddEnd(task.body)
<1>1. PICK S \in Nat, B \in Nat, E \in Nat :
        S = BodyAt(task) /\ B = Len(task.body) /\ E = EndAt(task)
  BY Placed
<1>2. S \in Nat /\ B \in Nat /\ E \in Nat /\ E = S + B
  BY <1>1, Placed
<1>3. \A i \in 1 .. B : reply[S + i] = task.body[i]
  BY <1>1, Printed
<1>4. PICK n \in 1 .. E - S :
        /\ n % 2 = 1
        /\ \A i \in E - n + 1 .. E : reply[i] = -2
        /\ n < E - S => reply[E - n] # -2
  BY <1>1 DEF OddFrom
<1>5. n \in 1 .. B
  BY <1>2, <1>4
<1>6. (\A i \in E - n + 1 .. E : reply[i] = -2) /\ (n < E - S => reply[E - n] # -2)
  BY <1>4
<1>7. ASSUME NEW i \in B - n + 1 .. B
      PROVE  task.body[i] = -2
  <2>1. i \in 1 .. B /\ S + i \in E - n + 1 .. E
    BY <1>2, <1>5, <1>7
  <2>2. reply[S + i] = -2
    BY <2>1, <1>6, <1>5
  <2> QED
    BY <2>1, <2>2, <1>3
<1>8. ASSUME n < B
      PROVE  task.body[B - n] # -2
  <2>1. B - n \in 1 .. B /\ S + (B - n) = E - n
    BY <1>2, <1>5, <1>8
  <2>2. reply[E - n] # -2
    <3>1. n < E - S
      BY <1>2, <1>5, <1>8
    <3> QED
      BY <3>1, <1>6
  <2>3. reply[S + (B - n)] = task.body[B - n]
    BY <2>1, <1>3
  <2> QED
    BY <2>1, <2>2, <2>3
<1> QED
  BY <1>1, <1>4, <1>5, <1>7, <1>8 DEF OddEnd

(* The search keeps clear of an odd number: it goes one word on after      *)
(* another word, and two after a -2.                                       *)
LEMMA OddSkip ==
  ASSUME EndAt(task) \in Nat, NEW p \in Nat, p < EndAt(task), ~OddFrom(p)
  PROVE  /\ reply[p + 1] # -2 => ~OddFrom(p + 1)
         /\ reply[p + 1] = -2 => p + 2 <= EndAt(task) /\ ~OddFrom(p + 2)
<1>1. PICK E \in Nat : E = EndAt(task)
  OBVIOUS
<1> DEFINE Odd(q, n) == /\ n % 2 = 1
                        /\ \A i \in E - n + 1 .. E : reply[i] = -2
                        /\ n < E - q => reply[E - n] # -2
<1>2. \A q : OddFrom(q) <=> \E n \in 1 .. E - q : Odd(q, n)
  BY <1>1 DEF OddFrom
<1>3. \A n \in 1 .. E - p : ~Odd(p, n)
  BY <1>2
<1>4. ASSUME reply[p + 1] # -2, NEW n \in 1 .. E - (p + 1), Odd(p + 1, n)
      PROVE  FALSE
  <2>1. n \in 1 .. E - p
    BY <1>1
  <2>2. CASE n < E - (p + 1)
    BY <2>1, <2>2, <1>3, <1>4, <1>1
  <2>3. CASE n = E - (p + 1)
    <3>1. E - n = p + 1
      BY <2>3, <1>1
    <3> QED
      BY <3>1, <2>1, <1>3, <1>4
  <2> QED
    BY <2>2, <2>3, <1>1
<1>5. ASSUME reply[p + 1] = -2
      PROVE  p + 2 <= E
  <2> SUFFICES ASSUME p + 1 = E
               PROVE  FALSE
    BY <1>1
  <2>1. Odd(p, 1)
    BY <1>1, <1>5
  <2> QED
    BY <2>1, <1>1, <1>3
<1>6. ASSUME reply[p + 1] = -2, NEW n \in 1 .. E - (p + 2), Odd(p + 2, n)
      PROVE  FALSE
  <2>1. n \in 1 .. E - p /\ n \in Nat
    BY <1>1
  <2>2. CASE n < E - (p + 2)
    BY <2>1, <2>2, <1>3, <1>6, <1>1
  <2>3. CASE n = E - (p + 2)
    <3>1. E - n = p + 2 /\ E - (n + 2) + 1 = p + 1 /\ n + 2 = E - p
      BY <2>3, <1>1
    <3>2. CASE reply[p + 2] # -2
      BY <3>1, <3>2, <2>1, <1>3, <1>6
    <3>3. CASE reply[p + 2] = -2
      <4>1. (n + 2) % 2 = 1
        BY <2>1, <1>6
      <4>2. \A i \in p + 1 .. E : i = p + 1 \/ i = p + 2 \/ i \in E - n + 1 .. E
        BY <3>1, <2>1, <1>1
      <4>3. \A i \in p + 1 .. E : reply[i] = -2
        BY <4>2, <3>3, <1>6
      <4>4. Odd(p, n + 2)
        BY <4>1, <4>3, <3>1
      <4>5. n + 2 \in 1 .. E - p
        BY <3>1, <2>1, <1>1
      <4> QED
        BY <4>4, <4>5, <1>3
    <3> QED
      BY <3>2, <3>3
  <2> QED
    BY <2>2, <2>3, <1>1
<1> HIDE DEF Odd
<1>7. reply[p + 1] # -2 => ~OddFrom(p + 1)
  BY <1>2, <1>4
<1>8. reply[p + 1] = -2 => ~OddFrom(p + 2)
  BY <1>2, <1>6
<1> QED
  BY <1>1, <1>5, <1>7, <1>8

-----------------------------------------------------------------------------
LEMMA ReplyTyped ==
  ASSUME ParserTypes
  PROVE  Len(reply) \in Nat /\ task.length \in {0, 1} /\ task.status \in {0, -1}
         /\ task.running \in {0, 1} /\ task.intent \in {0, 1}
BY Layout, NoTask, Strings, LenProperties DEF ParserTypes

LEMMA ParserInits == ParserInit => PInv
<1> SUFFICES ASSUME ParserInit
             PROVE  PInv
  OBVIOUS
<1>1. /\ task \in Task /\ reply = Written(task)
      /\ pos = 0 /\ at = "idle" /\ answer = FALSE
  BY DEF ParserInit
<1>2. reply \in Seq(Int)
  BY <1>1, Layout, NoTask, Strings
<1>3. pos \in 0 .. Len(reply)
  BY <1>1, <1>2, LenProperties
<1>4. ParserTypes
  BY <1>1, <1>3 DEF ParserTypes, Steps
<1> QED
  BY <1>1, <1>4 DEF PInv, Started, Headed, Sound, Full, KodiRecognised

(* What does not change while a reply is read.                             *)
LEMMA Same ==
  ASSUME UNCHANGED <<task, reply>>
  PROVE  /\ BodyAt(task)' = BodyAt(task) /\ EndAt(task)' = EndAt(task)
         /\ NameAt(task)' = NameAt(task) /\ Misled' = Misled /\ InFront' = InFront
         /\ OddEnd(task.body)' = OddEnd(task.body)
         /\ \A p : OddFrom(p)' = OddFrom(p)
BY DEF BodyAt, EndAt, NameAt, Misled, InFront, OddEnd, OddFrom, HasPair

LEMMA NoReplyKeeps == PInv /\ NoReply => PInv'
<1> SUFFICES ASSUME PInv, NoReply
             PROVE  PInv'
  OBVIOUS
<1>1. at = "header" /\ at' = "done" /\ answer' = FALSE /\ UNCHANGED <<task, reply, pos>>
  BY DEF NoReply, Done
<1>2. pos = 0 /\ ParserTypes
  BY <1>1 DEF PInv, Started
<1>3. ParserTypes'
  BY <1>1, <1>2 DEF ParserTypes, Steps
<1>4. KodiRecognised'
  BY <1>1, <1>2 DEF KodiRecognised
<1> QED
  BY <1>1, <1>3, <1>4 DEF PInv, Started, Headed, Sound, Full

LEMMA HeaderKeeps == PInv /\ Header => PInv'
<1> SUFFICES ASSUME PInv, Header
             PROVE  PInv'
  OBVIOUS
<1>1. at = "header" /\ UNCHANGED <<task, reply>>
  BY DEF Header
<1>2. pos = 0 /\ ~answer /\ ParserTypes
  BY <1>1 DEF PInv, Started
<1>3. /\ Len(reply) \in Nat /\ task.length \in {0, 1} /\ task.status \in {0, -1}
      /\ task.running \in {0, 1} /\ task.intent \in {0, 1}
  BY <1>2, ReplyTyped
<1> DEFINE Refused == Word(0) # 0 \/ Word(1) # 1 \/ Word(2) = 0 \/ Word(7) = 0
<1>4. CASE Refused
  <2>1. at' = "done" /\ answer' = FALSE /\ pos' = pos
    BY <1>4 DEF Header, Done
  <2>2. ~InFront
    <3> SUFFICES ASSUME task.status = 0, task.length = 1, task.running = 1
                 PROVE  FALSE
      BY DEF InFront
    <3> QED
      BY <1>2, <1>4, HeaderWords
  <2>3. ParserTypes'
    BY <1>1, <1>2, <2>1 DEF ParserTypes, Steps
  <2>4. KodiRecognised'
    BY <1>1, <2>1, <2>2, Same DEF KodiRecognised
  <2> QED
    BY <2>1, <2>3, <2>4 DEF PInv, Started, Headed, Sound, Full
<1>5. CASE ~Refused
  <2>1. task.length = 1
    <3> SUFFICES ASSUME task.length = 0
                 PROVE  FALSE
      BY <1>3
    <3>1. reply[2] = 0 /\ Len(reply) = 2
      BY <1>2, NoTask DEF ParserTypes
    <3>2. Word(1) = 0
      BY <3>1 DEF Word
    <3> QED
      BY <3>2, <1>5
  <2>2. task.status = 0 /\ task.running = 1 /\ Word(8) = task.intent
    BY <1>2, <1>3, <1>5, <2>1, HeaderWords
  <2>3. answer' = answer
    BY <1>5 DEF Header
  <2>4. CASE task.intent = 1
    <3>1. pos' = BodyAt(task) /\ at' = "scan"
      BY <1>2, <1>5, <2>1, <2>2, <2>4, ActionRead DEF Header
    <3>2. /\ BodyAt(task) \in Nat /\ EndAt(task) \in Nat /\ BodyAt(task) <= EndAt(task)
          /\ EndAt(task) <= Len(reply)
      <4>1. /\ BodyAt(task) \in Nat /\ EndAt(task) \in Nat /\ BodyAt(task) <= EndAt(task)
            /\ NameAt(task) + 2 < Len(reply) /\ Len(reply) \in Nat
        BY <1>2, <2>1, Placed
      <4>2. NameAt(task) = EndAt(task) + 2
        BY <2>4 DEF NameAt
      <4> QED
        BY <4>1, <4>2
    <3>3. ParserTypes'
      BY <1>1, <1>2, <1>3, <2>3, <3>1, <3>2 DEF ParserTypes, Steps
    <3>4. Sound'
      BY <1>1, <2>4, <3>1, <3>2, Same DEF Sound
    <3>5. Full'
      <4>1. ~OddEnd(task.body) => pos' <= EndAt(task) /\ ~OddFrom(pos')
        BY <1>2, <2>1, <2>4, <3>1, <3>2, OddFromBody
      <4>2. PICK p : p = pos'
        OBVIOUS
      <4> QED
        BY <1>1, <4>1, <4>2, Same DEF Full
    <3> QED
      BY <1>1, <1>2, <2>1, <2>2, <2>3, <3>1, <3>3, <3>4, <3>5
         DEF PInv, Started, Headed, KodiRecognised
  <2>5. CASE task.intent = 0
    <3>1. pos' = 9 /\ at' = "name" /\ NameAt(task) = 9
      BY <1>5, <2>2, <2>5 DEF Header, NameAt
    <3>2. 9 <= Len(reply)
      <4>1. Len(reply) = NameAt(task) + Len(task.name) + 2 /\ Len(task.name) \in Nat
        BY <1>2, <2>1, Placed
      <4> QED
        BY <4>1, <3>1
    <3>3. ParserTypes'
      BY <1>1, <1>2, <1>3, <2>3, <3>1, <3>2 DEF ParserTypes, Steps
    <3>4. Sound'
      BY <1>1, <3>1, Same DEF Sound
    <3> QED
      BY <1>1, <1>2, <2>1, <2>2, <2>3, <3>1, <3>3, <3>4
         DEF PInv, Started, Headed, Full, KodiRecognised
  <2> QED
    BY <1>3, <2>4, <2>5
<1> QED
  BY <1>4, <1>5

LEMMA ScanKeeps == PInv /\ Scan => PInv'
<1> SUFFICES ASSUME PInv, Scan
             PROVE  PInv'
  OBVIOUS
<1> DEFINE second == Word(pos) = -2
           next   == IF second THEN Past(Past(pos)) ELSE Past(pos)
           found  == second /\ Word(Past(pos)) = -1
<1>1. at = "scan" /\ pos' = next /\ UNCHANGED <<task, reply>>
  BY DEF Scan, Scanned
<1>2. /\ ParserTypes /\ task.status = 0 /\ task.length = 1 /\ task.running = 1 /\ ~answer
      /\ task.intent = 1 /\ pos >= BodyAt(task)
      /\ ~Misled /\ ~OddEnd(task.body) => pos <= EndAt(task) /\ ~OddFrom(pos)
  BY <1>1 DEF PInv, Headed, Sound, Full
<1>3. PICK S \in Nat, E \in Nat, N \in Nat, L \in Nat, p \in Nat :
        /\ S = BodyAt(task) /\ E = EndAt(task) /\ N = NameAt(task) /\ L = Len(reply) /\ p = pos
  BY <1>2, Placed DEF ParserTypes
<1>4. p >= S /\ p <= L /\ N = E + 2 /\ L > N + 2
  <2>1. /\ Len(reply) = NameAt(task) + Len(task.name) + 2 /\ Len(task.name) \in Nat
        /\ Len(task.name) > 0 /\ NameAt(task) = EndAt(task) + 2
    BY <1>2, Placed
  <2>2. pos \in 0 .. Len(reply)
    BY <1>2 DEF ParserTypes
  <2> QED
    BY <2>1, <2>2, <1>2, <1>3
<1>5. next \in 0 .. L /\ next >= p
  <2>1. Past(pos) \in 0 .. L /\ Past(Past(pos)) \in 0 .. L
    BY <1>2, <1>3, Inside DEF ParserTypes
  <2>2. Past(pos) >= p /\ Past(Past(pos)) >= p
    BY <1>3, <1>4 DEF Past
  <2> QED
    BY <2>1, <2>2
<1>6. found /\ ~Misled => next = N
  <2> SUFFICES ASSUME found, ~Misled
               PROVE  next = N
    OBVIOUS
  <2>1. p = E
    BY <1>2, <1>3, PairAtEnd DEF Misled
  <2> QED
    BY <2>1, <1>3, <1>4 DEF Past
<1>7. ~Misled /\ ~OddEnd(task.body) /\ ~found => next <= E /\ ~OddFrom(next)
  <2> SUFFICES ASSUME ~Misled, ~OddEnd(task.body), ~found
               PROVE  next <= E /\ ~OddFrom(next)
    OBVIOUS
  <2>1. p <= E /\ ~OddFrom(p)
    BY <1>2, <1>3
  <2>2. p < L /\ Word(pos) = reply[p + 1] /\ Past(pos) = p + 1
    BY <2>1, <1>3, <1>4 DEF Word, Past
  <2>3. p # E
    <3> SUFFICES ASSUME p = E
                 PROVE  FALSE
      OBVIOUS
    <3>1. reply[E + 1] = -2 /\ reply[E + 2] = -1
      BY <1>2, <1>3, Printed
    <3>2. second /\ Word(Past(pos)) = reply[E + 2]
      BY <2>2, <3>1, <1>3, <1>4 DEF Word
    <3> QED
      BY <3>1, <3>2
  <2>4. p < E
    BY <2>1, <2>3
  <2>5. CASE second
    <3>1. p + 2 <= E /\ ~OddFrom(p + 2)
      BY <2>1, <2>2, <2>4, <2>5, <1>3, OddSkip
    <3>2. p + 1 < L
      BY <3>1, <1>4
    <3>3. Past(p + 1) = p + 2
      BY <3>2, <1>3 DEF Past
    <3>4. next = p + 2
      BY <2>2, <2>5, <3>3
    <3> QED
      BY <3>1, <3>4
  <2>6. CASE ~second
    <3>1. ~OddFrom(p + 1)
      BY <2>1, <2>2, <2>4, <2>6, <1>3, OddSkip
    <3> QED
      BY <3>1, <2>2, <2>4, <2>6
  <2> QED
    BY <2>5, <2>6
<1>8. PICK q \in Nat : q = next /\ q <= L /\ q >= S
  BY <1>4, <1>5
<1>inside. task' \in Task /\ reply' = Written(task') /\ pos' \in 0 .. Len(reply')
  <2>1. pos' \in 0 .. L
    BY <1>1, <1>8
  <2> QED
    BY <2>1, <1>1, <1>2, <1>3 DEF ParserTypes
<1>9. CASE found
  <2>1. at' = "name" /\ answer' = answer
    BY <1>9 DEF Scan, Scanned
  <2>2. ParserTypes'
    BY <1>inside, <1>2, <2>1 DEF ParserTypes, Steps
  <2>3. Sound'
    BY <1>1, <1>3, <1>6, <1>9, <2>1, Same DEF Sound
  <2> QED
    BY <1>1, <1>2, <2>1, <2>2, <2>3 DEF PInv, Started, Headed, Full, KodiRecognised
<1>10. CASE ~found /\ Len(reply) - next >= 4
  <2>1. at' = "scan" /\ answer' = answer
    BY <1>1, <1>10 DEF Scan, Scanned
  <2>2. ParserTypes'
    BY <1>inside, <1>2, <2>1 DEF ParserTypes, Steps
  <2>3. Sound'
    BY <1>1, <1>2, <1>3, <1>8, <2>1, Same DEF Sound
  <2>4. Full'
    BY <1>1, <1>3, <1>7, <1>8, <1>10, <2>1, Same DEF Full
  <2> QED
    BY <1>1, <1>2, <2>1, <2>2, <2>3, <2>4 DEF PInv, Started, Headed, KodiRecognised
<1>11. CASE ~found /\ ~(Len(reply) - next >= 4)
  <2>1. at' = "done" /\ answer' = FALSE
    BY <1>11 DEF Scan, Scanned, Done
  <2>2. ParserTypes'
    BY <1>inside, <1>2, <2>1 DEF ParserTypes, Steps
  <2>3. ~(q <= E)
    <3>1. ~(L - q >= 4)
      BY <1>3, <1>8, <1>11
    <3> QED
      BY <3>1, <1>4
  <2>4. Misled \/ OddEnd(task.body)
    BY <2>3, <1>7, <1>8, <1>11
  <2>5. KodiRecognised'
    BY <1>1, <1>2, <2>1, <2>4 DEF KodiRecognised, Misled
  <2> QED
    BY <2>1, <2>2, <2>5 DEF PInv, Started, Headed, Sound, Full
<1> QED
  BY <1>9, <1>10, <1>11

(* At the place of a name as long as Kodi's it is this name that is read.  *)
LEMMA NameRead ==
  ASSUME ParserTypes, task.length = 1, task.name[1] = Size
  PROVE  /\ NameAt(task) + 1 + Words16(Size) <= Len(reply)
         /\ SubSeq(reply, NameAt(task) + 1, NameAt(task) + 1 + Words16(Size)) = task.name
<1>1. PICK N \in Nat, n \in Nat : N = NameAt(task) /\ n = Len(task.name)
  BY Placed
<1>2. Size \in Nat /\ Words16(Size) \in Nat
  BY ReplyAssumption DEF Words16
<1>3. n = 1 + Words16(Size) /\ task.name \in Seq(Int)
  <2>1. task.name \in Seq(Int) /\ IsString(task.name, Words16(task.name[1]))
    BY Strings DEF ParserTypes
  <2> QED
    BY <2>1, <1>1, <1>2 DEF IsString
<1>4. Len(reply) = N + n + 2 /\ Len(reply) \in Nat
  BY <1>1, Placed
<1>5. \A i \in 1 .. n : reply[N + i] = task.name[i]
  BY <1>1, Printed
<1>6. \A i \in N + 1 .. N + n : reply[i] \in Int
  <2> SUFFICES ASSUME NEW i \in N + 1 .. N + n
               PROVE  reply[i] \in Int
    OBVIOUS
  <2>1. i - N \in 1 .. n /\ N + (i - N) = i
    OBVIOUS
  <2>2. task.name[i - N] \in Int
    BY <2>1, <1>1, <1>3, ElementOfSeq
  <2>3. reply[N + (i - N)] = task.name[i - N]
    BY <2>1, <1>5
  <2> QED
    BY <2>1, <2>2, <2>3
<1>7. PICK s : s = SubSeq(reply, N + 1, N + n)
  OBVIOUS
<1>8. /\ s \in Seq(Int) /\ Len(s) = IF N + 1 <= N + n THEN N + n - (N + 1) + 1 ELSE 0
      /\ \A i \in 1 .. N + n - (N + 1) + 1 : s[i] = reply[N + 1 + i - 1]
  <2>1. N + 1 \in Int /\ N + n \in Int
    OBVIOUS
  <2> QED
    BY <2>1, <1>6, <1>7, SubSeqProperties
<1>9. Len(s) = n
  BY <1>2, <1>3, <1>8
<1>10. ASSUME NEW i \in 1 .. n
       PROVE  s[i] = task.name[i]
  <2>1. i \in 1 .. N + n - (N + 1) + 1 /\ N + 1 + i - 1 = N + i
    OBVIOUS
  <2> QED
    BY <2>1, <1>5, <1>8
<1>11. s = task.name
  BY <1>1, <1>3, <1>8, <1>9, <1>10, SeqEqual
<1>12. N + 1 + Words16(Size) = N + n
  BY <1>2, <1>3
<1>13. N + 1 + Words16(Size) <= Len(reply)
  BY <1>4, <1>12
<1>14. SubSeq(reply, N + 1, N + 1 + Words16(Size)) = task.name
  BY <1>7, <1>11, <1>12
<1> QED
  BY <1>1, <1>13, <1>14

LEMMA NameKeeps == PInv /\ Name => PInv'
<1> SUFFICES ASSUME PInv, Name
             PROVE  PInv'
  OBVIOUS
<1> DEFINE hit == /\ Word(pos) = Size /\ pos + 1 + Words16(Size) <= Len(reply)
                  /\ SubSeq(reply, pos + 1, pos + 1 + Words16(Size)) = KodiName
<1>1. /\ at = "name" /\ at' = "done" /\ answer' = hit /\ UNCHANGED <<task, reply>>
      /\ pos' = IF answer' THEN pos + 1 + Words16(Size) ELSE pos
  BY DEF Name, Done
<1>2. /\ ParserTypes /\ task.status = 0 /\ task.length = 1 /\ task.running = 1
      /\ ~Misled => pos = NameAt(task)
  BY <1>1 DEF PInv, Headed, Sound
<1>3. Len(reply) \in Nat /\ Words16(Size) \in Nat /\ pos \in 0 .. Len(reply)
  BY <1>2, ReplyTyped, ReplyAssumption DEF Words16, ParserTypes
<1>4. pos' \in 0 .. Len(reply)
  <2>1. CASE hit
    <3>1. pos + 1 + Words16(Size) <= Len(reply) /\ pos' = pos + 1 + Words16(Size)
      BY <1>1, <2>1
    <3> QED
      BY <3>1, <1>3
  <2>2. CASE ~hit
    BY <1>1, <1>3, <2>2
  <2> QED
    BY <2>1, <2>2
<1>5. answer' \in BOOLEAN
  BY <1>1
<1>6. ParserTypes'
  BY <1>1, <1>2, <1>4, <1>5 DEF ParserTypes, Steps
<1>7. ~Misled => (hit <=> task.name = KodiName)
  <2> SUFFICES ASSUME ~Misled
               PROVE  hit <=> task.name = KodiName
    OBVIOUS
  <2>1. pos = NameAt(task)
    BY <1>2
  <2>2. Word(pos) = task.name[1]
    <3>1. PICK N \in Nat, n \in Nat : N = NameAt(task) /\ n = Len(task.name)
      BY <1>2, Placed
    <3>2. n > 0 /\ Len(reply) = N + n + 2
      BY <1>2, <3>1, Placed
    <3>3. \A i \in 1 .. n : reply[N + i] = task.name[i]
      BY <1>2, <3>1, Printed
    <3>4. reply[N + 1] = task.name[1] /\ N < Len(reply)
      BY <3>2, <3>3
    <3> QED
      BY <2>1, <3>1, <3>4 DEF Word
  <2>3. CASE task.name[1] = Size
    BY <1>2, <2>1, <2>2, <2>3, NameRead
  <2>4. CASE task.name[1] # Size
    <3>1. KodiName[1] = Size
      BY ReplyAssumption DEF KodiName
    <3> QED
      BY <2>2, <2>4, <3>1
  <2> QED
    BY <2>3, <2>4
<1>8. KodiRecognised'
  <2>1. InFront <=> task.name = KodiName
    BY <1>2 DEF InFront
  <2>2. ~Misled => (answer' <=> InFront')
    BY <1>1, <1>7, <2>1, Same
  <2> QED
    BY <1>1, <2>2, Same DEF KodiRecognised, Misled
<1> QED
  BY <1>1, <1>6, <1>8 DEF PInv, Started, Headed, Sound, Full

LEMMA AskKeeps == PInv /\ Ask => PInv'
<1> SUFFICES ASSUME PInv, Ask
             PROVE  PInv'
  OBVIOUS
<1>1. at = "idle" /\ at' = "header" /\ pos' = 0 /\ UNCHANGED <<task, reply, answer>>
  BY DEF Ask
<1>2. ~answer /\ ParserTypes /\ Len(reply) \in Nat
  BY <1>1, ReplyTyped DEF PInv, Started
<1>3. ParserTypes'
  BY <1>1, <1>2 DEF ParserTypes, Steps
<1> QED
  BY <1>1, <1>2, <1>3 DEF PInv, Started, Headed, Sound, Full, KodiRecognised

LEMMA ParserSteps == PInv /\ [Next]_vars => PInv'
<1> SUFFICES ASSUME PInv, [Next]_vars
             PROVE  PInv'
  OBVIOUS
<1>1. CASE UNCHANGED parser
  <2>1. UNCHANGED <<task, reply, pos, at, answer>>
    BY <1>1 DEF parser
  <2>2. ParserTypes' /\ Started' /\ Headed' /\ Sound' /\ Full'
    BY <2>1, Same DEF PInv, ParserTypes, Started, Headed, Sound, Full
  <2>3. KodiRecognised'
    BY <2>1, Same DEF PInv, KodiRecognised, Misled
  <2> QED
    BY <2>2, <2>3 DEF PInv
<1>2. CASE Switch
  BY <1>1, <1>2, AskKeeps DEF Switch
<1>3. CASE Answered
  BY <1>1, <1>3 DEF Answered
<1>4. CASE Parse
  BY <1>4, NoReplyKeeps, HeaderKeeps, ScanKeeps, NameKeeps DEF Parse
<1>5. CASE UNCHANGED vars
  BY <1>1, <1>5 DEF vars, parser
<1> QED
  BY <1>2, <1>3, <1>4, <1>5 DEF Next

LEMMA ParserHolds == Spec => []PInv
<1>1. Init => PInv
  BY ParserInits DEF Init
<1> QED
  BY <1>1, ParserSteps, PTL DEF Spec

(* Kodi is recognised when it is in front, and only then, whatever the     *)
(* Intents and names are, but for the Intents the property names.          *)
THEOREM KodiIsRecognised == Spec => []KodiRecognised
<1>1. PInv => KodiRecognised
  BY DEF PInv
<1> QED
  BY <1>1, ParserHolds, PTL

-----------------------------------------------------------------------------
(* The switch: what is done is what the case says, for the answer if the   *)
(* case asks.                                                              *)
Chosen(k, m, kodi) ==
  IF k \notin DOMAIN Cases THEN Nothing
  ELSE IF k \in DOMAIN KodiCases /\ kodi THEN KodiCases[k][m] ELSE Cases[k][m]

Asked == at # "idle" => key \in DOMAIN KodiCases
Acted == does # Undecided => at \in {"idle", "done"} /\ does = Chosen(key, mode, answer)

DInv == PInv /\ key \in Buttons /\ mode \in Modes /\ Asked /\ Acted

LEMMA Domains ==
  /\ DOMAIN KodiCases = {"SUBTITLE", "INFO"}
  /\ DOMAIN Cases = {"INPUT", "SUBTITLE", "INFO", "RED", "GREEN", "YELLOW", "TAPE",
                     "YOUTUBE", "NETFLIX"}
  /\ Buttons = DOMAIN Cases \cup {"BLUE", "PRIME", "PLAY", "HOME"}
BY DEF KodiCases, Cases, Buttons, ScanCode

LEMMA ChoiceTyped ==
  ASSUME NEW k \in Buttons, NEW m \in Modes, NEW kodi \in BOOLEAN
  PROVE  Chosen(k, m, kodi)[1] \in {"nothing", "inject", "start"}
<1>1. \A macro : IfDefined(macro)[1] \in {"nothing", "start"}
  BY DEF IfDefined, Start, Nothing
<1>2. Nothing[1] = "nothing"
  BY DEF Nothing
<1>3. \A c, n : Inject(c, n)[1] = "inject"
  BY DEF Inject
<1>4. \A a : Start(a)[1] = "start"
  BY DEF Start
<1>5. \A a, b : By(a, b)[m] \in {a, b}
  BY DEF By, Modes
<1>6. k \in DOMAIN KodiCases => KodiCases[k][m][1] = "inject"
  <2>1. KodiCases["SUBTITLE"][m][1] = "inject" /\ KodiCases["INFO"][m][1] = "inject"
    BY <1>3, <1>5 DEF KodiCases
  <2> QED
    BY <2>1, Domains
<1>7. k \in DOMAIN Cases => Cases[k][m][1] \in {"nothing", "inject", "start"}
  <2>1. \A c : Send(c)[m][1] = "inject"
    BY <1>3, <1>5 DEF Send
  <2>2. /\ Cases["INPUT"][m][1] \in {"nothing", "start"}
        /\ Cases["SUBTITLE"][m][1] = "inject" /\ Cases["INFO"][m][1] = "inject"
        /\ Cases["RED"][m][1] = "inject" /\ Cases["GREEN"][m][1] = "inject"
        /\ Cases["YELLOW"][m][1] = "inject"
    BY <1>1, <1>2, <1>5, <2>1 DEF Cases
  <2>3. Cases["TAPE"][m][1] \in {"inject", "start"}
    BY <1>3, <1>4, <1>5 DEF Cases
  <2>4. Cases["YOUTUBE"][m][1] = "start"
    BY <1>4, <1>5 DEF Cases
  <2>5. Cases["NETFLIX"][m][1] \in {"nothing", "start"}
    BY <1>1, <1>4, <1>5 DEF Cases
  <2> QED
    BY <2>2, <2>3, <2>4, <2>5, Domains
<1> QED
  BY <1>2, <1>6, <1>7 DEF Chosen

LEMMA DispatchInits == Init => DInv
<1> SUFFICES ASSUME Init
             PROVE  DInv
  OBVIOUS
<1>1. PInv /\ key \in Buttons /\ mode \in Modes /\ does = Undecided /\ at = "idle"
  BY ParserInits DEF Init, ParserInit
<1> QED
  BY <1>1 DEF DInv, Asked, Acted

LEMMA DispatchSteps == DInv /\ [Next]_vars => DInv'
<1> SUFFICES ASSUME DInv, [Next]_vars
             PROVE  DInv'
  OBVIOUS
<1>1. PInv'
  BY ParserSteps DEF DInv
<1>2. key \in Buttons /\ mode \in Modes /\ Asked /\ Acted /\ PInv
  BY DEF DInv
<1>3. key' = key /\ mode' = mode
  BY DEF Next, Switch, Answered, vars
<1>4. CASE Switch
  <2>1. does = Undecided /\ at = "idle"
    BY <1>4 DEF Switch
  <2>2. CASE key \in DOMAIN KodiCases
    <3>1. does' = does
      BY <1>4, <2>2 DEF Switch
    <3> QED
      BY <1>1, <1>2, <1>3, <2>1, <2>2, <3>1 DEF DInv, Asked, Acted
  <2>3. CASE key \notin DOMAIN KodiCases
    <3>1. /\ does' = IF key \in DOMAIN Cases THEN Cases[key][mode] ELSE Nothing
          /\ at' = at
      BY <1>4, <2>3 DEF Switch, parser
    <3>2. does' = Chosen(key, mode, answer')
      BY <2>3, <3>1 DEF Chosen
    <3> QED
      BY <1>1, <1>2, <1>3, <2>1, <3>1, <3>2 DEF DInv, Asked, Acted
  <2> QED
    BY <2>2, <2>3
<1>5. CASE Answered
  <2>1. /\ at = "done" /\ at' = at /\ answer' = answer
        /\ does' = IF answer THEN KodiCases[key][mode] ELSE Cases[key][mode]
    BY <1>5 DEF Answered, parser
  <2>2. key \in DOMAIN KodiCases /\ key \in DOMAIN Cases
    BY <1>2, <2>1, Domains DEF Asked
  <2>3. does' = Chosen(key, mode, answer)
    BY <2>1, <2>2 DEF Chosen
  <2> QED
    BY <1>1, <1>2, <1>3, <2>1, <2>2, <2>3 DEF DInv, Asked, Acted
<1>6. CASE Parse /\ UNCHANGED <<key, mode, does>>
  <2>1. at \notin {"idle", "done"}
    BY <1>6 DEF Parse, NoReply, Header, Scan, Scanned, Name
  <2>2. does' = Undecided
    BY <1>2, <1>6, <2>1 DEF Acted
  <2> QED
    BY <1>1, <1>2, <1>3, <2>1, <2>2 DEF DInv, Asked, Acted
<1>7. CASE UNCHANGED vars
  <2>1. does' = does /\ at' = at /\ answer' = answer
    BY <1>7 DEF vars, parser
  <2> QED
    BY <1>1, <1>2, <1>3, <2>1 DEF DInv, Asked, Acted
<1> QED
  BY <1>4, <1>5, <1>6, <1>7 DEF Next

LEMMA DispatchHolds == Spec => []DInv
BY DispatchInits, DispatchSteps, PTL DEF Spec

(* Types hold, and the parser never reads past the parcel's end, Intents   *)
(* that mislead it included.                                               *)
THEOREM TypeCorrect == Spec => []TypeOK
<1>1. DInv => TypeOK
  <2> SUFFICES ASSUME DInv
               PROVE  TypeOK
    OBVIOUS
  <2>1. /\ key \in Buttons /\ mode \in Modes /\ answer \in BOOLEAN
        /\ at \in {"idle", "header", "scan", "name", "done"} /\ pos \in 0 .. Len(reply)
    BY DEF DInv, PInv, ParserTypes, Steps
  <2>2. does[1] \in {"undecided", "nothing", "inject", "start"}
    <3>1. CASE does = Undecided
      BY <3>1 DEF Undecided
    <3>2. CASE does # Undecided
      BY <2>1, <3>2, ChoiceTyped DEF DInv, Acted
    <3> QED
      BY <3>1, <3>2
  <2> QED
    BY <2>1, <2>2 DEF TypeOK
<1> QED
  BY <1>1, DispatchHolds, PTL

(* An application sees a press once: every button with a case in the       *)
(* switch is hidden by the service's filter, and nothing injected is.      *)
THEOREM SeenJustOnce == Spec => []SeenOnce
<1>1. DInv => SeenOnce
  <2> SUFFICES ASSUME DInv, does # Undecided, does # Nothing
               PROVE  /\ onKeyEvent("UNKNOWN", ScanCode[key])
                      /\ does[1] = "inject" => ~onKeyEvent(does[2], 0)
    BY DEF SeenOnce
  <2>1. key \in DOMAIN Cases
    BY DEF DInv, Acted, Chosen
  <2>2. ASSUME NEW k \in DOMAIN Cases
        PROVE  ScanCode[k] \in blockedScanCodes
    BY Domains DEF ScanCode, blockedScanCodes
  <2>3. 0 \notin blockedScanCodes
    BY DEF blockedScanCodes
  <2> QED
    BY <2>1, <2>2, <2>3 DEF onKeyEvent
<1> QED
  BY <1>1, DispatchHolds, PTL

(* A row of the table is about what the switch does.                       *)
Row(b, held, k, d) ==
  d = Chosen(b, IF held THEN "LONG_PRESS" ELSE "NORMAL", k)

LEMMA Sends ==
  ASSUME NEW c
  PROVE  Send(c)["NORMAL"] = Inject(c, "NORMAL")
BY DEF Send, By

LEMMA Everywhere ==
  ASSUME NEW b, NEW m \in Modes, NEW k \in BOOLEAN, b \in DOMAIN Cases \ DOMAIN KodiCases
  PROVE  Chosen(b, m, k) = Cases[b][m]
BY DEF Chosen

LEMMA Rows ==
  ASSUME NEW row \in Table
  PROVE  Row(row[1], row[2], row[3], row[4]) /\ row[2] \in BOOLEAN
<1> DEFINE Every(b, held, d) == {<<b, held, k, d>> : k \in BOOLEAN}
           Code(b, c) == Every(b, FALSE, Inject(c, "NORMAL"))
           Asking == { <<"SUBTITLE", FALSE, FALSE, Inject("CAPTIONS", "NORMAL")>>,
                       <<"SUBTITLE", FALSE, TRUE,  Inject("T", "NORMAL")>>,
                       <<"SUBTITLE", TRUE,  TRUE,  Inject("L", "NORMAL")>>,
                       <<"INFO",     FALSE, FALSE, Inject("INFO", "NORMAL")>>,
                       <<"INFO",     FALSE, TRUE,  Inject("I", "NORMAL")>>,
                       <<"INFO",     TRUE,  TRUE,  Inject("O", "NORMAL")>> }
<1>1. \/ row \in Every("INPUT", FALSE, Start("INPUT_SWITCHER_ACTIVITY"))
           /\ "INPUT_SWITCHER_ACTIVITY" \in Defined
      \/ row \in Asking
      \/ row \in Code("RED", "PROG_RED")
      \/ row \in Code("GREEN", "PROG_GREEN")
      \/ row \in Code("YELLOW", "PROG_YELLOW")
      \/ row \in Code("TAPE", "MEDIA_PLAY_PAUSE")
      \/ row \in Every("TAPE", TRUE, Start("settings"))
      \/ row \in Every("YOUTUBE", FALSE, Start("smarttube"))
      \/ row \in Every("YOUTUBE", TRUE, Start("fcast"))
      \/ row \in Every("NETFLIX", FALSE, Start("kodi"))
  BY DEF Table
<1>2. ASSUME NEW b \in DOMAIN Cases \ DOMAIN KodiCases, NEW held \in BOOLEAN, NEW d,
             d = Cases[b][IF held THEN "LONG_PRESS" ELSE "NORMAL"],
             row \in Every(b, held, d)
      PROVE  Row(row[1], row[2], row[3], row[4]) /\ row[2] \in BOOLEAN
  <2>1. PICK k \in BOOLEAN : row = <<b, held, k, d>>
    BY <1>2
  <2>2. Chosen(b, IF held THEN "LONG_PRESS" ELSE "NORMAL", k) = d
    BY <1>2, Everywhere DEF Modes
  <2> QED
    BY <2>1, <2>2 DEF Row
<1>3. CASE row \in Asking
  <2>1. /\ KodiCases["SUBTITLE"]["NORMAL"] = Inject("T", "NORMAL")
        /\ KodiCases["SUBTITLE"]["LONG_PRESS"] = Inject("L", "NORMAL")
        /\ KodiCases["INFO"]["NORMAL"] = Inject("I", "NORMAL")
        /\ KodiCases["INFO"]["LONG_PRESS"] = Inject("O", "NORMAL")
    BY DEF KodiCases, By
  <2>2. /\ Cases["SUBTITLE"]["NORMAL"] = Inject("CAPTIONS", "NORMAL")
        /\ Cases["INFO"]["NORMAL"] = Inject("INFO", "NORMAL")
    BY Sends DEF Cases
  <2>3. /\ Row("SUBTITLE", FALSE, FALSE, Inject("CAPTIONS", "NORMAL"))
        /\ Row("SUBTITLE", FALSE, TRUE,  Inject("T", "NORMAL"))
        /\ Row("SUBTITLE", TRUE,  TRUE,  Inject("L", "NORMAL"))
        /\ Row("INFO",     FALSE, FALSE, Inject("INFO", "NORMAL"))
        /\ Row("INFO",     FALSE, TRUE,  Inject("I", "NORMAL"))
        /\ Row("INFO",     TRUE,  TRUE,  Inject("O", "NORMAL"))
    BY <2>1, <2>2, Domains DEF Row, Chosen
  <2>4. ASSUME NEW b, NEW held \in BOOLEAN, NEW k, NEW d, row = <<b, held, k, d>>, Row(b, held, k, d)
        PROVE  Row(row[1], row[2], row[3], row[4]) /\ row[2] \in BOOLEAN
    BY <2>4
  <2> QED
    BY <1>3, <2>3, <2>4
<1>4. /\ "INPUT_SWITCHER_ACTIVITY" \in Defined =>
           Cases["INPUT"]["NORMAL"] = Start("INPUT_SWITCHER_ACTIVITY")
      /\ Cases["RED"]["NORMAL"] = Inject("PROG_RED", "NORMAL")
      /\ Cases["GREEN"]["NORMAL"] = Inject("PROG_GREEN", "NORMAL")
      /\ Cases["YELLOW"]["NORMAL"] = Inject("PROG_YELLOW", "NORMAL")
      /\ Cases["TAPE"]["NORMAL"] = Inject("MEDIA_PLAY_PAUSE", "NORMAL")
      /\ Cases["TAPE"]["LONG_PRESS"] = Start("settings")
      /\ Cases["YOUTUBE"]["NORMAL"] = Start("smarttube")
      /\ Cases["YOUTUBE"]["LONG_PRESS"] = Start("fcast")
      /\ Cases["NETFLIX"]["NORMAL"] = Start("kodi")
  BY Sends DEF Cases, By, IfDefined
<1>5. /\ "INPUT" \in DOMAIN Cases \ DOMAIN KodiCases
      /\ "RED" \in DOMAIN Cases \ DOMAIN KodiCases
      /\ "GREEN" \in DOMAIN Cases \ DOMAIN KodiCases
      /\ "YELLOW" \in DOMAIN Cases \ DOMAIN KodiCases
      /\ "TAPE" \in DOMAIN Cases \ DOMAIN KodiCases
      /\ "YOUTUBE" \in DOMAIN Cases \ DOMAIN KodiCases
      /\ "NETFLIX" \in DOMAIN Cases \ DOMAIN KodiCases
  BY Domains
<1> HIDE DEF Asking
<1> QED
  BY <1>1, <1>2, <1>3, <1>4, <1>5

(* Every button does what the README's table says of it.                   *)
THEOREM AsDocumented == Spec => []DoesAsDocumented
<1>1. DInv => DoesAsDocumented
  <2> SUFFICES ASSUME DInv, does # Undecided, NEW row \in Table,
                      row[1] = key, row[2] = (mode = "LONG_PRESS"), row[3] = answer
               PROVE  does = row[4]
    BY DEF DoesAsDocumented
  <2>1. row[4] = Chosen(key, IF row[2] THEN "LONG_PRESS" ELSE "NORMAL", answer)
    BY Rows DEF Row
  <2>2. (IF row[2] THEN "LONG_PRESS" ELSE "NORMAL") = mode
    BY DEF DInv, Modes
  <2> QED
    BY <2>1, <2>2 DEF DInv, Acted
<1> QED
  BY <1>1, DispatchHolds, PTL
=============================================================================
