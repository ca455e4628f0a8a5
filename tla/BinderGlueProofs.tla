--------------------------- MODULE BinderGlueProofs ---------------------------
(***************************************************************************)
(* Theorems about BinderGlue, for any number of lives: the daemon keeps no *)
(* dead proxy without its obituary on the way, an obituary clears the      *)
(* right proxy, and no living service is left with a key held.             *)
(*                                                                         *)
(* What makes these inductive is the book-keeping of the driver: the       *)
(* binders whose death will be told are exactly the proxies in use         *)
(* (LinkedIsCurrent, ProxyLinked), and each death is told once, after it   *)
(* happened (ToldOnce).                                                    *)
(***************************************************************************)
EXTENDS BinderGlue, SequenceTheorems, TLAPS

(* The proxies are of lives there have been.                               *)
Past ==
  \A s \in Services : proxy[s] <= life[s] /\ registered[s] <= life[s]

(* Only the death of the proxy in use is asked for.                        *)
LinkedIsCurrent == \A b \in linked : proxy[b[1]] = b[2]

(* No obituary is queued twice, or of a life that is not over.             *)
ToldOnce ==
  /\ \A m, n \in DOMAIN obits : obits[m] = obits[n] => m = n
  /\ \A n \in DOMAIN obits : ~Alive(obits[n][1], obits[n][2])

(* What the daemon knows at a step.                                        *)
AtStep ==
  /\ pc = "get" => proxy[svc] = NoProxy
  /\ pc = "link" => <<svc, proxy[svc]>> \notin linked
  /\ pc = "commands" /\ ready => obits # <<>>

DownIsPast == \A i \in down : i <= life["input"]

(* A linked proxy is what makes ProxyAliveOrObituary inductive: its        *)
(* service's death will be queued.                                         *)
ProxyLinked ==
  \A s \in Services :
    proxy[s] # NoProxy =>
      \/ <<s, proxy[s]>> \in linked
      \/ pc \in {"link", "killed"} /\ svc = s

IInv ==
  /\ TypeOK /\ Past /\ LinkedIsCurrent /\ ToldOnce /\ AtStep /\ DownIsPast
  /\ ProxyLinked /\ ProxyAliveOrObituary /\ KeyHeldOnlyInCall

-----------------------------------------------------------------------------
(* Sequences of obituaries.                                                *)

LEMMA ToldAppend ==
  ASSUME NEW S, NEW q \in Seq(S), NEW b \in S
  PROVE  /\ Append(q, b) \in Seq(S)
         /\ Append(q, b) # <<>>
         /\ \A n \in DOMAIN Append(q, b) : 
              \/ n \in DOMAIN q /\ Append(q, b)[n] = q[n]
              \/ n = Len(q) + 1 /\ Append(q, b)[n] = b
         /\ \A n \in DOMAIN q : n \in DOMAIN Append(q, b) /\ Append(q, b)[n] = q[n]
         /\ Append(q, b)[Len(q) + 1] = b /\ Len(q) + 1 \in DOMAIN Append(q, b)
OBVIOUS

LEMMA ToldTail ==
  ASSUME NEW S, NEW q \in Seq(S), q # <<>>,
         \A m, n \in DOMAIN q : q[m] = q[n] => m = n
  PROVE  /\ Head(q) \in S /\ Head(q) = q[1] /\ 1 \in DOMAIN q
         /\ Tail(q) \in Seq(S \ {Head(q)})
         /\ \A n \in DOMAIN Tail(q) : n + 1 \in DOMAIN q /\ Tail(q)[n] = q[n + 1]
         /\ \A n \in DOMAIN q : n # 1 => n - 1 \in DOMAIN Tail(q) /\ Tail(q)[n - 1] = q[n]
<1>1. Len(q) \in Nat /\ Len(q) > 0 /\ DOMAIN q = 1 .. Len(q)
  OBVIOUS
<1>2. Tail(q) \in Seq(S) /\ Len(Tail(q)) = Len(q) - 1
  OBVIOUS
<1>3. \A n \in 1 .. Len(q) - 1 : Tail(q)[n] = q[n + 1]
  OBVIOUS
<1>4. \A n \in 1 .. Len(q) - 1 : Tail(q)[n] \in S \ {Head(q)}
  BY <1>1, <1>3
<1>5. DOMAIN Tail(q) = 1 .. Len(q) - 1
  BY <1>2
<1>6. Tail(q) \in Seq(S \ {Head(q)})
  <2>1. Tail(q) = SubSeq(q, 2, Len(q))
    BY TailIsSubSeq
  <2> DEFINE T == S \ {Head(q)}
  <2>2. \A n \in 2 .. Len(q) : q[n] \in T
    BY <1>1
  <2>3. 2 \in Int /\ Len(q) \in Int
    BY <1>1
  <2> HIDE DEF T
  <2>4. SubSeq(q, 2, Len(q)) \in Seq(T)
    BY <2>2, <2>3, SubSeqProperties
  <2> QED
    BY <2>1, <2>4 DEF T
<1>7. Head(q) \in S /\ Head(q) = q[1] /\ 1 \in DOMAIN q
  BY <1>1
<1>8. \A n \in DOMAIN Tail(q) : n + 1 \in DOMAIN q /\ Tail(q)[n] = q[n + 1]
  BY <1>1, <1>3, <1>5
<1>9. \A n \in DOMAIN q : n # 1 => n - 1 \in DOMAIN Tail(q) /\ Tail(q)[n - 1] = q[n]
  BY <1>1, <1>3, <1>5
<1> QED
  BY <1>6, <1>7, <1>8, <1>9

-----------------------------------------------------------------------------
LEMMA InitInv == Init => IInv
<1> SUFFICES ASSUME Init PROVE IInv
  OBVIOUS
<1> USE DEF Init, NoProxy
<1>1. obits \in Seq(linked) /\ DOMAIN obits = {}
  OBVIOUS
<1>2. TypeOK
  <2>1. life \in [Services -> 0 .. Lives] /\ registered \in [Services -> 0 .. Lives]
    BY LivesAssumption
  <2>2. up \in [Services -> BOOLEAN]
    BY Zenon
  <2> QED
    BY <1>1, <2>1, <2>2 DEF TypeOK, Services, Steps
<1>3. Past /\ LinkedIsCurrent /\ AtStep /\ DownIsPast
  BY <1>2 DEF TypeOK, Past, LinkedIsCurrent, AtStep, DownIsPast
<1>4. ToldOnce
  BY <1>1 DEF ToldOnce
<1>5. ProxyLinked /\ ProxyAliveOrObituary /\ KeyHeldOnlyInCall
  BY DEF ProxyLinked, ProxyAliveOrObituary, KeyHeldOnlyInCall
<1> QED
  BY <1>2, <1>3, <1>4, <1>5 DEF IInv

LEMMA StepPreserves == IInv /\ [Next]_vars => IInv'
<1> SUFFICES ASSUME IInv, [Next]_vars PROVE IInv'
  OBVIOUS
<1> USE LivesAssumption DEF android, driver
<1> USE DEF IInv, Life, NoProxy
<1>in. "input" \in Services /\ "activity_task" \in Services
  BY DEF Services
<1>ob. \A n \in DOMAIN obits :
         /\ obits[n] \in linked /\ obits[n] \in Binders
         /\ obits[n] = <<obits[n][1], obits[n][2]>>
         /\ obits[n][1] \in Services /\ obits[n][2] \in Life
         /\ proxy[obits[n][1]] = obits[n][2]
         /\ obits[n][2] <= life[obits[n][1]]
  BY DEF TypeOK, Binders, LinkedIsCurrent, Past
<1>1. CASE UNCHANGED vars
  BY <1>1 DEF vars, TypeOK, Past, LinkedIsCurrent, ToldOnce, AtStep, DownIsPast,
     ProxyLinked, ProxyAliveOrObituary, KeyHeldOnlyInCall, Alive, Pending, Steps
<1>2. CASE Kill
  <2> USE <1>2, <1>in DEF Kill
  <2>1. TypeOK'
    BY DEF TypeOK, Steps, Binders
  <2>2. Past'
    BY DEF TypeOK, Past
  <2>3. LinkedIsCurrent'
    BY DEF TypeOK, LinkedIsCurrent, AtStep, Binders
  <2>4. ToldOnce'
    BY DEF TypeOK, ToldOnce, LinkedIsCurrent, Past, Alive, Binders
  <2>5. AtStep'
    BY DEF TypeOK, AtStep, Binders
  <2>6. DownIsPast'
    BY DEF TypeOK, DownIsPast, Past
  <2>7. ProxyLinked'
    BY DEF TypeOK, ProxyLinked, AtStep, Binders
  <2>8. ProxyAliveOrObituary'
    BY DEF TypeOK, ProxyAliveOrObituary, ProxyLinked, Past, AtStep, Alive, Pending
  <2>9. KeyHeldOnlyInCall'
    BY DEF TypeOK, KeyHeldOnlyInCall, DownIsPast, Past, Alive
  <2> QED
    BY <2>1, <2>2, <2>3, <2>4, <2>5, <2>6, <2>7, <2>8, <2>9 DEF IInv
<1>3. ASSUME NEW s \in Services, Start(s) PROVE IInv'
  <2> USE <1>3, <1>in DEF Start
  <2>1. TypeOK'
    <3>1. life' \in [Services -> 0 .. Lives]
      BY DEF TypeOK
    <3>2. up' \in [Services -> BOOLEAN]
      BY Zenon DEF TypeOK
    <3> QED
      BY <3>1, <3>2 DEF TypeOK, Steps
  <2>2. Past'
    BY DEF TypeOK, Past
  <2>3. LinkedIsCurrent'
    BY DEF TypeOK, LinkedIsCurrent, AtStep, Binders
  <2>4. ToldOnce'
    <3>1. \A t \in Services : life[t] \in Nat
      BY DEF TypeOK
    <3>2. ASSUME NEW n \in DOMAIN obits
          PROVE  ~(life'[obits[n][1]] = obits[n][2] /\ up'[obits[n][1]])
      <4> DEFINE t == obits[n][1]
      <4>1. t \in Services /\ obits[n][2] <= life[t] /\ obits[n][2] \in Nat
        BY <1>ob
      <4>2. ~(life[t] = obits[n][2] /\ up[t])
        BY DEF ToldOnce, Alive
      <4> HIDE DEF t
      <4>3. t = s => life'[t] # obits[n][2]
        BY <4>1, <3>1 DEF TypeOK
      <4>4. t # s => life'[t] = life[t] /\ up'[t] = up[t]
        BY <4>1 DEF TypeOK
      <4> QED
        BY <4>2, <4>3, <4>4 DEF t
    <3> QED
      BY <3>2 DEF ToldOnce, Alive
  <2>5. AtStep'
    BY DEF TypeOK, AtStep, Binders
  <2>6. DownIsPast'
    BY DEF TypeOK, DownIsPast, Past
  <2>7. ProxyLinked'
    BY DEF TypeOK, ProxyLinked, AtStep, Binders
  <2>8. ProxyAliveOrObituary'
    BY DEF TypeOK, ProxyAliveOrObituary, ProxyLinked, Past, AtStep, Alive, Pending
  <2>9. KeyHeldOnlyInCall'
    BY DEF TypeOK, KeyHeldOnlyInCall, DownIsPast, Past, Alive
  <2> QED
    BY <2>1, <2>2, <2>3, <2>4, <2>5, <2>6, <2>7, <2>8, <2>9 DEF IInv
<1>4. ASSUME NEW s \in Services, Register(s) PROVE IInv'
  <2> USE <1>4, <1>in DEF Register
  <2>1. TypeOK'
    BY DEF TypeOK, Steps, Binders
  <2>2. Past'
    BY DEF TypeOK, Past
  <2>3. LinkedIsCurrent'
    BY DEF TypeOK, LinkedIsCurrent, AtStep, Binders
  <2>4. ToldOnce'
    BY DEF TypeOK, ToldOnce, LinkedIsCurrent, Past, Alive, Binders
  <2>5. AtStep'
    BY DEF TypeOK, AtStep, Binders
  <2>6. DownIsPast'
    BY DEF TypeOK, DownIsPast, Past
  <2>7. ProxyLinked'
    BY DEF TypeOK, ProxyLinked, AtStep, Binders
  <2>8. ProxyAliveOrObituary'
    BY DEF TypeOK, ProxyAliveOrObituary, ProxyLinked, Past, AtStep, Alive, Pending
  <2>9. KeyHeldOnlyInCall'
    BY DEF TypeOK, KeyHeldOnlyInCall, DownIsPast, Past, Alive
  <2> QED
    BY <2>1, <2>2, <2>3, <2>4, <2>5, <2>6, <2>7, <2>8, <2>9 DEF IInv
<1>5. ASSUME NEW s \in Services, Die(s) PROVE IInv'
  <2> USE <1>5, <1>in DEF Die
  <2> DEFINE b == <<s, life[s]>>
  <2>a. b \in linked =>
          /\ obits' \in Seq(linked) /\ obits' # <<>>
          /\ \A n \in DOMAIN obits' :
               \/ n \in DOMAIN obits /\ obits'[n] = obits[n]
               \/ n = Len(obits) + 1 /\ obits'[n] = b
          /\ \A n \in DOMAIN obits : n \in DOMAIN obits' /\ obits'[n] = obits[n]
          /\ Len(obits) + 1 \in DOMAIN obits' /\ obits'[Len(obits) + 1] = b
    <3> SUFFICES ASSUME b \in linked PROVE obits' = Append(obits, b)
      BY ToldAppend DEF TypeOK
    <3> QED
      OBVIOUS
  <2>b. \A n \in DOMAIN obits : obits[n] # b
    BY DEF ToldOnce, Alive
  <2>c. ~up'[s] /\ \A t \in Services \ {s} : up'[t] = up[t]
    BY DEF TypeOK
  <2>1. TypeOK'
    <3>1. up' \in [Services -> BOOLEAN]
      BY Zenon DEF TypeOK
    <3> QED
      BY <3>1, <2>a DEF TypeOK, Steps
  <2>2. Past'
    BY DEF TypeOK, Past
  <2>3. LinkedIsCurrent'
    BY DEF TypeOK, LinkedIsCurrent, AtStep, Binders
  <2>4. ToldOnce'
    <3>1. CASE b \in linked
      <4>1. \A m, n \in DOMAIN obits' : obits'[m] = obits'[n] => m = n
        <5> SUFFICES ASSUME NEW m \in DOMAIN obits', NEW n \in DOMAIN obits',
                            obits'[m] = obits'[n]
                     PROVE  m = n
          OBVIOUS
        <5>1. \/ m \in DOMAIN obits /\ obits'[m] = obits[m] /\ obits[m] # b
              \/ m = Len(obits) + 1 /\ obits'[m] = b
          BY <3>1, <2>a, <2>b
        <5>2. \/ n \in DOMAIN obits /\ obits'[n] = obits[n] /\ obits[n] # b
              \/ n = Len(obits) + 1 /\ obits'[n] = b
          BY <3>1, <2>a, <2>b
        <5> QED
          BY <5>1, <5>2, Zenon DEF ToldOnce
      <4>2. \A n \in DOMAIN obits' : ~Alive(obits[n][1], obits[n][2])'
        BY <3>1, <2>a, <2>c, <1>ob DEF ToldOnce, Alive
      <4> QED
        BY <4>1, <4>2 DEF ToldOnce
    <3>2. CASE b \notin linked
      BY <3>2, <2>c, <1>ob DEF ToldOnce, Alive
    <3> QED
      BY <3>1, <3>2
  <2>5. AtStep'
    BY <2>a DEF AtStep
  <2>6. DownIsPast'
    BY DEF TypeOK, DownIsPast, Past
  <2>7. ProxyLinked'
    BY DEF TypeOK, ProxyLinked, AtStep, Binders
  <2>8. ProxyAliveOrObituary'
    <3> SUFFICES ASSUME NEW t \in Services, proxy[t] # NoProxy,
                        ~(pc \in {"link", "killed"} /\ svc = t),
                        ~Alive(t, proxy[t])'
                 PROVE  (<<t, proxy[t]>> \in Pending)'
      BY DEF ProxyAliveOrObituary
    <3>1. <<t, proxy[t]>> \in linked
      BY DEF ProxyLinked
    <3>2. CASE <<t, proxy[t]>> \in Pending
      BY <3>2, <2>a DEF Pending
    <3>3. CASE Alive(t, proxy[t])
      <4>1. <<t, proxy[t]>> = b
        BY <3>3, <2>c DEF Alive
      <4> QED
        BY <4>1, <3>1, <2>a DEF Pending
    <3> QED
      BY <3>2, <3>3 DEF ProxyAliveOrObituary
  <2>9. KeyHeldOnlyInCall'
    BY DEF TypeOK, KeyHeldOnlyInCall, DownIsPast, Past, Alive
  <2> QED
    BY <2>1, <2>2, <2>3, <2>4, <2>5, <2>6, <2>7, <2>8, <2>9 DEF IInv
<1>6. ASSUME NEW s \in Services, Unregister(s) PROVE IInv'
  <2> USE <1>6, <1>in DEF Unregister
  <2>1. TypeOK'
    BY DEF TypeOK, Steps, Binders
  <2>2. Past'
    BY DEF TypeOK, Past
  <2>3. LinkedIsCurrent'
    BY DEF TypeOK, LinkedIsCurrent, AtStep, Binders
  <2>4. ToldOnce'
    BY DEF TypeOK, ToldOnce, LinkedIsCurrent, Past, Alive, Binders
  <2>5. AtStep'
    BY DEF TypeOK, AtStep, Binders
  <2>6. DownIsPast'
    BY DEF TypeOK, DownIsPast, Past
  <2>7. ProxyLinked'
    BY DEF TypeOK, ProxyLinked, AtStep, Binders
  <2>8. ProxyAliveOrObituary'
    BY DEF TypeOK, ProxyAliveOrObituary, ProxyLinked, Past, AtStep, Alive, Pending
  <2>9. KeyHeldOnlyInCall'
    BY DEF TypeOK, KeyHeldOnlyInCall, DownIsPast, Past, Alive
  <2> QED
    BY <2>1, <2>2, <2>3, <2>4, <2>5, <2>6, <2>7, <2>8, <2>9 DEF IInv
<1>7. ASSUME NEW p \in {"none", "plain", "asks"}, Poll(p) PROVE IInv'
  <2> USE <1>7, <1>in DEF Poll
  <2>1. TypeOK'
    BY DEF TypeOK, Steps, Binders
  <2>2. Past'
    BY DEF TypeOK, Past
  <2>3. LinkedIsCurrent'
    BY DEF TypeOK, LinkedIsCurrent, AtStep, Binders
  <2>4. ToldOnce'
    BY DEF TypeOK, ToldOnce, LinkedIsCurrent, Past, Alive, Binders
  <2>5. AtStep'
    BY DEF TypeOK, AtStep, Binders
  <2>6. DownIsPast'
    BY DEF TypeOK, DownIsPast, Past
  <2>7. ProxyLinked'
    BY DEF TypeOK, ProxyLinked, AtStep, Binders
  <2>8. ProxyAliveOrObituary'
    BY DEF TypeOK, ProxyAliveOrObituary, ProxyLinked, Past, AtStep, Alive, Pending
  <2>9. KeyHeldOnlyInCall'
    BY DEF TypeOK, KeyHeldOnlyInCall, DownIsPast, Past, Alive
  <2> QED
    BY <2>1, <2>2, <2>3, <2>4, <2>5, <2>6, <2>7, <2>8, <2>9 DEF IInv
<1>8. CASE OnBinderReadReady
  <2> USE <1>8, <1>in DEF OnBinderReadReady
  <2> DEFINE h == Head(obits)
  <2>a. CASE ~ready
    <3>1. UNCHANGED <<obits, linked, proxy>> /\ pc' = "event"
      BY <2>a
    <3> QED
      BY <3>1 DEF TypeOK, Past, LinkedIsCurrent, ToldOnce, AtStep, DownIsPast,
         ProxyLinked, ProxyAliveOrObituary, KeyHeldOnlyInCall, Alive, Pending, Steps
  <2> SUFFICES ASSUME ready PROVE IInv'
    BY <2>a
  <2>b. obits # <<>>
    BY DEF AtStep
  <2>c. /\ h \in linked /\ h = obits[1] /\ 1 \in DOMAIN obits
        /\ obits' \in Seq(linked')
        /\ \A n \in DOMAIN obits' : n + 1 \in DOMAIN obits /\ obits'[n] = obits[n + 1]
        /\ \A n \in DOMAIN obits :
             n # 1 => n - 1 \in DOMAIN obits' /\ obits'[n - 1] = obits[n]
    <3>1. obits \in Seq(linked) /\ \A m, n \in DOMAIN obits : obits[m] = obits[n] => m = n
      BY DEF TypeOK, ToldOnce
    <3>2. obits' = Tail(obits) /\ linked' = linked \ {h}
      OBVIOUS
    <3> QED
      BY <3>1, <3>2, <2>b, ToldTail
  <2>d. /\ h[1] \in Services /\ proxy[h[1]] = h[2] /\ h = <<h[1], h[2]>>
        /\ ~Alive(h[1], h[2])
    BY <2>c, <1>ob DEF ToldOnce
  <2>e. /\ proxy'[h[1]] = NoProxy
        /\ \A s \in Services \ {h[1]} : proxy'[s] = proxy[s]
        /\ proxy' \in [Services -> Life \cup {NoProxy}]
    BY <2>d DEF TypeOK
  <2>1. TypeOK'
    BY <2>c, <2>e DEF TypeOK, Steps
  <2>2. Past'
    <3> SUFFICES ASSUME NEW s \in Services PROVE proxy'[s] <= life[s]
      BY DEF Past
    <3>1. life[s] \in Nat
      BY DEF TypeOK
    <3>2. CASE s = h[1]
      BY <3>1, <3>2, <2>e
    <3>3. CASE s # h[1]
      BY <3>3, <2>e DEF Past
    <3> QED
      BY <3>2, <3>3
  <2>3. LinkedIsCurrent'
    <3> SUFFICES ASSUME NEW b \in linked, b # h PROVE proxy'[b[1]] = b[2]
      BY DEF LinkedIsCurrent
    <3>1. b[1] \in Services /\ b = <<b[1], b[2]>> /\ proxy[b[1]] = b[2]
      BY DEF TypeOK, Binders, LinkedIsCurrent
    <3>2. b[1] # h[1]
      BY <3>1, <2>d
    <3> QED
      BY <3>1, <3>2, <2>e
  <2>4. ToldOnce'
    <3>1. \A m, n \in DOMAIN obits' : obits'[m] = obits'[n] => m = n
      <4> SUFFICES ASSUME NEW m \in DOMAIN obits', NEW n \in DOMAIN obits',
                          obits'[m] = obits'[n]
                   PROVE  m = n
        OBVIOUS
      <4>1. m + 1 = n + 1
        BY <2>c DEF ToldOnce
      <4>2. m \in Nat /\ n \in Nat
        BY <2>c
      <4> QED
        BY <4>1, <4>2
    <3>2. ASSUME NEW n \in DOMAIN obits'
          PROVE  ~Alive(obits[n][1], obits[n][2])'
      <4>1. n + 1 \in DOMAIN obits /\ obits'[n] = obits[n + 1]
        BY <2>c
      <4>2. ~Alive(obits[n + 1][1], obits[n + 1][2])
        BY <4>1 DEF ToldOnce
      <4> QED
        BY <4>1, <4>2 DEF Alive
    <3> QED
      BY <3>1, <3>2 DEF ToldOnce
  <2>5. AtStep'
    BY ToldTail DEF TypeOK, AtStep, Binders
  <2>6. DownIsPast'
    BY DEF TypeOK, DownIsPast, Past
  <2>7. ProxyLinked'
    <3> SUFFICES ASSUME NEW s \in Services, proxy'[s] # NoProxy
                 PROVE  <<s, proxy'[s]>> \in linked'
      BY DEF ProxyLinked
    <3>1. s # h[1] /\ proxy'[s] = proxy[s]
      BY <2>e
    <3> QED
      BY <3>1, <2>d DEF ProxyLinked
  <2>8. ProxyAliveOrObituary'
    <3> SUFFICES ASSUME NEW s \in Services, proxy'[s] # NoProxy, ~Alive(s, proxy'[s])
                 PROVE  <<s, proxy'[s]>> \in Pending'
      BY DEF ProxyAliveOrObituary, Alive
    <3>1. s # h[1] /\ proxy'[s] = proxy[s]
      BY <2>e
    <3>2. PICK n \in DOMAIN obits : obits[n] = <<s, proxy[s]>>
      BY <3>1 DEF ProxyAliveOrObituary, Pending
    <3>3. n # 1
      BY <3>1, <3>2, <2>c
    <3> QED
      BY <3>1, <3>2, <3>3, <2>c DEF Pending
  <2>9. KeyHeldOnlyInCall'
    BY DEF TypeOK, KeyHeldOnlyInCall, DownIsPast, Past, Alive
  <2> QED
    BY <2>1, <2>2, <2>3, <2>4, <2>5, <2>6, <2>7, <2>8, <2>9 DEF IInv
<1>9. CASE Dispatch
  <2> USE <1>9, <1>in DEF Dispatch, Use
  <2>1. TypeOK'
    BY DEF TypeOK, Steps, Binders
  <2>2. Past'
    BY DEF TypeOK, Past
  <2>3. LinkedIsCurrent'
    BY DEF TypeOK, LinkedIsCurrent, AtStep, Binders
  <2>4. ToldOnce'
    BY DEF TypeOK, ToldOnce, LinkedIsCurrent, Past, Alive, Binders
  <2>5. AtStep'
    BY DEF TypeOK, AtStep, Binders
  <2>6. DownIsPast'
    BY DEF TypeOK, DownIsPast, Past
  <2>7. ProxyLinked'
    BY DEF TypeOK, ProxyLinked, AtStep, Binders
  <2>8. ProxyAliveOrObituary'
    BY DEF TypeOK, ProxyAliveOrObituary, ProxyLinked, Past, AtStep, Alive, Pending
  <2>9. KeyHeldOnlyInCall'
    BY DEF TypeOK, KeyHeldOnlyInCall, DownIsPast, Past, Alive
  <2> QED
    BY <2>1, <2>2, <2>3, <2>4, <2>5, <2>6, <2>7, <2>8, <2>9 DEF IInv
<1>10. CASE GetService
  <2> USE <1>10, <1>in DEF GetService, Use
  <2>1. TypeOK'
    BY DEF TypeOK, Steps, Binders
  <2>2. Past'
    BY DEF TypeOK, Past
  <2>3. LinkedIsCurrent'
    BY DEF TypeOK, LinkedIsCurrent, AtStep, Binders
  <2>4. ToldOnce'
    BY DEF TypeOK, ToldOnce, LinkedIsCurrent, Past, Alive, Binders
  <2>5. AtStep'
    <3>1. \A s \in Services : <<s, proxy[s]>> \in linked => proxy[s] # NoProxy
      BY DEF TypeOK, Binders
    <3>2. pc' = "link" => <<svc, proxy'[svc]>> \notin linked
      BY DEF LinkedIsCurrent, AtStep, TypeOK, Binders
    <3>3. pc' = "get" => proxy'[svc'] = NoProxy
      BY DEF TypeOK
    <3> QED
      BY <3>2, <3>3 DEF AtStep, TypeOK
  <2>6. DownIsPast'
    BY DEF TypeOK, DownIsPast, Past
  <2>7. ProxyLinked'
    BY DEF TypeOK, ProxyLinked, AtStep, Binders
  <2>8. ProxyAliveOrObituary'
    BY DEF TypeOK, ProxyAliveOrObituary, ProxyLinked, Past, AtStep, Alive, Pending
  <2>9. KeyHeldOnlyInCall'
    BY DEF TypeOK, KeyHeldOnlyInCall, DownIsPast, Past, Alive
  <2> QED
    BY <2>1, <2>2, <2>3, <2>4, <2>5, <2>6, <2>7, <2>8, <2>9 DEF IInv
<1>11. CASE LinkToDeath
  <2> USE <1>11, <1>in DEF LinkToDeath, Resume
  <2> DEFINE b == <<svc, proxy[svc]>>
  <2>a. b \in Binders /\ svc \in Services /\ proxy[svc] \in Life
    BY DEF TypeOK, Binders
  <2>b. ~Alive(svc, proxy[svc]) =>
          /\ obits' \in Seq(linked') /\ obits' # <<>>
          /\ \A n \in DOMAIN obits' :
               \/ n \in DOMAIN obits /\ obits'[n] = obits[n]
               \/ n = Len(obits) + 1 /\ obits'[n] = b
          /\ \A n \in DOMAIN obits : n \in DOMAIN obits' /\ obits'[n] = obits[n]
          /\ Len(obits) + 1 \in DOMAIN obits' /\ obits'[Len(obits) + 1] = b
    <3>1. obits \in Seq(linked') /\ b \in linked'
      BY SeqMonotonic DEF TypeOK
    <3> SUFFICES ASSUME ~Alive(svc, proxy[svc]) PROVE obits' = Append(obits, b)
      BY <3>1, ToldAppend
    <3> QED
      OBVIOUS
  <2>c. \A n \in DOMAIN obits : obits[n] # b
    BY <1>ob DEF AtStep
  <2>d. Alive(svc, proxy[svc]) => obits' \in Seq(linked')
    BY SeqMonotonic DEF TypeOK
  <2>1. TypeOK'
    <3>1. obits' \in Seq(linked') /\ linked' \subseteq Binders
      BY <2>a, <2>b, <2>d DEF TypeOK
    <3>2. pc' \in {"poll", "down", "tasks"}
      OBVIOUS
    <3>3. pc' = "down" => svc = "input"
      OBVIOUS
    <3>4. pc' = "tasks" => svc = "activity_task"
      BY DEF TypeOK, Services
    <3> QED
      BY <3>1, <3>2, <3>3, <3>4, <2>a DEF TypeOK, Steps
  <2>2. Past'
    BY DEF TypeOK, Past
  <2>3. LinkedIsCurrent'
    BY DEF TypeOK, LinkedIsCurrent, AtStep, Binders
  <2>4. ToldOnce'
    <3>1. CASE Alive(svc, proxy[svc])
      BY <3>1 DEF ToldOnce, Alive
    <3>2. CASE ~Alive(svc, proxy[svc])
      <4>1. \A m, n \in DOMAIN obits' : obits'[m] = obits'[n] => m = n
        BY <3>2, <2>b, <2>c DEF ToldOnce
      <4>2. \A n \in DOMAIN obits' : ~Alive(obits'[n][1], obits'[n][2])
        BY <3>2, <2>b DEF ToldOnce
      <4> QED
        BY <4>1, <4>2 DEF ToldOnce, Alive
    <3> QED
      BY <3>1, <3>2
  <2>5. AtStep'
    BY ToldAppend DEF TypeOK, AtStep, Binders
  <2>6. DownIsPast'
    BY DEF TypeOK, DownIsPast, Past
  <2>7. ProxyLinked'
    BY DEF TypeOK, ProxyLinked, AtStep, Binders
  <2>8. ProxyAliveOrObituary'
    <3>1. \A o \in Pending : o \in Pending'
      BY <2>b DEF Pending
    <3>2. Alive(svc, proxy[svc]) \/ b \in Pending'
      BY <2>b DEF Pending
    <3> QED
      BY <3>1, <3>2 DEF ProxyAliveOrObituary, Alive
  <2>9. KeyHeldOnlyInCall'
    BY DEF TypeOK, KeyHeldOnlyInCall, DownIsPast, Past, Alive
  <2> QED
    BY <2>1, <2>2, <2>3, <2>4, <2>5, <2>6, <2>7, <2>8, <2>9 DEF IInv
<1>12. CASE GetTasks
  <2> USE <1>12, <1>in DEF GetTasks, Use
  <2>1. TypeOK'
    BY DEF TypeOK, Steps, Binders
  <2>2. Past'
    BY DEF TypeOK, Past
  <2>3. LinkedIsCurrent'
    BY DEF TypeOK, LinkedIsCurrent, AtStep, Binders
  <2>4. ToldOnce'
    BY DEF TypeOK, ToldOnce, LinkedIsCurrent, Past, Alive, Binders
  <2>5. AtStep'
    BY DEF TypeOK, AtStep, Binders
  <2>6. DownIsPast'
    BY DEF TypeOK, DownIsPast, Past
  <2>7. ProxyLinked'
    BY DEF TypeOK, ProxyLinked, AtStep, Binders
  <2>8. ProxyAliveOrObituary'
    BY DEF TypeOK, ProxyAliveOrObituary, ProxyLinked, Past, AtStep, Alive, Pending
  <2>9. KeyHeldOnlyInCall'
    BY DEF TypeOK, KeyHeldOnlyInCall, DownIsPast, Past, Alive
  <2> QED
    BY <2>1, <2>2, <2>3, <2>4, <2>5, <2>6, <2>7, <2>8, <2>9 DEF IInv
<1>13. CASE InjectDown
  <2> USE <1>13, <1>in DEF InjectDown
  <2>1. TypeOK'
    BY DEF TypeOK, Steps, Binders
  <2>2. Past'
    BY DEF TypeOK, Past
  <2>3. LinkedIsCurrent'
    BY DEF TypeOK, LinkedIsCurrent, AtStep, Binders
  <2>4. ToldOnce'
    BY DEF TypeOK, ToldOnce, LinkedIsCurrent, Past, Alive, Binders
  <2>5. AtStep'
    BY DEF TypeOK, AtStep, Binders
  <2>6. DownIsPast'
    BY DEF TypeOK, DownIsPast, Past
  <2>7. ProxyLinked'
    BY DEF TypeOK, ProxyLinked, AtStep, Binders
  <2>8. ProxyAliveOrObituary'
    BY DEF TypeOK, ProxyAliveOrObituary, ProxyLinked, Past, AtStep, Alive, Pending
  <2>9. KeyHeldOnlyInCall'
    BY DEF TypeOK, KeyHeldOnlyInCall, DownIsPast, Past, Alive
  <2> QED
    BY <2>1, <2>2, <2>3, <2>4, <2>5, <2>6, <2>7, <2>8, <2>9 DEF IInv
<1>14. CASE InjectUp
  <2> USE <1>14, <1>in DEF InjectUp
  <2>1. TypeOK'
    BY DEF TypeOK, Steps, Binders
  <2>2. Past'
    BY DEF TypeOK, Past
  <2>3. LinkedIsCurrent'
    BY DEF TypeOK, LinkedIsCurrent, AtStep, Binders
  <2>4. ToldOnce'
    BY DEF TypeOK, ToldOnce, LinkedIsCurrent, Past, Alive, Binders
  <2>5. AtStep'
    BY DEF TypeOK, AtStep, Binders
  <2>6. DownIsPast'
    BY DEF TypeOK, DownIsPast, Past
  <2>7. ProxyLinked'
    BY DEF TypeOK, ProxyLinked, AtStep, Binders
  <2>8. ProxyAliveOrObituary'
    BY DEF TypeOK, ProxyAliveOrObituary, ProxyLinked, Past, AtStep, Alive, Pending
  <2>9. KeyHeldOnlyInCall'
    BY DEF TypeOK, KeyHeldOnlyInCall, DownIsPast, Past, Alive
  <2> QED
    BY <2>1, <2>2, <2>3, <2>4, <2>5, <2>6, <2>7, <2>8, <2>9 DEF IInv
<1> QED
  BY <1>1, <1>2, <1>3, <1>4, <1>5, <1>6, <1>7, <1>8, <1>9, <1>10, <1>11, <1>12, <1>13, <1>14 DEF Next, Outside, Step

(* The daemon never keeps a dead proxy without its obituary on the way,    *)
(* although connectInputService ignores what linkToDeath answers.          *)
THEOREM NoDeadProxyKept == Spec => []ProxyAliveOrObituary
<1>1. IInv => ProxyAliveOrObituary
  BY DEF IInv
<1> QED
  BY <1>1, InitInv, StepPreserves, PTL DEF Spec

(* binderDied may clear the pointer without looking at who died.           *)
THEOREM RightProxyCleared == Spec => []ObituaryIsCurrent
<1>1. IInv => ObituaryIsCurrent
  BY DEF IInv, TypeOK, LinkedIsCurrent, ObituaryIsCurrent, Pending
<1> QED
  BY <1>1, InitInv, StepPreserves, PTL DEF Spec

(* Whatever dies or restarts, and whenever the daemon is killed, a living  *)
(* input service sees a key held only inside injectInputEvent, or because  *)
(* the daemon was killed there.                                            *)
THEOREM NoKeyLeftHeld == Spec => []KeyHeldOnlyInCall
<1>1. IInv => KeyHeldOnlyInCall
  BY DEF IInv
<1> QED
  BY <1>1, InitInv, StepPreserves, PTL DEF Spec

(* The types of the glue's state, among them that injectInputEvent's       *)
(* second use of the pointer is of one that is not null.                   *)
THEOREM GlueTypes == Spec => []TypeOK
<1>1. IInv => TypeOK
  BY DEF IInv
<1> QED
  BY <1>1, InitInv, StepPreserves, PTL DEF Spec
=============================================================================
