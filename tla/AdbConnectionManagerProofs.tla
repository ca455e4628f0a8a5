---------------------- MODULE AdbConnectionManagerProofs ----------------------
(***************************************************************************)
(* Proofs about the connection manager, for any threads and any number of  *)
(* faults: types, one identity, and an instance that is what is stored.    *)
(***************************************************************************)
EXTENDS AdbConnectionManager, TLAPS

(* Where a thread is says what its object is: a pair it made, a key it     *)
(* read; who returns has an object to return.                              *)
Places ==
  \A t \in Threads :
    /\ pc[t] \in {"openKey", "fillKey", "openCert", "fillCert"} =>
         object[t].key # None /\ object[t].cert = object[t].key
    /\ pc[t] = "publish" => object[t].key # None
    /\ pc[t] = "return" => instance # Null
TypeInv == TypeOK /\ Places

(* Without a race, whoever constructs before the files are written does so *)
(* alone, and while there is no instance.                                  *)
Sole ==
  \A t, u \in Threads : Unsaved(t) => instance = Null /\ (Constructing(u) => t = u)

(* Without a race every key anywhere is the file's, from the step that     *)
(* completes the file on; before it, no key was handed out.                *)
Identity ==
  /\ instance # Null => file.key = instance.key
  /\ handed \subseteq {file.key}
  /\ \A t \in Threads :
       /\ pc[t] \in {"readCert", "openCert", "fillCert", "publish"} => object[t].key = file.key
       /\ pc[t] \in {"generate", "openKey"} => file.key = None
       /\ pc[t] = "fillKey" => file.key = Torn

(* Without a race a certificate is of the key in the other file and is     *)
(* written by one thread; what is read is what stays.                      *)
Stored ==
  /\ file.cert \in {None, Torn, file.key}
  /\ file.key \notin Key => file.cert = None
  /\ instance # Null => instance = file
  /\ \A t \in Threads :
       /\ pc[t] \in {"fillKey", "openCert"} => file.cert = None
       /\ pc[t] = "fillCert" => file.cert = Torn
       /\ pc[t] = "publish" => object[t] = file

(* Files that were always written to the end are absent or a pair, but for *)
(* a thread that writes them.                                              *)
Whole == (\A t \in Threads : ~Writing(t)) => file.cert = file.key

(* The inductive invariant.                                                *)
IInv == TypeInv /\ (~raced => Sole /\ Identity /\ Stored) /\ (~raced /\ ~cut => Whole)

-----------------------------------------------------------------------------
(* Each part is preserved by every step, given the parts before it.        *)

(* Types and places.                                                       *)
LEMMA TypeStep ==
  ASSUME TypeInv, [Next]_vars
  PROVE  TypeInv'
<1> USE ManagerAssumption
    DEF ghosts, TypeInv, TypeOK, Places, Pair, Key, Locations, None, Torn, Null, Constructing
<1>1. CASE Crash
  BY <1>1 DEF Crash, Fault
<1>2. ASSUME NEW t \in Threads, Call(t) PROVE TypeInv'
  BY <1>2 DEF Call, Goto
<1>3. ASSUME NEW t \in Threads, Get(t) PROVE TypeInv'
  BY <1>3 DEF Get, Goto
<1>4. ASSUME NEW t \in Threads, readPrivateKeyFromFile(t) PROVE TypeInv'
  BY <1>4 DEF readPrivateKeyFromFile, Read, Goto
<1>5. ASSUME NEW t \in Threads, readCertificateFromFile(t) PROVE TypeInv'
  BY <1>5 DEF readCertificateFromFile, Read, Goto
<1>6. ASSUME NEW t \in Threads, Generate(t) PROVE TypeInv'
  BY <1>6 DEF Generate, NewPair, Goto
<1>7. ASSUME NEW t \in Threads, OpenKey(t) PROVE TypeInv'
  BY <1>7 DEF OpenKey, Put, Goto
<1>8. ASSUME NEW t \in Threads, FillKey(t) PROVE TypeInv'
  BY <1>8 DEF FillKey, Put, Goto
<1>9. ASSUME NEW t \in Threads, OpenCert(t) PROVE TypeInv'
  BY <1>9 DEF OpenCert, Put, Goto
<1>10. ASSUME NEW t \in Threads, FillCert(t) PROVE TypeInv'
  BY <1>10 DEF FillCert, Put, Goto
<1>11. ASSUME NEW t \in Threads, Publish(t) PROVE TypeInv'
  BY <1>11 DEF Publish, Goto
<1>12. ASSUME NEW t \in Threads, Return(t) PROVE TypeInv'
  BY <1>12 DEF Return, Goto
<1>13. ASSUME NEW t \in Threads, Throw(t) PROVE TypeInv'
  BY <1>13 DEF Throw, Fault
<1>14. CASE UNCHANGED vars
  BY <1>14 DEF vars
<1>15. QED
  BY <1>1, <1>2, <1>3, <1>4, <1>5, <1>6, <1>7, <1>8, <1>9, <1>10, <1>11, <1>12, <1>13, <1>14
     DEF Next, Step

(* One constructor, one key.                                               *)
LEMMA IdentityStep ==
  ASSUME TypeInv, ~raced => Sole /\ Identity, [Next]_vars, ~raced'
  PROVE  Sole' /\ Identity'
<1> USE ManagerAssumption
    DEF ghosts, TypeInv, TypeOK, Places, Pair, Key, Locations, None, Torn, Null, Constructing,
        Writing, Unsaved, Sole, Identity
<1>1. CASE Crash
  BY <1>1 DEF Crash, Fault
<1>2. ASSUME NEW t \in Threads, Call(t) PROVE Sole' /\ Identity'
  BY <1>2 DEF Call, Goto
<1>3. ASSUME NEW t \in Threads, Get(t) PROVE Sole' /\ Identity'
  BY <1>3 DEF Get, Goto
<1>4. ASSUME NEW t \in Threads, readPrivateKeyFromFile(t) PROVE Sole' /\ Identity'
  BY <1>4 DEF readPrivateKeyFromFile, Read, Goto
<1>5. ASSUME NEW t \in Threads, readCertificateFromFile(t) PROVE Sole' /\ Identity'
  BY <1>5 DEF readCertificateFromFile, Read, Goto
<1>6. ASSUME NEW t \in Threads, Generate(t) PROVE Sole' /\ Identity'
  BY <1>6 DEF Generate, NewPair, Goto
<1>7. ASSUME NEW t \in Threads, OpenKey(t) PROVE Sole' /\ Identity'
  BY <1>7 DEF OpenKey, Put, Goto
<1>8. ASSUME NEW t \in Threads, FillKey(t) PROVE Sole' /\ Identity'
  BY <1>8 DEF FillKey, Put, Goto
<1>9. ASSUME NEW t \in Threads, OpenCert(t) PROVE Sole' /\ Identity'
  BY <1>9 DEF OpenCert, Put, Goto
<1>10. ASSUME NEW t \in Threads, FillCert(t) PROVE Sole' /\ Identity'
  BY <1>10 DEF FillCert, Put, Goto
<1>11. ASSUME NEW t \in Threads, Publish(t) PROVE Sole' /\ Identity'
  BY <1>11 DEF Publish, Goto
<1>12. ASSUME NEW t \in Threads, Return(t) PROVE Sole' /\ Identity'
  BY <1>12 DEF Return, Goto
<1>13. ASSUME NEW t \in Threads, Throw(t) PROVE Sole' /\ Identity'
  BY <1>13 DEF Throw, Fault
<1>14. CASE UNCHANGED vars
  BY <1>14 DEF vars
<1>15. QED
  BY <1>1, <1>2, <1>3, <1>4, <1>5, <1>6, <1>7, <1>8, <1>9, <1>10, <1>11, <1>12, <1>13, <1>14
     DEF Next, Step

(* The stored pair.                                                        *)
LEMMA StoredStep ==
  ASSUME TypeInv, ~raced => Sole /\ Identity /\ Stored, [Next]_vars, ~raced'
  PROVE  Stored'
<1> USE ManagerAssumption
    DEF ghosts, TypeInv, TypeOK, Places, Pair, Key, Locations, None, Torn, Null, Constructing,
        Writing, Unsaved, Sole, Identity, Stored
<1>1. CASE Crash
  BY <1>1 DEF Crash, Fault
<1>2. ASSUME NEW t \in Threads, Call(t) PROVE Stored'
  BY <1>2 DEF Call, Goto
<1>3. ASSUME NEW t \in Threads, Get(t) PROVE Stored'
  BY <1>3 DEF Get, Goto
<1>4. ASSUME NEW t \in Threads, readPrivateKeyFromFile(t) PROVE Stored'
  BY <1>4 DEF readPrivateKeyFromFile, Read, Goto
<1>5. ASSUME NEW t \in Threads, readCertificateFromFile(t) PROVE Stored'
  BY <1>5 DEF readCertificateFromFile, Read, Goto
<1>6. ASSUME NEW t \in Threads, Generate(t) PROVE Stored'
  BY <1>6 DEF Generate, NewPair, Goto
<1>7. ASSUME NEW t \in Threads, OpenKey(t) PROVE Stored'
  BY <1>7 DEF OpenKey, Put, Goto
<1>8. ASSUME NEW t \in Threads, FillKey(t) PROVE Stored'
  BY <1>8 DEF FillKey, Put, Goto
<1>9. ASSUME NEW t \in Threads, OpenCert(t) PROVE Stored'
  BY <1>9 DEF OpenCert, Put, Goto
<1>10. ASSUME NEW t \in Threads, FillCert(t) PROVE Stored'
  BY <1>10 DEF FillCert, Put, Goto
<1>11. ASSUME NEW t \in Threads, Publish(t) PROVE Stored'
  BY <1>11 DEF Publish, Goto
<1>12. ASSUME NEW t \in Threads, Return(t) PROVE Stored'
  BY <1>12 DEF Return, Goto
<1>13. ASSUME NEW t \in Threads, Throw(t) PROVE Stored'
  BY <1>13 DEF Throw, Fault
<1>14. CASE UNCHANGED vars
  BY <1>14 DEF vars
<1>15. QED
  BY <1>1, <1>2, <1>3, <1>4, <1>5, <1>6, <1>7, <1>8, <1>9, <1>10, <1>11, <1>12, <1>13, <1>14
     DEF Next, Step

(* Both files are written, or neither.                                     *)
LEMMA WholeStep ==
  ASSUME TypeInv, ~raced => Sole /\ Identity /\ Stored, ~raced /\ ~cut => Whole,
         [Next]_vars, ~raced', ~cut'
  PROVE  Whole'
<1> USE ManagerAssumption
    DEF ghosts, TypeInv, TypeOK, Places, Pair, Key, Locations, None, Torn, Null, Constructing,
        Writing, Unsaved, Sole, Identity, Stored, Whole
<1>1. CASE Crash
  BY <1>1 DEF Crash, Fault
<1>2. ASSUME NEW t \in Threads, Call(t) PROVE Whole'
  BY <1>2 DEF Call, Goto
<1>3. ASSUME NEW t \in Threads, Get(t) PROVE Whole'
  BY <1>3 DEF Get, Goto
<1>4. ASSUME NEW t \in Threads, readPrivateKeyFromFile(t) PROVE Whole'
  BY <1>4 DEF readPrivateKeyFromFile, Read, Goto
<1>5. ASSUME NEW t \in Threads, readCertificateFromFile(t) PROVE Whole'
  BY <1>5 DEF readCertificateFromFile, Read, Goto
<1>6. ASSUME NEW t \in Threads, Generate(t) PROVE Whole'
  BY <1>6 DEF Generate, NewPair, Goto
<1>7. ASSUME NEW t \in Threads, OpenKey(t) PROVE Whole'
  BY <1>7 DEF OpenKey, Put, Goto
<1>8. ASSUME NEW t \in Threads, FillKey(t) PROVE Whole'
  BY <1>8 DEF FillKey, Put, Goto
<1>9. ASSUME NEW t \in Threads, OpenCert(t) PROVE Whole'
  BY <1>9 DEF OpenCert, Put, Goto
<1>10. ASSUME NEW t \in Threads, FillCert(t) PROVE Whole'
  BY <1>10 DEF FillCert, Put, Goto
<1>11. ASSUME NEW t \in Threads, Publish(t) PROVE Whole'
  BY <1>11 DEF Publish, Goto
<1>12. ASSUME NEW t \in Threads, Return(t) PROVE Whole'
  BY <1>12 DEF Return, Goto
<1>13. ASSUME NEW t \in Threads, Throw(t) PROVE Whole'
  BY <1>13 DEF Throw, Fault
<1>14. CASE UNCHANGED vars
  BY <1>14 DEF vars
<1>15. QED
  BY <1>1, <1>2, <1>3, <1>4, <1>5, <1>6, <1>7, <1>8, <1>9, <1>10, <1>11, <1>12, <1>13, <1>14
     DEF Next, Step

(* IInv is inductive: raced and cut, once true, stay so.                   *)
LEMMA Invariance == Spec => []IInv
<1>1. Init => IInv
  <2> SUFFICES ASSUME Init PROVE IInv
    OBVIOUS
  <2> USE DEF Init, None, Torn, Null
  <2>1. /\ instance \in Pair(Key, Key \cup {None}) \cup {Null}
        /\ file \in Pair(Key \cup {None, Torn}, Key \cup {None, Torn})
    BY DEF Pair
  <2>2. object \in [Threads -> Pair(Key \cup {None}, Key \cup {None})]
    BY DEF Pair
  <2>3. pc \in [Threads -> Locations]
    BY DEF Locations
  <2>4. TypeInv
    <3>1. made \in Nat /\ faults \in 0 .. MaxFaults /\ handed \subseteq Key
      BY ManagerAssumption
    <3>2. Places
      BY DEF Places
    <3>3. QED
      BY <2>1, <2>2, <2>3, <3>1, <3>2 DEF TypeInv, TypeOK
  <2>5. Sole /\ Identity
    BY DEF Sole, Identity, Constructing, Unsaved
  <2>6. Stored /\ Whole
    BY DEF Stored, Whole
  <2>7. QED
    BY <2>4, <2>5, <2>6 DEF IInv
<1>2. IInv /\ [Next]_vars => IInv'
  <2> SUFFICES ASSUME IInv, [Next]_vars PROVE IInv'
    OBVIOUS
  <2>1. (raced => raced') /\ (cut => cut')
    BY DEF IInv, TypeInv, TypeOK, Next, Step, vars, ghosts, Crash, Call, Get, readPrivateKeyFromFile,
       readCertificateFromFile, Read, Generate, NewPair, OpenKey, FillKey, OpenCert,
       FillCert, Put, Publish, Return, Throw, Fault
  <2>2. QED
    BY <2>1, TypeStep, IdentityStep, StoredStep, WholeStep DEF IInv
<1>3. QED
  BY <1>1, <1>2, PTL DEF Spec

-----------------------------------------------------------------------------
(* The manager's state keeps its types, and no object without a key is     *)
(* ever published or handed out.                                           *)
THEOREM TypeCorrect == Spec => []TypeOK
<1>1. IInv => TypeOK
  BY DEF IInv, TypeInv
<1>2. QED
  BY <1>1, Invariance, PTL

(* No second key is ever shown, through any sequence of exceptions and     *)
(* ends of the process and any threads that construct at once, if they do  *)
(* so after the files were written.                                        *)
THEOREM SameIdentity == Spec => []OneIdentity
<1>1. IInv => OneIdentity
  BY DEF IInv, Identity, OneIdentity
<1>2. QED
  BY <1>1, Invariance, PTL

(* The object in use is what the next start of the process will read, a    *)
(* certificate short only if the files are.                                *)
THEOREM StoredInstance == Spec => []InstanceIsStored
<1>1. IInv => InstanceIsStored
  <2> SUFFICES ASSUME IInv, instance # Null, ~raced
               PROVE  instance = file /\ (instance.cert = instance.key \/ (cut /\ instance.cert = None))
    BY DEF InstanceIsStored
  <2>1. TypeInv /\ Sole /\ Stored /\ (~cut => Whole)
    BY DEF IInv
  <2>2. instance = file /\ instance.key \in Key /\ instance.cert \in {None, instance.key}
    BY <2>1 DEF TypeInv, TypeOK, Stored, Null, Pair, Key, None, Torn
  <2>3. \A t \in Threads : ~Writing(t)
    BY <2>1 DEF Sole, Unsaved, Writing, Constructing
  <2>4. QED
    BY <2>1, <2>2, <2>3 DEF Whole
<1>2. QED
  BY <1>1, Invariance, PTL
=============================================================================
