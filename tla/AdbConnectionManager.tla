-------------------------- MODULE AdbConnectionManager --------------------------
(***************************************************************************)
(* The key and certificate the service shows adbd                          *)
(* (AdbConnectionManager.java): the singleton, its constructor and the two *)
(* files.  The executor's thread and the thread that stops the daemon call *)
(* getInstance, which takes no lock; the process may end at any step, and  *)
(* the files stay.                                                         *)
(*                                                                         *)
(* Key pairs are numbers, and a certificate is the pair it is made of.     *)
(***************************************************************************)
EXTENDS Integers

CONSTANTS
  Threads,     (* callers of getInstance                                   *)
  MaxFaults    (* bound: exceptions and ends of the process                *)
ASSUME ManagerAssumption == MaxFaults \in Nat

VARIABLES
  instance,    (* INSTANCE: Null, or an object's two fields                *)
  file,        (* private.key and cert.pem                                 *)
  pc,          (* where a thread is in getInstance and the constructor     *)
  object,      (* mPrivateKey and mCertificate of what it constructs       *)
  made,        (* key pairs generated so far                               *)
  faults,
  (* auxiliary *)
  handed,      (* the keys of the objects getInstance has returned         *)
  raced,       (* a thread came to the constructor while another was in it *)
               (* and the files were not written                           *)
  cut          (* the files were begun and not both written                *)

ghosts == <<handed, raced, cut>>
vars   == <<instance, file, pc, object, made, faults, ghosts>>

None == 0                          (* a null field, a file that is absent  *)
Torn == -1                         (* a file not written to the end        *)
Null == [key |-> None, cert |-> None]
Constructing(t) == pc[t] \notin {"idle", "get", "return"}
Writing(t)      == pc[t] \in {"fillKey", "openCert", "fillCert"}
Unsaved(t)      == Constructing(t) /\ (file.key \in {None, Torn} \/ Writing(t))

Goto(t, from, to) == pc[t] = from /\ pc' = [pc EXCEPT ![t] = to]

-----------------------------------------------------------------------------
Call(t) ==
  /\ Goto(t, "idle", "get")
  /\ UNCHANGED <<instance, file, object, made, faults, ghosts>>

(* getInstance: construct an object if there is none.                      *)
Get(t) ==
  /\ Goto(t, "get", IF instance = Null THEN "readKey" ELSE "return")
  /\ raced' = (raced \/ (instance = Null /\ \E u \in Threads : Unsaved(u)))
  /\ UNCHANGED <<instance, file, object, made, faults, handed, cut>>

(* A file that was not written to the end cannot be decoded.               *)
Read(t, from, f, to) ==
  /\ IF file[f] = Torn
     THEN Goto(t, from, "idle") /\ UNCHANGED object
     ELSE Goto(t, from, to) /\ object' = [object EXCEPT ![t][f] = file[f]]
  /\ UNCHANGED <<instance, file, made, faults, ghosts>>

readPrivateKeyFromFile(t) == Read(t, "readKey", "key", "readCert")

(* Whether there was a key is not asked (mutant).                          *)
readAndPublish(t) == Read(t, "readCert", "cert", "publish")
readCertificateFromFile(t) ==
  Read(t, "readCert", "cert", IF object[t].key = None THEN "generate" ELSE "publish")

NewPair(t, to) ==
  /\ Goto(t, "generate", to)
  /\ made' = made + 1
  /\ object' = [object EXCEPT ![t] = [key |-> made', cert |-> made']]
  /\ UNCHANGED <<instance, file, faults, ghosts>>

(* The files are not written (mutant).                                     *)
GenerateUnsaved(t) == NewPair(t, "publish")
Generate(t) == NewPair(t, "openKey")

(* newOutputStream truncates, the contents follow.                         *)
Put(t, from, f, value, to) ==
  /\ Goto(t, from, to)
  /\ file' = [file EXCEPT ![f] = value]
  /\ UNCHANGED <<instance, object, made, faults, ghosts>>

OpenKey(t) == Put(t, "openKey", "key", Torn, "fillKey")
(* The certificate is not written (mutant).                                *)
FillKeyOnly(t) == Put(t, "fillKey", "key", object[t].key, "publish")
FillKey(t)  == Put(t, "fillKey", "key", object[t].key, "openCert")
OpenCert(t) == Put(t, "openCert", "cert", Torn, "fillCert")
FillCert(t) == Put(t, "fillCert", "cert", object[t].cert, "publish")

(* INSTANCE is not assigned (mutant).                                      *)
ForgetObject(t) ==
  /\ Goto(t, "publish", "return")
  /\ UNCHANGED <<instance, file, object, made, faults, ghosts>>

Publish(t) ==
  /\ Goto(t, "publish", "return")
  /\ instance' = object[t]
  /\ UNCHANGED <<file, object, made, faults, ghosts>>

(* The field is read again: it may be the other thread's object.           *)
Return(t) ==
  /\ Goto(t, "return", "idle")
  /\ handed' = handed \cup {instance.key}
  /\ UNCHANGED <<instance, file, object, made, faults, raced, cut>>

(* Whatever the constructor does may throw; or the process ends, and is    *)
(* started again.                                                          *)
Fault(T) ==
  /\ faults < MaxFaults /\ faults' = faults + 1
  /\ pc' = [t \in Threads |-> IF t \in T THEN "idle" ELSE pc[t]]
  /\ cut' = (cut \/ \E t \in T : Writing(t))
  /\ UNCHANGED <<file, object, made, handed, raced>>

Throw(t) == Constructing(t) /\ pc[t] # "publish" /\ Fault({t}) /\ UNCHANGED instance
Crash    == Fault(Threads) /\ instance' = Null

-----------------------------------------------------------------------------
Init ==
  /\ instance = Null
  /\ file = Null
  /\ pc = [t \in Threads |-> "idle"]
  /\ object = [t \in Threads |-> Null]
  /\ made = 0 /\ faults = 0 /\ handed = {} /\ raced = FALSE /\ cut = FALSE

Step(t) ==
  \/ Get(t) \/ readPrivateKeyFromFile(t) \/ readCertificateFromFile(t)
  \/ Generate(t) \/ OpenKey(t) \/ FillKey(t) \/ OpenCert(t) \/ FillCert(t)
  \/ Publish(t) \/ Return(t)

Next == Crash \/ \E t \in Threads : Call(t) \/ Step(t) \/ Throw(t)

(* A thread in getInstance goes on; nobody has to call it.                 *)
Spec == Init /\ [][Next]_vars /\ \A t \in Threads : WF_vars(Step(t))

-----------------------------------------------------------------------------
Key == 1 .. made
Pair(K, C) == [key : K, cert : C]
Locations ==
  { "idle", "get", "readKey", "readCert", "generate", "openKey", "fillKey",
    "openCert", "fillCert", "publish", "return" }

(* The types of the manager's state; an object that is published or handed *)
(* out has a key.                                                          *)
TypeOK ==
  /\ instance \in Pair(Key, Key \cup {None}) \cup {Null}
  /\ file \in Pair(Key \cup {None, Torn}, Key \cup {None, Torn})
  /\ pc \in [Threads -> Locations]
  /\ object \in [Threads -> Pair(Key \cup {None}, Key \cup {None})]
  /\ made \in Nat /\ faults \in 0 .. MaxFaults
  /\ handed \subseteq Key /\ raced \in BOOLEAN /\ cut \in BOOLEAN

(* adbd asks the person for every new key: through exceptions and ends of  *)
(* the process at any step, half-written files included, and two threads   *)
(* that construct at once, the service never shows a second one, unless    *)
(* they did so before the files were written.                              *)
OneIdentity == ~raced => \A k, l \in handed : k = l

(* The object in use is the pair that is stored, so that the next start of *)
(* the process shows the same, and the certificate is of the key; only     *)
(* files that were not both written leave an object without one.           *)
InstanceIsStored ==
  instance # Null /\ ~raced =>
    instance = file /\ (instance.cert = instance.key \/ (cut /\ instance.cert = None))

(* Asked again and again, getInstance comes to have an object, whatever    *)
(* failed and however threads met, but for one thing: a file that was left *)
(* torn stays so, and it throws for ever.                                  *)
EventuallyConnected ==
  []<>(\E t \in Threads : pc[t] = "get") =>
    <>[](instance # Null) \/ <>[](Torn \in {file.key, file.cert})
=============================================================================
