# G20Dispatcher: specification and verification

G20Dispatcher makes the buttons of a G20 remote that Android ignores useful: a
daemon reads the remote's input events, decodes presses and long presses, and
injects key events or launches activities; an accessibility service hides the
original events and starts, watches, restarts and stops the daemon over adb.
This directory specifies it in TLA+, checks the specifications with TLC and
proves theorems about them with TLAPS.

Paths below are relative to the repository's `src`; `g20dispatcher.c` is
`native/g20dispatcher.c`, and a bare line number in a section is of the file
that section names.

## 1. Inventory

| Component | Source | State | Operations | Modules |
|---|---|---|---|---|
| Button decoder | `g20dispatcher.c` 245-298, 367-368 | `press_keycode`, `press_usec` | one `input_event` through the loop body | `KeyDecoder`, `KeyPress`, `Buttons` |
| Event loop and discovery | `g20dispatcher.c` 36-143, 232-269 | `g20_open_device_path`, `ufds`, `nfds`, inotify's queue, the open file's buffer | watch, scan, poll, handle notices, open, close, read | `EventLoop` |
| Key dispatch table | `g20dispatcher.c` 300-365 | none | the switch | `Dispatch` |
| Launching | `g20dispatcher.c` 145-157 | child processes | `start_cmd`, `launch_activity` | `Sentinel`, `Dispatch` |
| Start-up, sentinel | `g20dispatcher.c` 159-246 | descriptors, session, the unlinked file | `daemonise`, open, unlink | `Sentinel`, `DeathSign` |
| Binder glue | `native/BinderGlue.cpp` | the `input` proxy | `connectInputService`, `injectInputEvent`, `binderDied`, `OnBinderReadReady` | `BinderGlue` |
| Kodi detection | `native/IsKodiTopmostApp.cpp` | the `activity_task` proxy | `IsKodiTopmostApp` and its parser | `BinderGlue` (connection), `KodiReply` (parser) |
| Accessibility service | `G20AccessibilityService.java` | `executor`, `fileObserverG20`, `isProbablyRunning` | connect, start, observe, filter keys, unbind | `G20Service`, `Dispatch` (filter) |
| ADB connection manager | `AdbConnectionManager.java` | singleton, key, certificate, their files | `getInstance`, constructor | `AdbConnectionManager` |
| Build files, vendored headers | `native/extra_ndk`, Gradle | - | - | not modelled: no logic of this program |

How they interact.  The daemon is one thread: its loop polls inotify, Binder's
descriptor and the remote, and every press it dispatches is a synchronous
Binder call or a spawned `cmd`.  Everything it follows changes behind its back:
the kernel queues inotify notices and input events, devices disconnect while
their nodes are still there, nodes are reused, Android's services die.  The
accessibility service knows the daemon only through a file the daemon holds
open and through adb commands whose effect it does not wait for, and it works
on three threads (main, executor, file observer) and one more that stops the
daemon, without a lock.

What is hard in it, and what makes each part correct:

* decoder: every release acted upon once, in order, in the right mode, whatever
  the clock reads; back in step after lost events; no push ever acts;
* loop: no remote missed between scan and watch, no descriptor leaked, no slot
  that stays on a device that is gone, the latest remote served, no press
  carried from one remote to another;
* dispatch: a button does what the documentation says, an application sees a
  press once, and Kodi is recognised in a reply the daemon only half understands;
* start-up: the daemon is rid of its shell, and the closing of its sentinel
  means its death;
* Binder glue: every injected key down is followed by its key up; a proxy that
  is used is alive or its obituary is on the way;
* service: at most one daemon, one daemon while the service is connected, none
  after it is unbound; a daemon that dies is restarted;
* connection manager: one identity for adbd, through crashes.

`PROJECT.json` lists the hazards line by line, with the properties about each.

## 2. Modules

```
KeyDecoder                  the loop body on one event, as operators
  KeyPress                  evdev buffer + buttons + clock + decoder
    Buttons                 what KeyPress promises (implemented by it)
    MCKeyPress              its TLC instances
    KeyPressProofs          theorems: only releases act, back in step, Buttons kept
  EventLoop                 main's loop, inotify, scan, slot + decoder
    MCEventLoop             its TLC instances
    EventLoopProofs         theorems: types, descriptors, the slot
      DiscoveryProofs       theorems: which remote is served, when a push acts
KodiReply                   the parser of activity_task's reply
  Dispatch                  the switch, the service's key filter + KodiReply
    MCDispatch              its TLC instance
    DispatchProofs          theorems: Kodi recognised, what a button does
Sentinel                    daemonise, the sentinel, spawned children
  DeathSign                 what the sentinel promises (implemented by it)
  SentinelProofs            theorems, the refinement's steps among them
BinderGlue                  the two Binder proxies, obituaries, injection
  MCBinderGlue              its TLC instance
  BinderGlueProofs          theorems about it
G20Service                  the service's threads, adb's shells, the daemon
  G20ServiceProofs          theorems about it
AdbConnectionManager        singleton, key, certificate and their files
  AdbConnectionManagerProofs
```

A definition whose comment says "mutant" is a plausible slip in the code it
stands beside; no specification uses it.  `PROJECT.json` lists for each property
the slip that breaks it.

### KeyDecoder

Operators on the record `[keycode, usec]` that stands for the two locals:
`OnMsc` is lines 271-282, `OnKey` lines 281-295 and 367-368, `Dispatches` says
when line 301 is reached and `Dispatched` with which key and mode, `Decode` is
the whole.  Time stamps are residues modulo `Modulus`: on the 32-bit build
`sec * 1000000L + usec` wraps on every event (signed overflow, undefined in C;
wrapping is what the build does), and the comparison at line 298 is of the
signed reading of the difference (`Signed`).

### KeyPress and Buttons

`KeyDown`, `KeyUp`, `KeyRoll` are the remote's reports; `Emit` is the kernel's
`__pass_event` for the events of a report: the first one for which there is no
room (`Fits`) replaces what is in the buffer by SYN_DROPPED, and it and those
behind it (`Newest`) are stored; `Tick` and `ClockSet` are the wall clock;
`ReadEvent` is one turn of the loop with an event to read.  What can go wrong with
the stream is a set of `Hazards`: the descriptor is opened late (while buttons are
down), the buffer overflows, the clock is set, two buttons are held at once (a
chord).  A behaviour has one of the sets in `Streams`, chosen at its start, so
that one run looks at several kinds of stream.  Key events also carry which button
and how long it was held, which the decoder does not look at and the properties
compare with.  `Buttons` is the promise: pushes, releases, and one `Act` for every
release, in order; `KeyPress` implements it (`Promise == INSTANCE Buttons WITH
owed <- Owed`) with `owed` mapped to the releases in the buffer.

Three assumptions on the constants.  The buffer has room for SYN_DROPPED and the
five events of the longest report (`BufSize` above 6; evdev's rings have 64 slots or
more).  A remote has finitely many buttons.  No button is held for half the range
of the clock (`HoldAssumption`), since the signed reading of line 298 would take
that for a negative time: the one thing the decoder cannot tell, at 36 minutes.

### EventLoop

`pc` walks through main: `AddWatch` (239), `OpenDir`, `ScanNode`, `ScanEnd`
(114-143), then per turn `Poll` (249), `ReadNotify` (86-88), `HandleNotice`
(94-111, one event each), `HandleBinder` (254-255), `CheckSlot` (257-264),
`ReadEvent` or `ReadFails` (266-369).  `open_g20_device` and `close_g20_device`
have the source's names.  A step is a stretch of code during which nothing the
outside does could be seen; between steps the outside acts: `Plug`, `Push`,
`Release`, `Leave` (the input core releases held keys, opening fails), `HangUp`
(readers get ENODEV, poll POLLHUP), `RemoveNode` (ueventd, with its inotify
notice), `BinderCommand`.  `revents` keeps its old value for entries `poll` was
not given, as in C: this is what two of the findings are about.  A device
connects once; a remote that comes back is another device.  `FdsAssumption` says
that a second descriptor can be had: the process does not run out of them.

`latest` (the remote that connected last), `overlap` (two remotes were connected
at once) and `carried` (the tracked press began on a descriptor closed since)
are auxiliary: no step depends on them.

### KodiReply and Dispatch

A parcel is a sequence of 32-bit words.  `Written` is what `activity_task` writes,
external and modelled from what `IsKodiTopmostApp.cpp` reads; `Word`, `Past`,
`PastString8` are Parcel's reads, which give 0 and do not move beyond the end.
`Header`, `Scan` (one turn of the search for the end of the Intent, lines 126-132)
and `Name` (133-144) are the function's stretches, `NoReply` its early return.
The second word of a pair is read only after a -2 and consumed whatever it is;
`KodiRecognised` says exactly what follows from that: without the pair inside the
Intent (`HasPair`) Kodi is never seen where it is not, and it is seen where it is
unless the Intent ends in an odd number of -2 (`OddEnd`).  `ReplyAssumption` says
what a string is in a parcel (`IsString`: its length, then the words it takes,
none if the length is negative) and that no word of a package's name is -2: its
characters would be 0xFFFE and 0xFFFF, which no name has.  Anything else may be in
an Intent.  `Name` reads as readString16 does: a string that would go beyond the
end is not read.

`Cases` and `KodiCases` are the switch by button and mode, `IfDefined` the macros
of `private.h`; `Switch` enters a case, `Answered` ends one that asked.  The
service's side is `blockedScanCodes` and `onKeyEvent`.  `Table` is the README's
table of key mappings (lines 84-94), row by row.  The filter also hides three buttons for
which the switch has no case (scan codes 401, 230, 229): they do nothing at all,
which no document denies.

### Sentinel and DeathSign

Processes with their places in `daemonise`, `main` and `start_cmd`, their
descriptors and sessions.  `CloseInherited` to `OpenNull` are `daemonise`
(159-213), `OpenSentinel`, `Unlink`, `Setup` are `main` up to the loop, `Spawn`
and `Exec` are `posix_spawn` (the child shares the parent's life until exec, which
closes what has O_CLOEXEC: Binder's descriptor, and not the sentinel).  `Open`
gives the lowest free number, so the order of the calls decides what is where.
`Fails` ends a process at any call, `KillAll` is the service's `killall` (a
spawned child has another name once it is `cmd`), `HangUp` takes the shell's session.
The kernel tells the observer when the last holder is gone (`Become`).

`DeathSign` is what the service is built on: a daemon comes up, dies ("lost" while
its sign is owed) and the sign is given, never before and always in the end.
`Sentinel` implements it (`SignsDeath`), with "lost" where a child of a dead
daemon still holds the file.  `G20Service` has these states and steps for each of
its daemons (`DaemonOpens`, `EndDaemons`, `ChildrenEnd`), which is what the
refinement allows it to assume.

### BinderGlue

The daemon as its Binder code sees it.  A turn is `Poll`, `OnBinderReadReady`
(`BinderGlue.cpp` 83-93: one obituary per turn, since a read of the driver ends
with it), `Dispatch` (the event is nothing for Binder, a key to inject, or a key
that asks about Kodi first), then for each service that has no proxy `GetService`
(114-126) and `LinkToDeath` (128), and the calls `GetTasks`, `InjectDown` (154),
`InjectUp` (162).  Each call to another process is a step, so services die between
any two.  External are Android's part: `Start`, `Die`, `Register`, `Unregister`
(the service manager may hand out a life that died until it reads its own
obituary), and `Kill` (`killall`, at any step).  Obituaries queue in order
(`obits`) and are read by the loop only, never inside a call: the driver queues
them to the process and the waiting thread does not take them.  (Old kernels let
it; then the pointer could be cleared between the two injections, where it is
not tested again.)  `linked` is the driver's list of deaths to tell.

### G20Service

Four threads of the service's process, each with its place in the code: `main`
(`onServiceConnected`, then `onUnbind` as `onUnbind`, `UnbindForget`,
`UnbindActive`, `UnbindDecide`, `UnbindAwait`, `UnbindNull`, `UnbindKill`),
`worker` (the task of `startG20Dispatcher` on the executor's one thread:
`TakeTask`, `AwaitAdb`, `Connect`, `Write`, `Wait`, `Look`, `Found`,
`TestObserver`, `LoadObserver`, `StartWatching`), `observer` (`OnEvent`,
`StopWatching`, `Wake`, `Restart`) and `killer` (`Killer`).  A step reads or
writes a field the threads share once, so that what another thread does comes
between any two.  `onUnbind` removes the watch (185) before it forgets the
observer (186); the task tests `fileObserverG20` (168), reads it again (169: null
there is an exception nobody catches) and then calls `startWatching` on what it
read, whatever the field has become; `shutdownNow` (200) is interrupting the task
before `executor` is null (201).

Outside, a shell goes through its line (`ShellKill`, `ShellDir`, `ShellExec`; it
loses the rest with `HangUp`), a daemon is started and later has its sentinel open
(`DaemonOpens`), and dies (`DaemonDies`), with or without a child that keeps the
sentinel for a while (`ChildrenEnd`).  External, from how the code uses it: the
closing of a sentinel is one CLOSE_WRITE event for a watch that exists, an event
already queued is delivered after `stopWatching`, FileObserver catches what
`onEvent` throws, and an exception on the executor's thread ends the process
(`crashed`).  One connection of the service is modelled, from a state in which an
earlier one may have left a daemon and the directory.

The code waits for the shell by delays of a second or more.  `Prompt` is the
assumption that they suffice: a delay ends only when shells have come to the end
of their line, daemons have opened their sentinel and children of a dead one are
done.  Without it nothing holds the parts together (the watch may exist before
`killall` is run, the old daemon's end is then taken for the new one's, and the
service restarts again and again), so it is TRUE in the run and the hypothesis of
the theorems.  The comment at lines 149-151 says the directory is waited for to
let adb finish; it outlives every start, so in effect the second is.

`failed` (a start failed or was given up), `blind` (a daemon died that was not
watched) and `late` (a start was under way when `onUnbind` left everything as it
is, or when `killall` ran) are auxiliary: the properties name by them what the code
leaves to luck.  The repository's README says as much (lines 68-72): termination
is attempted "only if it can assume it's been started", and "there may be times
termination simply isn't detected".  What the model adds is where the luck begins
and ends.  A daemon that dies within the second before it is watched is not
replaced (`StaysUp`: the only way to be left without one).  And `UnbindStops`: an
unbound service leaves no daemon and starts none any more, whatever its threads
were at (a restart that is slept over, a task that waits for adb or for its shell),
with two exceptions.  Either a start is queued, or about to be, when
`getActiveCount` is asked (line 189): it is not seen, and its daemon comes up later.
Or the shell was
sent its line and `killall` is quicker: the executor is shut down, so the task
returns at line 153 without its delay, `awaitTermination` returns with it, and
nothing waits for the shell any more.

### AdbConnectionManager

`getInstance` and the constructor, one step per access of a field or a file:
`Get`, the two reads (143-154, 121-128), `Generate`, then `OpenKey`, `FillKey`,
`OpenCert`, `FillCert` (`newOutputStream` truncates before anything is written),
`Publish`, `Return`, which reads `INSTANCE` again.  Key pairs are numbers and a
certificate is the pair it was made of; a file that was cut short (`Torn`) cannot
be decoded.  `Throw` leaves the constructor at any step, `Crash` ends the process;
files stay.  `raced` (a thread came to the constructor while another was in it and
the files were not written) and `cut` (the files were begun and not both written)
are auxiliary.  Unless raced the manager keeps one identity, and the object in use
is what is stored, cut or not: a key without a certificate is used as it is and
never completed, since only the key is tested.  With `raced` (the stopping thread
runs while the executor's constructs for the first time) the files can hold a key
of one pair and a certificate of another.  Raced, cut or neither, what keeps
`getInstance` from succeeding is one thing: a torn file, which makes it throw for
ever.

## 3. Runs

| Run | Checks | Shows |
|---|---|---|
| `press_exact` | `ActsAsPromised` | the decoder implements `Buttons`, safety and liveness, across every wrap of the clock and for a press stamped 0 |
| `press_hazards` | `TypeOK`, `InStepIsExact`, `OnlyReleasesAct` | one whole release brings the decoder back in step after a late open or lost events; two of three buttons down, a clock that is set, a late open: no push acts, no button acts for another |
| `loop_slot` | `DescriptorOwned`, `TracksNode`, `LatestWins`, `RemoteFound` | no leak, no stale slot, the latest wins, no remote missed |
| `loop_live` | `TypeOK`, `PushActsOnlyAfterSwap`, `DisconnectNoticed`, `RemoteServed`, `LatestServedUnlessStuck` | a push acts only when a descriptor was swapped under a tracked press; liveness of discovery |
| `binder` | `TypeOK`, `ProxyAliveOrObituary`, `ObituaryIsCurrent`, `KeyHeldOnlyInCall`, `RecoversFromRestart` | no dead proxy kept unknowingly, the right one cleared, no living service left with a key held, no null pointer used; presses arrive again after restarts of either service |
| `service` | `TypeOK`, `OneDaemon`, `RunningIsKnown`, `UnbindStops`, `RestartOnlyAfterDeath`, `StaysUp` | one daemon, restarted only after a death, known to run, none after an unbind but for two kinds of start it misses, and watched in the end |
| `adb` | `TypeOK`, `OneIdentity`, `InstanceIsStored`, `EventuallyConnected` | unless two threads construct before the files are written, no second key is shown to adbd and the object in use is the stored pair, after interrupted writes too; `getInstance` succeeds in the end unless a torn file stays |
| `sentinel` | `TypeOK`, `Detached`, `SignsDeath` | a daemon is rid of its shell before its sentinel exists; the sentinel's closing implements `DeathSign` |
| `dispatch` | `TypeOK`, `KodiRecognised`, `DoesAsDocumented`, `SeenOnce`, `Decides` | Kodi is recognised up to a stated exception; every button does what the table says and is seen once; every press is decided, and the parcel is never read past its end |
| `loop_swap` | `OnlyReleasesAct` violated | finding 1 |
| `loop_latest` | `LatestServed` violated | finding 2 |
| `sentinel_holders` | `OneHolder` violated | finding 3 |

Bounds, decoder and loop.  `Modulus` 8 and `Threshold` 2 leave room for holds
below, at and above the threshold on either side of every wrap, up to `MaxHold` 3,
one short of half the range, beyond which the signed reading is negative (a hold
of 36 minutes on the device).  `press_hazards` has three buttons and two kinds of
stream, late open with overflow and late open with a set clock and chords; it
makes do with `Modulus` 5 and `MaxHold` 2: holds below and at the
threshold.  `BufSize` 7 or 8 holds two packets, so that a release waits behind
another and an overflow can hit any place of a packet.  Two nodes and two or
three remotes make every case of discovery happen: reuse of a node, two remotes
at once, a removal and an arrival in one batch; `BatchSize` 2 makes bursts of
three notices that one read does not take.  The real values (4 GiB of stamps,
a batch of 16 notices, an evdev ring of 64 events) add length, no new case.
In the loop's runs `BufBound` 3 is one packet per open file: the remote
waits while it is full, which `press_hazards` replaces by the real overflow.
Symmetry is used in runs without liveness.  In `loop_slot` there are no buttons,
which the slot does not depend on.

Bounds, the rest.  In `binder` three lives of each service are two deaths and
returns, enough for an obituary of one life to be late for the connection to the
next and for obituaries of both services to queue.  In `service` two shells and
two daemons let a second start overlap what is left of the first (a third never
begins before one of them is at its end), and three deaths let the daemon die
before it is watched, while it is, and during an unbind.  In `adb` two threads are
the two there are (the executor's and the stopping one), and three faults can
cut a constructor twice and end the process.  In `sentinel` seven processes are
the three of `daemonise` and four children, and descriptor numbers up to 5 are
the six a daemon has; the shell may have left any of them open.  In `dispatch` a
package name of four characters in three words has the shape of the real one
(13 in 7), and Intents of up to three words over -2, -1, 0 and 4 hold every
alignment of the pair the search looks for, odd and even runs of -2 before the end
and Kodi's own name in the Intent.

Deadlock checking is off where the system may rest: once every device has come
and gone the daemon waits in `poll` (`loop_live`, `loop_swap`, `loop_latest`), a
killed daemon does nothing more (`binder`, `sentinel`, `sentinel_holders`), an
unbound service, and a daemon that runs, are at rest (`service`), and a press is
dealt with (`dispatch`).

Fairness.  The daemon's steps are weakly fair: Android schedules it, and a
`poll` or `read` that cannot return disables them.  `HangUp` and `RemoveNode`
are weakly fair: the kernel completes a disconnection and ueventd removes the
node.  In `BinderGlue` the daemon's steps are, and `poll` returns when a command
waits; nothing of Android is.  In `G20Service` the service's threads, the
shells, a starting daemon and the children of a dead one are; adbd need not start,
nothing has to die, and no one has to unbind the service.  In `Sentinel` only the
spawned children and the parents that only exit come to an end: `cmd` asks the
activity manager and leaves.  In `AdbConnectionManager` a thread in `getInstance`
goes on, and nobody has to call it.  Nobody has to push, connect or disconnect
anything.  In `KeyPress` only `ReadEvent` is fair, in `Dispatch` the daemon.

## 4. Findings

1. `loop_swap`.  The reset at lines 257-261 of `g20dispatcher.c` needs a turn that
   sees `nfds < 3`.  When the remote is replaced inside one batch of notices the
   press carries over, and the next push of that button is dispatched as a release.
2. `loop_latest`.  `revents` at line 263 may be that of a closed descriptor.
   The read at line 268 then blocks on the new one, and a remote that connects
   later is not opened until the earlier one sends something or leaves.
3. `sentinel_holders`.  The repository's README (line 28) rests on "only one open
   process should hold an open file descriptor to the file".  The sentinel (line 222)
   has no O_CLOEXEC, so every `cmd` the daemon spawns holds it too while it runs.
   `OneHolder` leaves the child before its exec out of the count, which has every
   descriptor of its parent anyhow: with O_CLOEXEC at line 222 it would hold.  The
   sign is not lost, only late (`SignsDeath`).

Observed, without a statement of the repository to check against:

* a release whose push was not read (the descriptor was opened while the button
  was down) is timed against 0 at line 297, so a short press can come out as long:
  this is why `InStepIsExact` begins with the first whole release;
* when the latest remote disconnects, an earlier one that is still connected is
  not reopened (`RemoteFound` and `RemoteServed` exclude it by `overlap`);
* `onUnbind` removes the watch (line 185 of `G20AccessibilityService.java`) before
  it clears `fileObserverG20` (186), and the task may have read that field before
  and call `startWatching` after: a watch is then left on an unbound service.  Its
  event finds no observer and starts nothing (`UnbindStops`);
* an unbind during a start: the two exceptions of `UnbindStops` (see `G20Service`);
* children of `posix_spawn` are never waited for and stay as zombies as long as
  the daemon runs.

## 5. Proofs

All theorems hold for every value of the constants that satisfies the modules'
named assumptions; bounds that remain in the guards (`MaxDeaths`, `MaxFaults`,
`MaxProcs`, `Lives`, `BufBound`) are arbitrary numbers there.

`EventLoopProofs` (any nodes, devices, descriptors, batch size and clock):

* `TypeCorrect`: `Spec => []TypeOK`;
* `NoDescriptorLeak`: `Spec => []DescriptorOwned`;
* `NodeTracked`: `Spec => []TracksNode`.

The first two share the inductive invariant `IInv`, the conjunction of the two
properties: neither is inductive alone, since a read indexes the open files with
`fd` (types need the descriptor) and the descriptor's case split needs the types.
`CloseKeeps`, `OpenKeeps` and `DeliverKeeps` say what the three operators that
touch the open files preserve; `StepPreserves` has one step per action.
`NodeTracked` adds `Early` (the slot is empty until the watch exists, so no
removal goes unnoticed) and restates the property without concatenation
(`Tracked`); the lemmas `InAppend`, `InTail` and `InSplit` say that queueing,
handling and batching lose no other notice.

`DiscoveryProofs` extends them:

* `LatestRemoteWins`: `Spec => []LatestWins`;
* `RemoteIsFound`: `Spec => []RemoteFound`.
* `SwapOnly`: `Spec => PushActsOnlyAfterSwap`.

The first two go by the notices.  A notice says what was, not what is, and most
can do harm when they are handled: the removal of a node that is in use again
closes the slot, the arrival of an earlier remote replaces the latest.  The
argument is that each harmful notice has a newer one behind it that puts things
right (`Renewed` for removals, `Superseded` for arrivals), and this is about the
order of notices in the batch and the queue together (`pending`).  `Newest` and
`Found` then say that a remote is served, announced, or still to be scanned;
`Clean`, `Starting`, `Placed` and `Alone` are what they need of the descriptors,
the start and the nodes.

The third goes by the events.  One button of a device is down at a time, so pushes
and releases alternate in what is still to be read from the open remote
(`Alternate`, `Closing`).  A press that is being timed and was not carried over
from a closed descriptor is the push read last from that very stream, and takes
part in the alternation as its place 0; with no remote open, nothing is tracked
that was not carried (`Apart`).  So the theorem says that, short of an overflow of
the kernel's buffer (which `EventLoop` leaves out), finding 1 is the only way a
push comes to act.

`BinderGlueProofs` (any number of lives):

* `NoDeadProxyKept`: `Spec => []ProxyAliveOrObituary`;
* `RightProxyCleared`: `Spec => []ObituaryIsCurrent`;
* `NoKeyLeftHeld`: `Spec => []KeyHeldOnlyInCall`;
* `GlueTypes`: `Spec => []TypeOK`, with the pointer not null where it is used.

Their inductive invariant adds the book-keeping of the driver: deaths are asked
for only of the proxy in use (`LinkedIsCurrent`) and of every proxy once it is
linked (`ProxyLinked`); each is queued once, and only after it happened
(`ToldOnce`); proxies are of lives there have been (`Past`, `DownIsPast`), so that
a service that comes back is never the life a proxy belongs to.  `ToldAppend` and
`ToldTail` are about the queue of obituaries.

`SentinelProofs` (any number of processes and descriptor numbers):

* `TypeCorrect`: `Spec => []TypeOK`;
* `Detachment`: `Spec => []Detached`;
* `Implements`: initial states map to initial states of `DeathSign` and every
  step to a step or a stutter, under the invariant.

The invariant says what a process has open and whose session it is in, by where it
is (`Shape`, `Sessions`; `OpenLowest` turns the lowest free number into a known
one), that of the processes on the way to the loop there is one at a time
(`OneLine`), that before the sentinel nothing was spawned and no sign given
(`Before`), and that after the sign nobody holds the file (`Told`).  That the sign
comes in the end is liveness, and model-checked.

`G20ServiceProofs` (any number of shells, daemons and deaths), under `Prompt`:

* `TypeCorrect`: `Spec => []TypeOK`, so at most one event and one task wait;
* `NeverTwo`: `Spec => []OneDaemon`;
* `RestartsTheDead`: `Spec => RestartOnlyAfterDeath`;
* `KnownToRun`: `Spec => []RunningIsKnown`;
* `UnbindLeavesNone`: `Spec => []UnbindStops`.

What makes threads without a lock safe here is that there is one errand at a time
(`Errand`): a task that waits or runs, a sentinel that is watched, its closing
that is still to be handled, or a restart slept over; each ends by making the
next.  `Shelled` says that a shell runs only behind the task that started it,
`Single` that `killall` comes before exec, `Seen` that a watched sentinel is the
only one left and that a closing which is seen means no daemon is, `Known` that the
flag is right when no task is left, `Reached` that nothing runs without adbd (so
an unbind that does not find it has nothing to stop), and `Parting` that once the
service is unbound a start that has not begun (`Begun`) never does.  `Prompt`
enters in one place: when `Look` ends its sleep no shell is left, and what runs
has come up.

`AdbConnectionManagerProofs` (any threads, any number of faults):

* `TypeCorrect`: `Spec => []TypeOK`;
* `SameIdentity`: `Spec => []OneIdentity`;
* `StoredInstance`: `Spec => []InstanceIsStored`.

The invariant has three layers: types with what a constructor's object is at each
place (`Places`), always; one constructor until the files are written, every key
anywhere the file's, and a certificate that is absent, torn or of that key
(`Sole`, `Identity`, `Stored`), unless raced; files that are absent or a pair but
for the thread that writes them (`Whole`), unless raced or cut.

`KeyPressProofs` (any buttons, clock, threshold and size of the kernel's buffer):

* `OnlyReleases`: `Spec => OnlyReleasesAct`, with late opens, chords and a clock that
  is set (the property makes no claim where the buffer overflows);
* `TypeCorrect`: `Spec => []TypeOK`, overflows included;
* `InStep`: `Spec => InStepIsExact`, with late opens and overflows;
* `DecoderKeepsPromise`: where nothing goes wrong with the stream, the initial states
  map to initial states of `Buttons` and every step to a step or a stutter.

For the first, every key event directly follows its button's scan value
(`Announced`, `Tracking`), so the decoder never meets the key event of a button
it does not track.  Pushes and releases of a button alternate, from the push
being timed through the buffer to the button itself (`Alternate`, `Closing`), so
what ends the timing of a push is that button's release.

The third needs a chain that survives lost events (`Steady`).  SYN_DROPPED is only
ever first in the buffer (`DroppedFirst`), so behind it nothing is missing: a key
event is followed by the one that comes after it on a remote with one button down
(`Chained`: a push by the release of that button, stamped as much later as it was
held; a release by a push), the last one by what the buttons will cause next.  Scan
values and key events stay paired but for the oldest of what was kept (`Heralded`,
`Followed`).  A decoder that has read a whole release and met no SYN_DROPPED since
stands at the place of that chain where the buffer begins (`Leads`, `Pending`).

For the refinement what the buffer owes is a recursive function of how many of its
events are counted (`Debts`), and each lemma about it (an event put behind, one
taken from the front) is an induction over that number, by its least
counterexample.

`DispatchProofs` (any package names, any actions and Intents in a parcel):

* `KodiIsRecognised`: `Spec => []KodiRecognised`;
* `TypeCorrect`: `Spec => []TypeOK`, with the parser never past the parcel's end;
* `SeenJustOnce`: `Spec => []SeenOnce`;
* `AsDocumented`: `Spec => []DoesAsDocumented`.

Two facts about where the parser is make the first inductive.  Beyond the Intent
nothing in the reply looks like its end (`PairAtEnd`: the number and the name hold
no -2), so a search that finds a pair has found the Intent's end, or one inside it
(`HasPair`), and `Sound` says the name is read where it begins.  And a search that
may not miss the end stays in step with it (`Full`): it is never in front of an odd
run of -2 that reaches the end (`OddFrom`).  A step over another word, or over a -2
and the word behind it, leaves such a run odd or even as it was (`OddSkip`), so the
claim about Intents of any length needs no induction over them.  For the switch
(`Acted`), what was done is what the table of cases gives for the button, the mode
and the parser's answer (`Chosen`), once the parser is done; the rest is a
comparison of two tables, case by case.

Every invariant and action property of a passing run is stated by a theorem, and
so is the safety half of both refinements.  Only model-checked is liveness:
`Decides`, `DisconnectNoticed`, `RemoteServed`, `LatestServedUnlessStuck`,
`RecoversFromRestart`, `StaysUp`, `EventuallyConnected` and the fairness halves of
`ActsAsPromised` and `SignsDeath`; temporal reasoning with fairness and ENABLED is
out of the prover's reach here.  So are the library's induction theorems, which take
an operator; where a proof needs induction over numbers it picks the least
counterexample.

## 6. Not modelled, and why

* Cryptography (the key, the certificate, adb's protocol) and what `cmd`, Android
  and Kodi do with what they are sent: other programs.
* In `BinderGlue` a lookup is one step although getService retries for seconds,
  the contents of the key events are left out, and `SetupBinderOrCrash`, which
  exits on any failure, is the initial state.
* In `EventLoop`: nodes that are not `event*` (they fail EVIOCGNAME), errors of
  `inotify_init`, `opendir` and `poll`, a process out of descriptors, a node
  whose permissions come later than its creation, overflow of inotify's queue,
  several buttons at once (in `KeyPress`) and the time spent in the switch (Binder
  calls delay the next turn, which the interleaving with the outside covers).
* In `G20Service` adbd does not stop once it runs, loops of 60 tries end at any
  try, and the wait of 35 s after boot is no step.  Fields are read and written as
  under sequential consistency, although none is volatile.
* In `Sentinel` a second daemon that is started at the same time, and would find
  or unlink the other's file, is left out: `OneDaemon` and `killall` before exec
  exclude it.
* Build files and the vendored headers hold no logic of this program.

## 7. Plan

What is left, in this order:

1. `Daemon`: `EventLoop` composed with `BinderGlue` and `Dispatch`, so that a call
   that takes seconds and a burst of notices meet in one model.
2. `G20Service` over several connections, with Android binding the service again
   after a crash.
