# TLA+ models and proofs of msdk-linux

The repository holds libusb 1.0.9 with its backends for Linux, Darwin, OpenBSD
and Windows, its examples, and `msdk/`, a small library that drives a USB
keyboard/mouse emulator through it.  This directory
models the parts of both whose correctness depends on the order in which
things happen, checks them with TLC, and proves what matters most with TLAPS.

## 1. Inventory

| component | state | operations | talks to |
|---|---|---|---|
| event handling (`io.c`, `core.c`, `sync.c`) | `events_lock`, `event_handler_active`, `event_waiters_lock/cond`, `pollfd_modify`, `ctrl_pipe`, `pollfds` | `libusb_handle_events*`, `libusb_try_lock_events`, `libusb_wait_for_event`, the interrupting halves of `libusb_open` and `libusb_close` | all threads, through locks, the pipe and the condition variable |
| asynchronous transfers (`io.c`) | `flying_transfers`, each transfer's `timeout`, `flags`, lock, the timerfd | `libusb_submit_transfer`, `libusb_cancel_transfer`, `usbi_handle_transfer_completion`, `handle_timeouts`, `handle_timerfd_trigger`, `usbi_handle_disconnect` | backend (submit, cancel, reap), callbacks of the program |
| URBs (`linux_usbfs.c`) | `urbs`, `num_urbs`, `num_retired`, `reap_action`, `reap_status` of a transfer | `submit_*_transfer`, `discard_urbs`, `handle_*_completion`, `op_clear_transfer_priv` | kernel (usbfs ioctls), `io.c` |
| synchronous transfers (`sync.c`) | `completed`, the transfer on the heap | `libusb_control_transfer`, `do_sync_bulk_transfer` | the two above |
| contexts, devices, handles (`core.c`) | default context and its count, `usb_devs`, reference counts, `open_devs` | `libusb_init/exit`, `libusb_get_device_list`, `libusb_ref/unref_device`, `libusb_open/close` | enumeration in the backend |
| interfaces and drivers (`core.c`, `linux_usbfs.c`) | `claimed_interfaces`, kernel driver bound or not | `libusb_claim/release_interface`, `libusb_reset_device`, `libusb_detach/attach_kernel_driver` | kernel |
| descriptors (`descriptor.c`) | none | `usbi_parse_descriptor`, `parse_*` | raw bytes of the backend |
| keyboard and mouse reports (`msdk.c`) | `CurrKbOp[9]`, `CurrMouseAbsPosX/Y`, `Mouse1stMovto` | `M_KeyDown/Up/Press/State`, `M_MoveR/To/To3`, buttons, wheel | `HidComm` |
| command exchange (`hidcomm.c`) | block number, sequence bit | `HID_Open/Close`, `HID_Ctrl_Comm` | `libusb_control_transfer` |
| Windows: threads, poll and backend (`threads_windows.c`, `poll_windows.c`, `windows_usb.c`) | entries of the condition variable, `poll_fd[]`, requests to the clock thread, `autoclaim_count`, devices by session id | `usbi_cond_*`, `usbi_pipe/read/write`, `windows_clock_gettime`, `windows_get_device_list`, `winusb_submit_*` | Windows, `io.c`, `core.c` |
| Darwin backend (`darwin_usb.c`) | `initCount`, `open_count`, sources in the run loop, messages in each handle's pipe | `darwin_init/exit/open/close`, claims, transfers, callbacks | IOKit through a thread of its own, `io.c` |
| OpenBSD backend (`openbsd_usb.c`) | `fd` of the device, `endpoints[]` and pipe of a handle | `obsd_*` | device nodes, `io.c` |
| examples (`dpfp.c`, `dpfp_threaded.c`) | `state`, `do_exit`, two transfers | callbacks, `main()` | the library, a fingerprint scanner |
| POSIX threads layer | none | wrappers of pthreads | |

Hard behaviours: several threads in the library at once, one of which handles
events for all; poll sets that change under a poll in progress; timeouts that
race completions and cancellations; transfers made of several URBs that fail
half way; disconnection at any point; and, in msdk, state that is updated
before a send that may fail.  `PROJECT.json` lists them one by one, each at its
line.

What makes each component correct:

* event handling: no lost wakeup, no sleeper without a handler, no descriptor
  closed under a poll, `libusb_open/close` come through;
* transfers: exactly one callback for each accepted submission and none for a
  refused one, timeouts neither early nor forgotten, the list sorted;
* URBs: a transfer completes once, after its last URB, with the data and
  status of the URBs;
* synchronous transfers: the transfer is freed once and never in flight;
* devices: no use after the last reference, handles and claims balanced;
* interfaces: what libusb takes for claimed is what the kernel has bound;
* descriptors: each is found where it belongs, nothing leaks, and the active
  configuration reported was active;
* Windows: a broadcast reaches every waiter, no request for the time and no
  signal on a pipe is forgotten, each transfer in flight is polled under its own
  descriptor, and the list of devices is that of the bus;
* Darwin, OpenBSD: every transfer is answered once, every descriptor used is
  open and of the right file;
* the scanner examples: what the state machine waits for will come;
* msdk: the report always shows the keys that are down, the recorded position is
  the pointer's but for the error of one absolute move.

## 2. Plan

| step | modules | state |
|---|---|---|
| 1 | `EventHandling` and its proofs | done |
| 2 | `Transfers`, refining the abstract `TransferLifecycle`, and the proofs of both | done |
| 3 | `Keyboard` (refining `KeySet`), `Mouse`, `HidComm`, composed by `Msdk` | done |
| 4 | `LinuxUrbs`: a transfer of several URBs and the synchronous calls, refining `TransferLifecycle` | done |
| 5 | `Devices`, `Interfaces`, `ActiveConfig`, `Descriptors`, `Deadlines`: the rest of the library's state | modelled, checked and proved |
| 6 | `WindowsThreads`, `WindowsClock`, `WindowsPipe`, `WindowsTransfers`, `WindowsDevices`, `DarwinTransfers`, `OpenBsd`, `Dpfp`: what the other backends and the examples do by themselves | modelled, checked and proved |

There are theorems about all modules of steps 1 to 6.  No module that is proved about
uses `RECURSIVE`.

## 3. How the modules correspond to the code

In all modules a step is one access to state that somebody else can see: a
critical section is one step when it holds its lock for one access, a lock held
longer is a variable that names its owner, and a value that is read unlocked is
read in a step of its own.  Labels of `pc` are points between two such
accesses.  `PROJECT.json` gives the lines each definition translates.

**`EventHandling`** is one context.  Each thread owns at most one handle and
calls `libusb_open`, `libusb_close`, a synchronous transfer, or
`libusb_handle_events`, in any order.  `Modify` is the part open and close have
in common (count in `pollfd_modify`, write to the control pipe, take the events
lock, read the byte back), `DoClose` the rest of close, `Handle` the thread that
polls and reaps, `Wait` the thread that sleeps on `event_waiters_cond`.
`handlerActive` is a variable beside the lock because
`libusb_event_handler_active()` reads it without the lock it is written under.
The kernel (`UrbDone`, `Unplug`), the timeouts and signals are the environment.
`crashed` is where `op_handle_events()` uses the list head as a handle.
Left out: transfers' own data (in `Transfers`), `libusb_handle_events_locked`,
pollfd notifiers, `poll()` failing for other reasons than a signal.

**`Transfers`** is the list of flying transfers, with timerfd.  One thread
handles events (what `EventHandling` guarantees), the others submit, cancel, and
run a pass over the timeouts when their wait ends.  `Submission`, `Cancel`,
`Pass` and `Events` are the functions of `io.c` and the part of
`linux_usbfs.c` that a transfer of one URB runs.  The clock counts abstract
units; `deadline` and `asked` are what the program asked for, kept beside what
the library recorded (`timeout`, `timedOut`) so that the two can be compared.
`target`, `seen`, `cursor`, `systime` are what a thread read earlier and uses
later.  Transfers are submitted and freed as the documentation demands.

**`TransferLifecycle`** is the promise to the program: idle, submitting, flying;
one callback for each accepted submission, none for a refused one, and an early
end only for a reason (asked for, expired, device gone) that holds for this very
submission.  `Transfers` implements it with the state and outcome it keeps for
the program and reasons computed from its deadlines and requests.

**`Keyboard`** is the report `CurrKbOp[]`, edited in place by each key call and
then sent whole; **`KeySet`** is what a program may expect of it: a set of held
keys in which a call changes only the key it names.  Six slots exist, so a key
too many takes the last one; `KeySet` says what is then promised.  The set
held is that of `M_KeyState()`.

**`Mouse`** is `CurrMouseOp[]`, the recorded position and the loops that split a
move into reports of -128..127, walk a curve of absolute points, repeat clicks
and notches.  The pointer of the controlled machine is external and clipped to
its screen; an absolute move puts it within `AbsoluteError` pixels of the one asked
for, on either axis: `msdk.h` (127) says that `M_MoveTo3()` may miss by two at some
coordinates.  The library does not look where the pointer went:
`M_GetCurrMousePos()`, which `msdk.h` (128) recommends after it, returns the
point asked for.  **`HidComm`** is one exchange with the device: delivered or not,
reported as good or not.  **`Msdk`** composes them with `M_Open`/`M_Close`, which
on failure returns a variable that was never set: it is then null or undefined,
and after an undefined handle nothing is specified.

**`LinuxUrbs`** is one transfer of several URBs.  The thread "user" submits it,
asynchronously or in a synchronous call, and cancels it; the thread "handler"
reaps.  `itransfer->lock` is held over the loops that submit and discard, a URB
in each step, while the kernel and the device go on.  Data is counted in units;
`bus` is what was transferred, in order, and `buffer` where it lies, so that
data moved, lost or counted twice shows.  It implements `TransferLifecycle`,
which `Transfers` implements for everything around the URBs.

**`Devices`** is `ctx->usb_devs` with the references to its objects, as
enumeration, the program, handles and lists hold them; memory of an object that
is destroyed is used again.  **`Interfaces`** is one device used through several
handles: `claimed_interfaces` beside the driver the kernel has bound, reset in
its steps, alternate settings, configurations, and the sessions of
`HID_Open()`/`HID_Close()` over them.  **`ActiveConfig`** reads sysfs file by
file for `libusb_get_configuration()` and the active descriptor, with the
copy taken instead on kernels that lack the files.  **`Descriptors`** is the walk
of `parse_configuration()` over a configuration, one descriptor, block or loop
exit in a step.  **`Deadlines`** is the handling of timeouts without timerfd:
`libusb_get_next_timeout()` with its unlocked read, the timeout of `poll()` and
the arithmetic in nanoseconds, microseconds and milliseconds, few of each in the
next.

**`WindowsThreads`** is the condition variable made of events, **`WindowsClock`**
the thread that reads the clock for the others, every shared counter, event and
semaphore accessed in a step, with `windows_init()`/`windows_exit()`, of which the
paths that fail are left out;
**`WindowsPipe`** the emulated pipes in the table that is searched without a
lock; **`WindowsTransfers`** the life of a transfer's descriptor from listing to
completion, with auto-claiming; **`WindowsDevices`** the passes of
`windows_get_device_list()` over a tree of controllers, hubs and devices that
change meanwhile.  **`DarwinTransfers`** is two handles of a device, the run
loop's thread and the messages between it and the handler;
**`OpenBsd`** the descriptors that several handles of a device open (transfers are
submitted with a claim, as the API asks; the code does not check it); **`Dpfp`** the scanner's
state machine in both examples.

These fourteen share no state with each other.  **`MCComponents`** puts them side
by side: a behaviour picks one in its first state and takes steps of that
one only, so that TLC explores the sum of their states, not the product, and
a property of one is checked in all behaviours that are about it.

Several of them have a constant that names faults: races, failures
and uses that the code is exposed to and does not survive, found with TLC.  Such
a fault is a conjunct of a guard or an alternative inside an action; the
configuration says which are allowed, and section 4 says what breaks with
the others.

## 4. What is checked

| run | instance | states | shows |
|---|---|---|---|
| `event_safety` | 3 threads, one of whose devices may be unplugged, writes succeed | 1.6 M (by symmetry) | no unattended sleeper, no lost wakeup, no descriptor closed under a poll, an opened descriptor is polled |
| `event_failed_write` | 2 threads, writes may fail | 35 k | nobody blocks on an empty pipe, no deadlock |
| `event_liveness` | 3 threads, 4 calls and timeouts | 118 k | transfers, open and close return without a timeout's help |
| `event_open_crash` | 2 threads, unplugging | | finding 1 |
| `transfers_safety` | 3 transfers (timeouts 1, 2, none), 2 threads, clock to 3 | 3.7 M | list sorted, passes complete, idle transfers forgotten, `TransferLifecycle` implemented |
| `transfers_liveness` | 2 transfers, 3 calls | 51 k | timeouts and disconnection end transfers, submission returns |
| `transfers_timer`, `transfers_zero_timeout`, `transfers_submit_blocks` | 1-2 transfers | | findings 2-4 |
| `msdk` | 5 keys for 3 slots, 2 presses; screen 4x3, absolute moves miss by 1 | 91 k | report packed, `KeySet` implemented, recorded position and moves right but for the error of one absolute move, no motion left over, calls return |
| `components` | `MCComponents`, instances below | 633 k | one or two properties of each |
| `windows_early_release` | 2 control transfers, 1 interface | | finding 5 |

The instances of `components`:

| module | instance | shows |
|---|---|---|
| `LinuxUrbs` | 6 shapes: bulk in and out of 2-3 URBs with and without BULK_CONTINUATION, control, isochronous; a second error allowed | no URB outlives what it points into, data and status are right, a cancelled transfer ends, the lifecycle is implemented |
| `Devices` | 2 addresses, memory for 2 objects, 2 threads, 1 reference and handle each | whoever holds a device may use it, unless one of races C and D happens |
| `Interfaces` | 2 sessions, 2 interfaces, 2 configurations | claims agree with the kernel's bindings |
| `Deadlines` | 2 transfers, timeouts of 1 and 3 ms, 10 units of time | no deadline is slept over |
| `Descriptors` | the configurations of `MCConfigurations`: alternate settings, endpoints, class descriptors anywhere, too short and cut ones; allocation and reading may fail | each descriptor in its place, nothing leaks, none that is well formed is refused |
| `ActiveConfig` | 3 configurations, the kernels of `MCKernels` | the configuration reported was active during the call |
| `WindowsThreads` | 3 threads, mutex held twice at most | broadcasts reach waiters |
| `WindowsClock` | 2 clients, 2 contexts, 1 late answer | no request is forgotten |
| `WindowsPipe` | 3 threads of 2 contexts, 2 places | signals reach readers, nobody waits where it is waited for |
| `WindowsTransfers` | a control and a bulk transfer, 2 descriptors | transfers in flight are polled, under a descriptor that is theirs |
| `WindowsDevices` | the tree of `MCNodeKind`: hubs, a composite and plain devices | the list is what is there |
| `DarwinTransfers` | 2 handles, a request and an interface transfer, pipes of 2 messages | no transfer has two answers to come, one in flight has one that is heard |
| `OpenBsd` | 2 handles at a time, 1 endpoint, 2 interfaces | numbers kept are of open descriptors of the right node, unless one of several interfaces is released |
| `Dpfp` | both programs, one error | the next event is awaited |

Why the bounds suffice.  In the event handling a race needs one thread that
polls, one that waits and one that changes the poll set: three threads play all
parts at once, and threads may change parts without bound.  In the transfers,
three are the fewest for an insertion between two others, and with timeouts 1, 2
and none every order of the list arises; the clock to 3 lets a transfer expire,
be submitted again and expire again beside one that is still in flight.  For the
keyboard, the report's algorithm tells slots apart only as first, inner and
last: three slots and four ordinary keys (one too many) reach them all.  For the
mouse, the constants are scaled together (steps of 2 for 100 and 126, characters
of -3..2 for -128..127, home distance 4 for 3000, an error of 1 for 2) so that moves
of several reports, clipping at an edge, both directions and errors that could
add up happen on a small screen;
`ScalingExact` evaluates the real scale formula for screens in use.

In `components` the bounds are the fewest that let two of what may collide meet:
two threads, handles, objects or transfers, and a third thread where one more
has to look on.  A transfer of three URBs has one before and one behind the one
that fails.  Two addresses and two objects let an object's memory be used again
for another device.  The tree for `WindowsDevices` has a device behind two hubs,
whose ancestors are unknown, known without a bus, or known.  Times in `Deadlines`
have two units in each, so that every remainder occurs.

`MaxEvents` and `MaxCalls` (liveness runs) bound the calls of the program,
`MaxTime` the clock, `MaxPresses` and `MaxCount` the repetitions asked for.
Symmetry is used in `event_safety` only, which has no liveness property.

Deadlock is checked in `event_failed_write` and `transfers_liveness`.  It is
switched off where the system really may stop: in `event_safety` and
`event_open_crash` the process may crash (finding 1), in `event_liveness` the
program stops after its calls, in `transfers_safety` a refused submission may
deadlock the library (finding 4), in the other runs of findings the bounded
clock, that deadlock or what was found ends the run, in `msdk` nothing is specified
after an undefined handle, in `components` some programs end and some bounds are
reached, and in `windows_early_release` transfers may stay in flight.

Fairness.  `event_liveness`: each thread inside the library keeps running (weak
fairness of its `Progress`); nothing is asked of the mutexes, because the number
of calls is bounded, nor of timeouts, signals or the device.
`transfers_liveness`: strong fairness of each thread's `Progress`, that is, a
thread that waits for a mutex which is released again and again obtains it, which the
pthread mutexes of the Linux build provide in practice though not by
standard; weak fairness of time; the device need not answer.  `msdk`: the
call under way goes on, and busy answers end at last (the loop in
`HID_Ctrl_Comm()` has no bound of its own).  `components`: only behaviours of
`LinuxUrbs` have fairness, for `CancelEnds`: the submitting thread goes on (weak,
`UserSteps`), and so does the thread that handles events, which gets the
transfer's lock when it is released again and again (strong, `HandlerSteps`); the
device and the program need do nothing.

Findings, with their runs in `PROJECT.json`:

1. `event_open_crash`: a device unplugged inside `libusb_open()` makes the event
   handler use the head of `open_devs` as a handle.
2. `transfers_timer`: each completion arms the timerfd for the next timeout and
   then disarms it.
3. `transfers_zero_timeout`: a transfer submitted again with timeout 0 keeps its
   old deadline.
4. `transfers_submit_blocks`: refusing a submission and a pass over the timeouts
   take two locks in opposite orders.
5. `windows_early_release`: the count that keeps an auto-claimed interface is
   raised by its first user only.

Beside the runs there are configurations for races and uses that the passing runs
leave out because the code does not survive them.  Each checks one property that
says what is wanted, and TLC refutes it within seconds
(`tlc -config UrbsFreedEarly.cfg MCComponents`):

| | configuration | module | property | what happens |
|---|---|---|---|---|
| A | `TransfersGoneAtSubmit.cfg` | `MCTransfers` | `DisconnectEndsPending` | the handler of a device that goes picks a transfer whose submission is then refused, and completes it after the program has it back (io.c 2437-2445, 1304-1310) |
| B | `UrbsFreedEarly.cfg` | `MCComponents` | `FreedWhenDone` | a synchronous call in which handling events fails twice frees its transfer in flight (sync.c 109-113; io.c 298 forbids it) |
| C | `DevicesLastReference.cfg` | `Devices` | `CountedAreAlive` | an enumeration looks an object up without counting it (core.c 582); the last reference may go (852) before it is counted |
| D | `DevicesListedTwice.cfg` | `Devices` | `OneObjectPerDevice` | two threads that list devices both find no object for a device and make one each (linux_usbfs.c 1004-1020) |
| E | `WindowsStaleDescriptor.cfg` | `WindowsTransfers` | `OwnDescriptorFreed` | a transfer that is listed and not yet submitted again is taken for the one that has its old descriptor's number (windows_usb.c 1944) |
| F | `DarwinLateCallback.cfg` | `DarwinTransfers` | `CallbacksHaveTransfers` | the run loop calls back for a transfer that the handler has completed because the device is gone (darwin_usb.c 1655-1668, 1542) |
| G | `OpenBsdPartRelease.cfg` | `OpenBsd` | `ClaimsServed` | releasing one interface closes the descriptors of all and keeps their numbers (openbsd_usb.c 359) |
| H | `OpenBsdTwoHandles.cfg` | `OpenBsd` | `OpenHandlesServed` | closing one of two handles closes the node both share (openbsd_usb.c 231-232) |

Limits of what the passing runs say (all but the last found with TLC):

* `SleepersAreAttended`, `PolledFdsStayOpen` and `OpenedFdsArePolled` need writes
  to the control pipe to succeed; after a failed one the code goes on without
  interrupting the handler.
* `TimeoutEndsTransfer` holds for bounded traffic: because of finding 2 a
  timeout is noticed only when `poll()` gives up, which unbounded completions
  may put off for ever.
* `IdleIsForgotten` and `LifecycleSpec` need that the device does not go while a
  submission is under way (`Unplugging = "quietly"`; race A).
* `LifecycleSpec` needs that a transfer is always submitted with a timeout or
  never (finding 3).
* `PositionTracked` and `MoveArrives` say no more than that position and target are
  met but for `AbsoluteError`, the error `msdk.h` allows one absolute move; that
  the machine keeps to it is assumed.  They need that absolute moves do not fail:
  `M_MoveTo3()` records each point before it sends it and keeps it on an error.
  They need a screen of at most 3000 pixels, and a program that does not move
  beyond the far edges once a position is recorded (as `msdk.h` asks).
* `LinuxUrbs`: `FreedWhenDone` does not hold (race B).  With "lone_stall"
  (a URB stalls behind which the kernel does not cancel the others) or
  "early_error" (a URB fails before all are submitted) `DataKept` does not hold.
* `Devices`: `HeldAreAlive` needs that threads list devices in turn and no last
  reference goes during an enumeration ("enumerate", "dying"; races C and D),
  which no lock of the code sees to; with no memory for the poll set in
  `op_open()` a descriptor stays open.
* `Interfaces`: a reset request that fails, a driver detached that is another
  handle's usbfs, an alternate setting chosen after the check of another
  thread's release, and a configuration whose descriptor cannot be read leave
  mask, binding or copy wrong.
* `ActiveConfig`: a node the program may only read (-1 replaces the value read
  from sysfs, and the first configuration is copied), a device that does not
  answer, no memory for the copy, a configuration that changes on kernels whose
  file has only the active one, a big-endian host.
* `Deadlines`: a transfer freed while `libusb_get_next_timeout()` reads it.
* `WindowsTransfers`: `FlightsArePolled` needs that no event is handled while a
  transfer is listed that still has the number of its last descriptor ("stale",
  race E), and no reset with transfers in flight ("reset").
* `WindowsDevices`: a hub that comes or goes during an enumeration, a device in
  the place of one the program still has, a controller that comes or goes
  (buses are renumbered), a hub that cannot be opened (the enumeration
  fails), descriptors that cannot be read (never tried again).
* `DarwinTransfers`: `AnsweredOnce` leaves open what becomes of the answer of a
  transfer that ended with its device (race F); a pipe that is full when the
  device is detached blocks the writer with `open_devs_lock`, for ever.
* `OpenBsd`: `ObsdDescriptorsOwned` needs that no handle releases one of several
  interfaces ("part_release", case G).  It says nothing of descriptors that are
  never closed: the node that a second open replaces, endpoints that a second
  claim forgets or a close without a release leaves, an open that fails half way.
* `Dpfp`: a scanner that sends events before its mode is set.
* From reading, in the backends: on Windows a handler that finds no transfer for
  a descriptor returns with `open_devs_lock` held, `found` is not reset
  between descriptors, and `windows_init()` keeps its semaphore when a library
  is missing; on Darwin the pipe meant to be non-blocking is not
  (`F_SETFD`), and a second `darwin_init()` does not wait for the run loop; on
  Linux an error in the middle of the walk over sysfs' configurations leaves the
  file open, and a value of three digits is refused.
* From reading: `M_ReleaseAllKey()` and `M_ResetMousePos()` return 0 even when the exchange
  failed; `M_RandDomNbr(k, k)` divides by zero; two threads on one handle are not
  protected from each other.  The model makes one call at a time.

## 5. What is proved

All theorems are about every value of the constants that satisfies the named
assumptions: any finite set of threads, any transfers, any timeouts, any bound
on the clock.

`EventHandlingProofs`: the inductive invariant is `IInv`: the types, `CountInv`
(`pollfd_modify` and the bytes in the pipe are the numbers of threads between
two labels), `LockInv` (owner and depth of the recursive events lock follow from
the threads' labels), `WaitersInv` (the same of the waiters lock), `ActiveInv`
(`event_handler_active` only while the events lock is held) and `WroteInv`.  The
properties are not inductive alone: that a sleeper is attended
rests on the re-check of `event_handler_active` under the waiters lock, which is
worth something only with `LockInv` and `ActiveInv`; that the pipe can be read
rests on counting its bytes.  `OpenedPolled` adds `PolledInv`: a descriptor that
a poll in progress misses belongs to an open that has yet to interrupt it.
`SleepersAttended`, `PolledStayOpen` and `OpenedPolled` assume
`WriteMayFail = FALSE`.

`TransfersProofs`: `IInv` is types, `LockInv` (who holds which transfer's lock and
the list's, by label), `PhaseInv` and `GoneInv`, `ListInv` (exactly the transfers
in the library's hands are listed), `UrbInv` (a URB exists only for a listed
transfer, up to the step that reaps it) and `FlyingSorted`.  Two lemmas on
`InsertAt` and `RemoveAt` carry the list.  Even `TypeOK` needs all of it, since
the timer is armed from what a thread remembered and from the list.  `PassesFindAll`
adds `MarkedInv` and `CursorInv`: what is marked as timed out, and what a pass has
left behind, has its URB back or killed, unless the pass in progress is about to
kill it.  This is where the unlocked write of the mark, and a cancellation that
writes back flags it read before, could go wrong: both happen under the lock of a
list from which nothing is taken meanwhile, or of the transfer.  `FlyingSorted`
then says that where the loop stops nothing has expired.  The theorems assume
`Unplugging # "any time"`.

`TransfersProofs` ends with the refinement: theorem `Lifecycle`, that `Spec` implements
`TransferLifecycle`'s `Spec`, from `IInv` and four more conjuncts that together say that a
status about to be reported has a reason: `DeadlineInv` (the deadline asked for
is the one recorded), `MarkInv` (a mark "timed out", set or remembered by a
thread, is of a transfer that has expired), `KillInv` (whoever kills a URB left a
mark or was asked), `StatusInv`.  It also assumes `TimeoutsKept`.

`MsdkProofs`, the keyboard: `KeysInv` is the types, a packed report, and a key in
every call under way; `ReportStaysPacked` and `KeyboardKeepsPromise` follow from
lemmas that say of each edit of the report (press, release, of a key or a
modifier, with a slot free or none) that it packs and what it holds then.  For
any keys, modifiers and number of slots; exchanges may fail in every way
`KeysMayFail` lists.

`MsdkProofs`, the mouse: `MotionInv` bounds what is left of a motion, so that its
parts fit a signed char (`TypesHold`).  `TrackInv` says of each kind of motion
where pointer, recorded position and remainder stand to each other: a relative
move and a move to a point will end where the record says, the search for the
origin will reach it since the remainder is at least the distance, a curve ends
on its target, all but for the error of one absolute move.  The error never grows:
a relative move shifts pointer and record alike, clipping at an edge brings the
pointer no further from a point on the screen, and an absolute move starts afresh.
`PositionIsTracked` and `MovesArrive` hold for any `AbsoluteError`; they
assume `Reliable`: absolute exchanges do not fail (`M_MoveTo3()` records points
before it sends them), and `ScreenFits`, at most 4095 pixels wide and at most four
times as high.  There a quarter of a pixel is two steps of the scale or more, and the
coordinate sent for a pixel lies in it; `ScaleExact` proves this of the code's integer
divisions, so that the machine's error is the only one.

`LinuxUrbsProofs`, for any set of shapes: `UrbsInv` describes an allocated transfer
as a pipeline (`CountInv`): URBs retired, the one in hand, those that wait to be
reaped, those the kernel has (numbers `low` to `high`) and those still to be
submitted add up to all of them, and as long as `reap_action` is `NORMAL` they
stand in this order.  `UrbsOwned` is not inductive without it: that the last URB
retired is the last there is needs the count, and that a loop discards no URB
twice needs the order.  `UrbsKeepLifecycle` adds `ReasonInv`: what will
be reported, and what it will be computed from, has a reason.  Both assume that
there is no "lone_stall": with one, `reap_action` stays `NORMAL` while URBs behind
the failed one are discarded, and what is then known of their order differs.  All
other faults, the "second_error" and "early_error" of section 4 included, are
covered.

`DataIsKept` adds `DataInv` (and assumes that there is no "early_error" either).
`EndsInv` is what one URB tells of the others: behind one that is
queued, or ended in a way that stops the endpoint, none has moved data.  Hence
`OrderInv`: URBs that moved data are reaped in their order, whatever was killed in
between.  `SumInv`, the centre, says how far the copying has come: there are
sums `b` of the units before each URB and a number `h` such that of the URBs with
data exactly those before `h` are counted, `transferred` is `b[h]`, the first
`b[h]` units of the buffer are in place and each later URB's units still lie in
its own part.  `memmove()` may then overwrite nothing that is still needed, because
`b[i]` is at most what the parts before it hold (`HandleSum`); while nothing has gone
wrong there is no `memmove()`, because all counted URBs were full.  The sums are
not computed but exist, so that no recursion is needed: a submission starts them
at 0 and each unit moved raises those behind it by 1 (`UnitSum`).  `OutcomeInv` is about
the status: what the retired URBs were while `reap_action` is `NORMAL`, and that
`completed` survives only an early end at the first short URB.  `SentInv`: what was sent
is the start of the buffer.

`DevicesProofs`, for any devices, objects and finite set of threads: `DevicesInv`
says of each thread what its step needs of the object it works on (`OwnInv`), that
one thread lists devices at a time and an object is destroyed once (`SharedInv`),
that a device has one object (`ListedOnce`), and that the count of each object is the
number of references (`CountedInv`).  Sums over threads are handled
by `ReferencesChange`: a step of one thread changes the sum by what that thread
counts.  Theorem `CountsAreExact` needs all of it: an object is destroyed by the
thread that took its count to zero, and that nobody refers to it is
`CountedInv`.  It assumes `DeviceRaces` without "enumerate" and "dying": the
code has no lock that excludes them, and with either it fails.

`DevicesProofs` also has the active configuration: theorem `ActiveIsReported`, assuming
`ConfigFaults = {}` and numbers that fit the buffer (`ConfigAssumed`).  `SourcesInv`:
which of sysfs' files are relied on follows from what the kernel offers, `CopyInv`
when the cached copy may be; `OpenInv` counts the files open by the place
the call has come to; `ReadingInv`, `AheadInv` and `AnswerInv` say that what
was read so far is of a configuration that was active since the call began.

Third in `DevicesProofs` are the descriptors: theorem `ConfigurationsAreParsed`, for any
configurations, limits and failures.  Nothing leaks: `clear_configuration()` finds a block only by way of the blocks that lead to it.
`BlocksInv`: until the call returns, every block allocated is one that it would
find (`FoundBlock`), so that the call may fail anywhere.  `PlaceInv`: wherever the parser
is, the blocks and counts around it are there, so that the next block it
allocates is found too.  `FailsCleanly` and `GoesOn` are the two ways a step ends.
A well-formed configuration is parsed as it is meant: `SizeInv`: what is left are the
bytes of the descriptors not taken yet.  They are a sum over the list, a recursive
function that is shown to exist and to be natural (`BytesOfLastIs`) by an induction
over its length.  `SpotInv`: the parser's spot counts the interfaces, settings and
endpoints taken, and so, by `InterfacesToCome` and `EndpointsToCome`, what the counts
announce is still to come and the next descriptor is of the kind the parser looks for.
The proof takes two premises that `WellFormed` states and the instances always had: an
interface descriptor has at least its 9 bytes, and there is at least one interface.
Without the first the parser stops at a short last interface and returns success,
without the second it returns before any class descriptors.

`SequenceLemmas` holds what the proofs about lists, pipes and poll sets share, of
sequences without repetition: putting in, appending, taking out and dropping the
head change the range by that element and repeat nothing; and that sets of naturals
have least and bounded ones greatest elements.  From that `NaturalsInduct` gets induction,
of a set in place of the predicate that the provers could not instantiate.

`PlatformProofs` has one part for each module below.

Threads of Windows: theorem `BroadcastsReach`, and the types.  `ThreadsInv` is the
types, `MutexInv` (the mutex has an owner exactly while it is held), `WaitersInv`
(the entries in the list are those of the threads inside
`usbi_cond_intwait()`, and only such threads have been called) and
`BroadcastReaches`: a thread between its release of the mutex and its sleep
already has its entry in the list that a broadcast walks.

Interfaces: theorem `ClaimsAlwaysAgree`, for any handles, interfaces and
configurations, assuming `IfaceFaults = {}`.  `InterfacesInv` is `BindingsType`,
`SelectingInv` (an interface whose alternate setting is about to be selected
stays claimed, and no reset takes it away) and `ClaimsAgree`.

The clock of Windows: theorem `RequestsAreAttended`, for any finite set of clients.
`AnswersInv` bounds the answers given, granted and still counted from both sides:
at least one for each client that asks, at most one more for each time somebody
asked again.  The upper bound is what keeps `ReleaseSemaphore()` from failing,
which would lose all answers of a round; it fits under `RoomForAnswers`:
clients and repeated requests together are at most `MaxTimerSemaphores` (128 in
the code, which checks nothing of the kind).  `WakesInv`: a sleeping timer thread
with a request counted has its event set, or about to be set by the client
that counted.  `StoppedInv` is about the start and end of the thread with the first
and last context.

Transfers of Windows: theorem `WinTyped`, from lemma `AllFlightsPolled`, both assuming
`WinFaults = {}`, which the code does not see to (race E).  `OwnersInv`:
a descriptor in use and its transfer name each other, and a transfer about to
be given a descriptor has forgotten its last one.  `PolledInv`: polled are,
once each, the descriptors of the transfers in flight.  `WinHandlerInv`: what the
handler copied still names descriptors that are polled, hence no event is lost.

Pipes of Windows: theorem `SignalsAlwaysReach`, for any finite set of threads and any
number of places.  `NumbersInv`: the numbers of open pipes and of pipes being made
are distinct.  `PlacesInv`: an open pipe has one place that nobody is about to free.
`CallsInv`: a call's pipe stays open, and its place is not behind the one the call
looks at, though the table is searched without a lock.  `GroupInv`, which makes
this true, is how the code uses pipes: a context is closed when its threads have
finished with it.  `HoldersInv` and `SignalsInv`: who has the critical section of a
place, and its event is set while signals are unread, so `usbi_read()` does not wait.

OpenBSD: theorem `ObsdDescriptorsAreOwned`, for several handles of a device, several
claims, handles closed with claims, opens that fail half way: all uses but the
release of one of several interfaces, after which the code fails (`ReleasedTogether`,
case G).  `DeviceInv`, `PipesOwned` and `NodesInv`: a number in use is of an open
file of the right kind and of one handle.  That no two uses share a number follows
from where it came from: the kernel gives out numbers that are free, and what a
handle forgets it never closes.  `ClosedInv`: a closed handle has neither claims nor
messages.  `MessagesInv`: messages in the pipe are the transfers in flight, once each.

Darwin: theorem `TransfersAnsweredOnce`, for any number of handles, with callbacks as
late as they like and pipes that may be full.  `LocksInv`: `open_devs_lock` keeps
those who tell of the device's end, those who read and those who open and close
apart.  `PipesInv`: a message comes once, and until the end of the device is noticed
is of a transfer in flight.  `HandlesInv`: until then the polled handles are the open
ones, and each of them gets one message of it.  `FlightsInv`: a transfer has one answer
at most, one in flight exactly one, and somebody who hears it.

Deadlines: theorem `DeadlinesAreMet`, assuming that no transfer is freed while its
deadline is read (`"freed" \notin DeadlineFaults`).  `FlyingInv`: the list is in the
order of the deadlines.  `PollWaitInv`: the transfer in hand is the first of those
counted, `poll()` waits for its deadline at least and for no deadline much longer.
Two points need arithmetic: a deadline whose microseconds make a whole second
(`calculate_timeout()` does not carry them) is still in its place in the order
(`NotEarlierInNs`), and rounding to milliseconds goes up (`PollFacts`), so that a
transfer whose wait is over has expired (`ClockReaches`).

The scanner examples: theorem `TheNextEventAwaited`, assuming a scanner that sends
nothing before its mode is set (`"early" \notin DpFaults`); calls may fail.
`DpEndsInv`: a transfer is in flight or has ended, once, and the end of a change of mode
comes before its event.  `StageInv`: before `main()` loops nothing but failures can
have come.  `MachineInv` relates the state, the mode, and what has ended: an
event that is handled is always the one the state waits for.

`ComponentsProofs`: theorem `DevicesListedAsTheyAre`, for any tree of at most
seven tiers and 255 controllers and in whatever order Windows lists it, assuming
`WinDevFaults = {}`: no hub or controller comes or goes, hubs can be opened and
descriptors read, and no device comes in the place of one the program still has.
The tree comes first: by induction over the tier, the ancestors of a
device are hubs up to one controller (`AncestorsKinds`), no more than seven
(`AncestorsLength`), so that a depth, computed in a byte, overflows only for root hubs,
as the code wants it.  The rest follows the passes.  `ControllersInv`: in HCD_PASS
the controllers had so far are the first ones, so the count of the list is the number
of the bus.  `HubsInv`: after HUB_PASS every hub that is plugged in is known, so that
the nearest known ancestor GEN_PASS finds is the parent itself, and
`init_device()` finds a bus among the others (`BusFound`).  `ObjectsInv`: an object
has no data but that of its own node, whether it was made in this enumeration
or is one the program kept.  `DiscoveryInv`, `DriversInv` and `PartsInv`: what was there
all the time is passed over by none of the later passes.  `ListedInv` carries this
over the time between enumerations.  `EnumerationTyped`, the types, holds with
every fault.

`ComponentsProofs` ends with all components together, as the run `components` has
them: theorem `ComponentsTyped`, `TypesOK` for `MCComponents`' `Spec`.  A step of the
composition is one of a single component and leaves the variables of the
others alone (`OneRuns`); the rest are the components' own theorems, which the
modules extended prove.  Types are seldom only types here:

* `UrbsTyped`: never more is counted than there are URBs and room in the buffer,
  which rests on the sums of `DataKept` (and needs no fairness);
* `DescTyped`: `left` in the parser is never more than the bytes of the descriptors
  not taken, and no descriptor is taken behind the last;
* `InterfacesTyped`: the default context has as many users as there are sessions open,
  with every fault (`ContextCounted`); `DevicesTyped`: each open handle has a
  descriptor to close, and if memory does not lack there are no others (`HoldersType`);
* `DarwinTyped`: messages fit their pipes; `ClockTyped`: answers fit the semaphore;
* `WinTyped`, `ObsdTyped`, `PipeTyped`, `DeadlinesTyped`, `DpTyped`, `ActiveTyped`,
  `ThreadsTypeCorrect`: mostly contained in the invariants above.

The theorem assumes the faults away that the types cannot stand: "lone_stall" and
"early_error", "enumerate" and "dying", "freed", and all of `WinFaults`; that
answers have room (`RoomForAnswers`) and that there are finitely many
sessions and handles.  All other faults may happen.  `Components.cfg` is such a choice.

Only model-checked: liveness (`CallsReturn`, `CancelEnds` and the properties of the
liveness runs), which needs fairness and `ENABLED`; and what the runs of
the findings and the configurations beside them refute.
`HeldAreAlive` and `FlightsArePolled` are proved as lemmas only (`HeldStayAlive`,
`AllFlightsPolled`): what they assume excludes races C, D and E.
Every other safety property the passing runs check is a theorem.

## 6. What is not modelled

The components `PROJECT.json` marks `not_modelled` or `partly`, each with its
reason.  Chiefly:

* the pthread wrappers, taken as the standard says;
* failing clock and timer calls, `libusb_handle_events_locked()`, pollfd
  notifiers, the teardown of a context that is in use;
* walks over directories and the parsing of what files contain, strings and
  queries that keep no state;
* on Windows the calls of WinUSB that keep no state in the library, the
  dispatch of composite devices to their interfaces' backends, collisions in
  the hash table of session ids, duplicated file handles, a performance counter
  that is not available;
* on Darwin enumeration, configurations and alternate settings, which are calls
  of IOKit in sequence; on OpenBSD a poll that reports an error;
* data beyond what a property tells apart: buffers are units, descriptors are
  lengths and kinds, names are model values.
