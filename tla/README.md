# Turbine governor: a verification project

This directory specifies the turbine governor in TLA+, model-checks the
specifications with TLC and proves the main results with TLAPS. It is meant to
be read beside the code: each module names the functions it stands for, and
every definition that models code is listed with its lines in `PROJECT.json`
(`map`).

## 1. The system

The governor is two processes that talk Modbus/TCP.

    HMI (Qt)                                         Regulator
    panels --> RegImage <--> ModbusMasterDrv ==TCP== ModbusSlaveDrv <--> IOImage
               GUI thread    driver thread           driver thread       Control
                                                                         AlarmManager
                                                                         (main thread)
                                                     EthercatDrv <------ IOImage
                                                     driver thread

| component | state it keeps | operations | hard behaviour | what makes it correct |
|---|---|---|---|---|
| **Command path** of the HMI: `RegImage` (write side) and `ModbusMasterDrv` (write cycle) | three button tables, the queue of pending writes, connection and driver state | `writeVarAsButton`, `writeVar`, `forceVar`, `processUncompletedWrites`, callbacks, `driverLoop` write cycle, `start`, `stop` | two threads and two mutexes taken in both orders; replies lost, retries, expiry, reconnection | a button write is a pulse: 1, then 0. No button is forgotten, none has two writes outstanding, nothing counts as written that is not, a register left pressed is known to be |
| **Read cycle** of the HMI: `ModbusMasterDrv` (read side) and `RegImage::updateImage` | table of values, set of changed variables, iterators, the variables seen so far | `processNextRead`, `processRead`, `getChangedVars`, `read`, `newVarUpdated` | marks and values under different mutexes; the state of the driver read without its mutex | no change is lost on its way to a panel; the main window appears, and only when every variable was answered |
| **Modbus server** of the regulator: `ModbusSlaveDrv` | life-cycle state, sockets, `fd_set`, counters, registers | `init`, `start`, `stop`, `close`, destructor, register accesses, `driverLoop` | the owner closes what the driver walks over; the destructor against the thread's wait; a signal handler on top of the owner | socket books right, nothing closed is used, stopped is quiet, each outage reported once, shutdown ends |
| **Exit** of the regulator: `exitReg`, `closeSignalHandle` | none | closes and deletes the drivers inside the signal handler | interrupts the main thread anywhere, locks included | ends, unless the signal struck inside a critical section |
| **Scan cycle**: `main` loop, `IOImage` | image of field and slave variables | `init`, then `updateInputs`, `checkDriverErrors`, `updateControl`, `updateOutputs` each 10 ms | registers read one by one while masters write; writes accepted before `ioImage.init` | a confirmation is never answered with an older set point |
| **Control** | `iState`: 0 at rest, 1 and 4 running up, 6 power and 7 opening regulation; set points | `updateControl` | commands are levels looked at in every scan; each mode is left by the other's command | a mode asked for is taken and kept |
| **Alarm manager** | alarm words, driver error flag | `driverFailed` (callback), `checkDriverErrors`, `setAlarm`, `clearAlarms`, `setFldStates` | flag set in a driver's thread, state read a scan later | a reported outage that lasts ends in an alarm; no alarm goes unacknowledged; words and decoder agree |
| **EtherCAT driver** and devices | life-cycle state, slaves in error and their tries, variable errors, process image | `init`, `start`, `stop`, `close`, destructor, cyclic exchange, `updateDevice`, `writeIO` synchronous and not, `read`, `updateQState` | synchronous writes woken by any exchange, or by none; state and quality read without a lock; callback on change only; errors that outlive `close` | errors agree with the devices, every failure is reported at once, `OK` is never invented, a write that says true reached the terminal |
| **Register map and codecs** | the four tables of libmodbus | channel to address on both sides, quality, integers, time stamps | arithmetic in `uint8_t` on one side, in `int` on the other; two hand-written halves | a master reads of a channel what was written last for it, and no channel disturbs another |
| **Panels** of the HMI | presentation | `on_cmdSendSP_clicked`, `on_cmdSendPID_clicked`: several requests in a row | a heap that compares all requests equal; a confirmation refused unseen; a HMI that ends between the phases of a button | a confirmation finds its set point in place; a pressed register is released |
| **Plots, alarm log, XML** | presentation | Qt slots; parsing at start | none of the above | outside the scope, see section 6 |

Interactions: panels call `RegImage` in the GUI thread; `RegImage` queues
requests in `ModbusMasterDrv` under `mtDrvStateMutex`; the driver thread calls
back into `RegImage`, which takes `mtButtonWritesMtx`. The driver marks changed
variables under `mtChagesSetMutex` and stores them under `mtIOMapMutex`; a
20 ms timer of the GUI thread collects them. At the other end the server's
thread writes registers under its own `mtIOMapMutex`, which the scan cycle takes
for every access.

`PROJECT.json` lists what is hard to test, at the line where it bites, under
`hazards`, with the properties that cover it or the reason none does yet.

## 2. Modules

| module | what it is |
|---|---|
| `Button` | abstract specification: a button as the operator sees it, five moves between *rest*, *asked*, *pressing* and *releasing*, and what may happen to its register meanwhile |
| `CommandPath` | the command path, thread by thread; `ButtonSpec` is `Button` under a refinement mapping |
| `MCCommandPath` | its instances |
| `CommandPath_proofs` | type invariant, ownership of outstanding writes |
| `CommandPath_refinement` | what counts as written is in place; `CommandPath` implements `Button`; which registers stay pressed |
| `ReadCycle`, `MCReadCycle`, `ReadCycle_proofs` | the read cycle |
| `SlaveDrv`, `MCSlaveDrv`, `SlaveDrv_proofs` | the Modbus server and the shutdown of the regulator |
| `Outages` | abstract specification: the server as the alarm manager sees it, which fails, recovers and reports; implemented by `SlaveDrv`, assumed by `Scan` |
| `Scan`, `MCScan`, `Scan_proofs` | the scan cycle: image, control and alarm manager against the server's registers |
| `FieldSource` | abstract specification: what the field driver promises to whoever gave it an error callback |
| `FieldDrv`, `MCFieldDrv`, `FieldDrv_proofs` | the EtherCAT driver, its devices and its shutdown; `SourceSpec` is `FieldSource` under a refinement mapping |
| `Variables` | abstract specification: words and variables, each apart from all others |
| `RegisterMap` | the register tables and the address arithmetic of both drivers; `VariablesSpec` is `Variables` under a refinement mapping |
| `RegisterMap_proofs` | `RegisterMap` implements `Variables`, and its type invariant |
| `WriteQueue`, `WriteQueue_proofs` | the heap of pending writes in its real order: set points, confirmations and a HMI that ends |

### CommandPath

State. `buttonWrites`, `buttonWritesToClean` and `uncompleted` are the three
tables of `RegImage.h:72-77`; `pending` and `req` the queue and the heap objects
it points to; `cur`, `trys`, `coilDone` the locals of `processWrite`; `inbox`
the requests sent on the open connection and not served; `orphans` those left
on connections that were closed, which a server may serve later or never.
Two history variables say which buttons were reported with `writeError` and
which registers were last written from a closed connection.

Steps. Neither mutex is a variable: a mutex is held at the control points that
`DrvLockHeld` and `ButtonLockHeld` name, and a critical section that waits for
nothing is one step. So `writeVarAsButton` is `PressBegin` (takes
`mtButtonWritesMtx`, refuses or reserves) and `PressQueued` or `PressRefused`
(gets `mtDrvStateMutex` inside `write`); `processUncompletedWrites` is
`UpdateImage` and one `FlushRelease` for each entry; the driver loop is split
where it waits: for a reply, for the mutex of a callback.

What the model takes as it is in the code:
- the loop of `processWrite` (344-358) counts a success in its last try as a
  failure; the request stays queued and is written again;
- a failed write keeps its request; expiry is only looked at in a write cycle
  and while connecting fails;
- a force writes the coil, then the value; a retry continues after the part
  already answered;
- `processNextRead` returns false at the end of every pass (193-201), so the
  driver reconnects after each one: `ReadFails` may happen at any time.

Abstractions. Values are 0 and 1. Time is not modelled: a request may expire
at any time, a connection may fail at any time. Pending requests are served in
any order: `WriteReq` compares only the timeout, which is the same for all, so
the heap promises an order only while at most three are pending.

### ReadCycle

State. `reg` are the regulator's registers, `data` the driver's table,
`changed` and `taken` the set of marks before and after `getChangedVars`,
`first` the variables with `mbForceChangeDetection`, `it` both iterators (field
variables are 1..`NumFieldVars`, the others follow), `image` what the last
`varChanged` said. Of a field variable a request reads the values and further
ones its quality and forced bit: two parts, `val` and `rest`, stand for the four
of `processRead`, enough for a variable to be torn by a change in between and
for a retry to keep the parts it has.

Steps. `Mark` and `Store` are two critical sections under two mutexes, in the
code's order. `UpdateImage` reads the state without a mutex, so everything after
it may find another state. `raced` is a history variable: the variables whose
last look came between mark and value, or while the driver was in `COMError`,
as it is for a moment after every pass. `ImageFollows` and `PanelsSettle` say
that these are the *only* ones a panel may show wrongly; that they can be wrong
is shown by the run `unread`.

Abstractions. The write cycle appears as `WriteFails`, the release queue of
`updateImage` is in `CommandPath`. Variables are read in a fixed order (that of
the unordered maps). Time stamps are left out, they are not compared.

### SlaveDrv

State. The fields of `ModbusSlaveDrv`, what a pass has left of its copy of the
`fd_set`, which descriptors are open, which masters wait, ask or have hung up.
`held` is what the owner thread holds; `calls` counts the error callback since
the server last listened.

Steps. The driver thread goes through `test` (loop condition), `lock`, `checked`
(inside the wait loop), `wait`, `serve` (a pass over the sockets), `reply`
(wants `mtIOMapMutex`), `sleep`. The owner calls `init`, `start`, `stop`,
`close` and the register accesses; `Signal` may interrupt it inside `start` or
an access, with the mutexes it holds, and runs `exitReg` from there: `close`,
the destructor, `join`.

What the model takes as it is in the code: `miFdmax` goes down by one and only
if the highest descriptor closes; `fdmax` and the counter are not reset at the
same places; a failed `accept` leaves the server listening and the pass goes on
(`modbus_tcp_accept` gets `&miServerSock`, but the library in `src/libs`, 3.1.6,
does not write to it); a failed reply is sent again and the last retry closes the
connection.

Left out: a second signal while `exitReg` runs. SIGINT and SIGTSTP have the same
handler (`main.cpp:44-45`) and each blocks only itself, so one on top of the other
would close and delete the drivers twice. `Signal` comes once.

Seen from outside it implements `Outages`: `off`, `Running` or `COMError`, and
whether the outage was reported (`ImplementsOutages`).

### Scan

State. `reg` are the input registers of the server, `io` the image the scan has
of them, `out` what it publishes, `iState` the control's state, `alarms` the
logic error words (the alarms there are fit in one), `withErrors` the flag of the
alarm manager and `slvState` the server as it sees it. What the server may do is
said by `Outages`: an outage is reported at most once, and only while it lasts.
That the scan assumes no more of it, and that `SlaveDrv` does no more, are theorems
(`ServesAsOutages`, `ImplementsOutages`), so what is proved of the scan holds beside
the real server. History:
`asked`, the power set point in place when SPOK was pressed last; `confirmed`,
the same when the scan read SPOK pressed; `lost`, the set points that `init`
overwrote; `cleared`, whether the operator acknowledged since the report.

Steps. Every register access of the main thread that races with a master or
with the server is a step: each input in `init` and in `updateInputs`, in the
order of the array; the flag, and then the state, in `checkDriverErrors`;
`updateControl` touches nothing shared and is one step; `updateOutputs` is three,
one for each group of registers. Masters write any input at any time, an input
being a level or, for set points, the next number: this includes whatever the
two-phase writes of `CommandPath` do, stuck and late ones too.

What the model takes as it is in the code: the server runs while `init` still
writes; the words of the alarm manager are published without having been
initialised (`Leftover` is what they may hold); a trip goes before the
acknowledgement; the acknowledgement is a level and clears the alarm of an
outage that goes on, which is not raised again.

Abstractions. The speed has the bands the transitions tell apart (up to 59, up
to 65, above). The field driver is not started (`main.cpp:53`), so its state is
`UnInit`, no field input is mapped, and the branches of `checkDriverErrors` for
it are not taken.

### FieldDrv

State. The fields of `EthercatDrv` (state, slaves in error and tries, variable
errors), what each device thinks of its variable, the outputs of one pulse
terminal in the process image and what that terminal has latched. `owner` and
`thread` are the places of the two threads, `holds` the mutexes the owner holds;
the driver thread holds `mtDrvStateMutex` at the places `DrvHoldsState` names.

Steps. A cycle of the driver thread is `Exchange` (send, receive, wake the
owner, all under `mtIOMapMutex`), `CheckSlaves` (`checkSlavesWKC`), one
`UpdateDevice` for each device in any order, `Settle`, and `Report` when the
state became an error. The owner's `PulseDev::write` is three `writeIO`, each
the lock of the image, the change of it and, for the two of the set bit, a wait
that ends with an exchange, after two seconds, or by itself; `read` and
`updateQState` are two reads without a lock each. `Signal` may come after any
step of the owner, with the mutexes it holds, but for the last lock of `init`,
which is one step (`InitDriver`); `exitReg` and the destructor
follow, whose notification (`NotifyEnd`) is sent without the mutex.

What the model takes as it is in the code: `close` forgets the devices and
neither list of errors (`leftover` is what it leaves); a pulse write that fails
leaves its set bit at 1; `mSlavesComTrys` has no place for the last slave, so
what stands there after `init` is any number; a notification between the test of
the wait and the wait is lost (`missed`).

Abstractions. Raw values are two, of one terminal; status words are one of the
qualities they stand for. A slave is operational, out of synchrony or anything
else, at any time. Tries are counted to one beyond the limit: the wrap of the
eight bits shows nowhere, since a slave stays in `mModuleErrors` until it is
operational. The driver is created and deleted in this build and not started
(`main.cpp:53-58`): the model is of what the driver does when it is.

### RegisterMap

State. The four tables of `modbus_mapping_new`, and `reply`, what the last call
or request gave back. A value is spread over registers in parts that carry their
number, so a value read with a part missing, or with parts of two values, is
`Garbage` and never a value.

Steps. One for each access of the regulator (`read`, `write`, `updateFieldVar`,
`writeRO`, for every channel a `uint8_t` can hold) and for each request a master
makes in `processRead` and `processNextWrite`, all under `mtIOMapMutex`. The
regulator computes in `Width` values (256; 8 in the run), the master in
integers, each from its own definitions, as the two source files do.

A write is `Stored`: a register that the table does not have enters its domain,
and `TypeOK` says that none ever does. So `TypeOK` is also the statement that
nothing is written outside of the tables.

`initMapping` (264-270) is part of `Init`. It calls `setForced` with the channel of
each field variable as it is, where `read`, `write` and `updateFieldVar` take
`muiNumROInts` off it and test the range. It clears, then, the coil at
`uiChannel - 1`, which is that of the variable `muiNumROInts` further on; with a
channel above `muiNumIOVars` the write is behind the end of `tab_bits`, and with
channel 0 at index 65535, `valAddr` being a `uint16_t`. The first is harmless: the
tables are new and clear, and the server does not listen yet. The second is
excluded by an assumption on the configuration, `FieldsAssumption`: the channels
of field variables are in `1..NumIOVars`. `SlaveDriverCnf3.xml` satisfies it (five
words, 146 variables, field variables at 124 to 141), and so does
`SlaveDriverCnf2.xml` (20, 10; 1 and 2, which are words); `SlaveDriverCnf.xml` has
none of the two numbers and `init` refuses it. Nothing in the code tests it. For a configuration that breaks it nothing is claimed:
without the assumption, two words, two variables and a field variable at channel 4
make TLC find `TypeOK` violated by the initial state.

Taken for granted besides, as the shipped configurations have it: both sides are
configured with the same numbers of words and variables, fewer than 256
together (`FitsAssumption`), and both run on machines of one byte order.

### WriteQueue

State. `heap` is the vector of `std::priority_queue`; requests are numbered as
they are made, and those up to `expired` are older than the timeout. `button`
and `owed` are the tables for SPOK, `regSP` and `regOK` the registers.

Steps. `SendSP` and `Confirm` are the two calls of `on_cmdSendSP_clicked`, and
the second may be refused, which nobody looks at. `Popped` is what the standard
library leaves after a pop when no element is less than another: the hole of the
top sinks to the right child as long as there are two, and the last element fills
it. `Path`, the places the hole visits, is the smallest set that has the root and
is closed under that step, which is a definition TLC evaluates and TLAPS can
reason about. `WriteFails` keeps the request, whether it was applied, is
still on its way (`LateWrite`) or never arrives. `Restart` ends the HMI anywhere.

The history variables name the exceptions, all of them reachable: four requests
pending at once (`crowded`), a set point that expired before its confirmation, or
a request applied from a closed connection (`upset`), and a press applied with
nobody left who owes its release (`orphan`).

## 3. Runs

| run | instance | shows |
|---|---|---|
| `writes` | two buttons, or a set point and a force; three tries, one stale request; 719,714 states | `TypeOK`, `NoneForgotten`, `OneOutstanding`, `StuckIsExplained`, `DoneMeansWritten` and the refinement `ButtonSpec`, for every interleaving |
| `live` | two buttons, two tries; 19,017 states | `PressEnds`, whatever the link does; `ReleaseEnds`, once the link settles |
| `stuck` | one button | violation: a press that reached the regulator is given up and never taken back |
| `lockcycle` | two buttons | violation: a release is never written because both threads wait for each other |
| `readcycle` | a field variable and a bit string, two tries, two values; 1,534,688 states | `TypeOK`, `ImageFollows`, `WindowIsComplete`; no deadlock |
| `readcyclelive` | two variables, neither a field variable, two tries, two values; 216,360 states | `WindowAppears`, `PanelsSettle` |
| `unread` | as `readcycle` | violation: `allVarsUpdated` before a variable was stored |
| `server` | up to two connections, two retries, two error levels; 34,934 states | `TypeOK`, `Books`, `Quiet`, `PassIsOpen`, `ReportedOnce`, `ShutdownEnds`, `RequestIsRead` |
| `scan` | two instances: start, mode commands, a set point and its confirmation; trip, acknowledgement, outages, any alarms left over; 484,984 states | `TypeOK`, `NotOlder`, `ModeSettles`, `NoSilentOutage`, `AlarmsStay`, `OutageIsShown`; no deadlock |
| `field` | three instances: errors and life cycle; a pulse write and the shutdown; quality queries; 841,544 states | `TypeOK`, `ErrorsAgree`, `QualityHonest`, `PulseLatched`, `JoinEnds` and the refinement `SourceSpec` |
| `registers` | two words, three variables of which one is a field variable, as is one of the words; seven kinds of channels; 8,448 states | `TypeOK` and the refinement `VariablesSpec`; no deadlock |
| `queue` | two set points, seven requests, one late, one restart; 2,632,724 states | `InOrder`, `SetPointFirst`, `PressedIsOwed` |

`scan` and `field` have several instances: a variable of the MC module (`duty`,
`kind`), chosen at the start and never changed, says which one a behaviour is
of. In `writes` a constraint (`Apart`) keeps buttons and direct writes apart: one
of the two kinds of addresses is untouched. Theorems are about the modules
without either.

Why the bounds are enough. Buttons are independent but for the queue and the
mutexes, so two show every way one can disturb the other. Three tries (the
code's number) have a first, a middle and a last one; with two there is a first
and a last. Two heap cells are the most two buttons can need, since a button
never has two requests (`OneOutstanding`); `MaxDirect` bounds set points and
forces. One stale request is enough to overwrite any register at any time.
Two variables show a mark for one with a look at the other; a field variable has
a first and a last part; it is in the safety run only, its states with a second
variable being too many for a liveness check. Two connections reach the limit of masters, with one
more waiting; with one descriptor to spare beyond the server's and theirs, any of
them may be the highest when it closes, and be used again. The theorems remove most of these bounds.

In `scan` one set point of each kind is enough to be older or newer than the
initial one. The inputs of its two instances meet nowhere in the code but in
the order they are read in, so each takes its own; the theorems take all.

In `field` two modules are enough for one to be in error without the other, and
for all to be; two of the three kinds of devices are there, the third differs
from them in nothing the properties see. The pulse instance keeps the analog
device in order, the query instance leaves out slaves out of synchrony, and
only the pulse instance is shut down: the owner does one thing at a time, so
what it was doing then matters only for the mutexes it holds. Two words and three
variables have a first and a last place in every table; the channels are those
below, in and above the map and those that wrap. The field channels are 1, a word
of which `initMapping` clears the coil of the first variable, and 3, the first
variable, for which it clears that of the last. Among the three
qualities each of the two bits is once set without the other. In `queue` seven requests reach
a heap with two levels below the top, the smallest in which the order breaks (4)
and breaks again.

Deadlock is checked in the read cycle, the scan cycle and the register map. It
is switched off in the `CommandPath` configurations because the lock cycle is a
real deadlock of the code (found by `lockcycle`, named `LockCycle` in the
liveness properties); in those of `SlaveDrv` and `FieldDrv` because the program
ends there, or is locked out by its own signal handler (`LockedOut`); and in
`WriteQueue`, which stops when the operator's bounds are used up.

### Findings

1. `lockcycle`. `writeVarAsButton` and `processUncompletedWrites` hold
   `mtButtonWritesMtx` and want `mtDrvStateMutex`; the driver's callbacks hold
   the second and want the first.
2. `stuck`. A press whose replies are lost until it expires is erased
   (`RegImage.cpp:226-230`); nobody writes the 0 that `RegImage.h:72` promises.
3. `unread`. A variable is marked before it is stored
   (`ModbusMasterDrv.cpp:237-243`), so it may be counted and shown before it
   was read, against `RegImage.h:46`.

One more was met while modelling and is no run, because no line of the repository
says what the code should do: `initMapping` (`ModbusSlaveDrv.cpp:264-270`) uses the
channel of a field variable without taking `muiNumROInts` off it and without a test,
and writes outside `tab_bits` for configurations that break `FieldsAssumption`
(section 2, RegisterMap).

### Mutants

Every property of a passing run has a mutant in `PROJECT.json`: an operator,
marked *Mutant* in its module, that changes one definition as a plausible bug
would, and that TLC finds to violate the property. They are no part of any
specification.

## 4. Fairness

- Weak fairness of a thread that can go on: the operating system schedules both.
- Strong fairness of the GUI thread's acquisitions in `CommandPath`: the driver
  sleeps with `mtDrvStateMutex` released between its cycles (124, 156).
- Strong fairness of `UpdateImage`: a 20 ms timer, and a pass over the variables
  takes longer than that, so the timer finds the driver `Running` again and again.
- Strong fairness of `BeginWrite(p)` and `CleanExpired(p)` per request: no
  request stays behind others for ever. The heap grants it **while at most three
  requests are pending**; with four or more under a steady stream of new ones
  it does not, and the liveness results then do not apply. `InOrder` (run `queue`)
  shows the first half of this.
- In `ReadCycle` writes end at some time, so that the read cycle, which comes
  second in each iteration, is reached.
- In `SlaveDrv`, of the owner on `mtDrvStateMutex`: the driver releases it at the
  end of each iteration. POSIX mutexes do not promise it; it is an assumption.
- In `Scan`, of the main thread, and of the server's thread on its callback: it
  comes before the thread sleeps over the outage (126-129).
- Nothing is assumed of masters, of the link or of the operator. Properties that
  need a good link say so (`LinkSettles`).
- `FieldDrv`, `RegisterMap` and `WriteQueue` state no fairness: their properties
  are safety properties. The end of the shutdown of `FieldDrv` is stated as one
  (`JoinEnds`), because it does not always come: a signal on top of a critical
  section, or a notification that is missed, stops it.

## 5. Proofs

All theorems are for arbitrary constants under the named assumptions of the
modules, which TLC evaluates in the runs: disjoint address sets, a null pointer
that is no pointer, at least one try, 0 among the values, bit strings not among
the field variables, finitely many descriptors, fewer words and variables than a
`uint8_t` has values, field channels up to the number of variables, a number of tries of a slave that is a natural number. The
bounds of the runs (how many set points, requests, restarts) are any natural
numbers. One assumption is about configurations and may fail for a legal one:
`FieldsAssumption` of `RegisterMap`, field channels in `1..NumIOVars` (section 2).

**CommandPath.** The invariants `NoneForgotten` and `OneOutstanding` are not
inductive. `Ownership` adds `Shape` (which locals are alive at which control
point) and `DebtsMatch` (what is outstanding for a button is what the table it
is in says; this is what makes the callbacks, which only get an address, right).
`CommandPath_proofs` proves `TypeOK /\ Ownership`, with a lemma for each action
and conjunct. `CommandPath_refinement` adds `Delivery`: what is under way belongs
to the request being written or to one still pending, and the parts the driver
has done with are in place; `DoneMeansWritten` is an action property that follows.
With `ServedInPhase` in addition every step is a step of `Button` or a stutter
(`ImplementsButton`). `StuckIsExplained` is proved from the steps of `Button`, where
its invariant `StuckInv` takes a page, and carried down to the threads
(`StuckRegistersAreExplained`).

**ReadCycle.** `ImageFollows` needs `Marked`: between `Mark` and `Store` the mark
for the value in hand is in the set, taken, or its variable is known to have been
looked at too early. `WindowIsComplete` needs `Counted`, that marks are of variables
read before, and that a subset of `Vars` with as many elements is `Vars`.

**SlaveDrv.** `IInv` adds `Passing`: the owner holds `mtDrvStateMutex` only when
the driver is at a point without it, what a pass still has to do, and that
`comErrors = 0` exactly when nothing was reported. `Books` is proved through
`closeSockets`, whose loop runs up to `miFdmax` and so closes everything only
because `miFdmax` bounds every open descriptor.

**Scan**. `NotOlder` needs `InOrder`: set points in the registers only grow, so
what the confirmation was for is still a lower bound when the scan gets to the
set point, three inputs later, and that bound stays until the control uses it.
`AlarmsStay` needs `Published`: what masters read is what the alarm manager has,
but for what was acknowledged in this scan. `NoSilentOutage` is inductive; the
case that matters is `TakeFlag`, which hands the report over to `LookAtState`.

**RegisterMap.** `Tables` (every table has its registers and no others, each with a
part of a value) is inductive. `GetPut` and `GetOther` say what is read of a cell after it,
or another one, is written; `Bases` and `InputBases` that the cells of two channels
have no register in common, the time stamps lying behind all words; and
`MappedChannels` that the `uint8_t` arithmetic accepts exactly the channels the
master knows, because a channel that wraps gives a number above `NumIOVars`; this
is where `FitsAssumption` is needed. `Coils` says that what `initMapping` clears is
in the table, which is where `FieldsAssumption` is. `RegulatorStep` and `MasterStep` map each
access to one step of `Variables`. `TypeOK`, in which every answer is a value
and never `Garbage`, then follows from the type invariant of the abstract
variables (`Typed`).

**FieldDrv.** `IInv` says what the places of the two threads imply. `Locks`: who holds
`mtDrvStateMutex` has it alone, and the driver thread is in a cycle only while the
driver runs; with it `ErrorsAgree` is inductive. `Honesty`: a quality of `OK` that
`read` has in hand was true, or the state it has not looked at yet is `COMError`;
for `updateQState`, which looks at the two in the other order, what it will find was
true. `Edge`: where the set bit and the value are, in the image and in the terminal,
at each place of a pulse write that has met no accident. `Ending`: once the end is
announced the thread does not go to wait again, but for the notification it missed.
`ImplementsFieldSource` then maps each step to `Owner`, `Assess`, `Fail`, `Report`,
`Recover` or `Take` of `FieldSource`; that a report comes before anything else is
`thread = "report"` with the mutex held.

**WriteQueue.** First the pop, for a heap of any length. `PathInduction` says that
what holds at the root and is handed down holds along the path of the hole;
`PathEnds`, that it ends, is the pigeonhole principle on the finite set of its
places; `FromInjective`, that no two places get the same element. Hence
`PopTakesTheTop`: the pop takes the top and keeps every other request once.
`PopShort`: with three requests or fewer it also keeps their order. Then `IInv`:
`GivenOut` (no number or set point in the system is newer than the last one given
out) for `InOrder`; `Debts` (SPOK is in its table exactly if one request for it, or
the owed release, is there), which needs the pop to be a permutation, for
`PressedIsOwed`; and `Paired` for `SetPointFirst`: as long as nothing upset the
order, set points in the queue ascend, none is older than the register, and every
press, and the panel between its two calls, has its set point in the register or
before it in the queue (`Ahead`).

**Outages.** `ImplementsOutages` maps the server to the abstract one by its state and
by whether `calls` is positive. It needs that nothing is reported outside an outage,
that `start` finds the server stopped and the destructor finds it closed
(`Outing`). `ServesAsOutages` is the other side: the steps of the server in `Scan`
are steps of the same module.

Only model-checked: the liveness properties (`PressEnds`, `ReleaseEnds`,
`WindowAppears`, `PanelsSettle`, `ShutdownEnds`, `RequestIsRead`, `ModeSettles`,
`OutageIsShown`), because liveness under fairness is out of TLAPS' reach here, and the
three violations. Proved as well as checked: every safety property of the passing
runs, type invariants, action properties and refinements included. Proved, and
checked by TLC in no run of its own: the two theorems on `Outages`.

## 6. Not modelled, and the plan

What is left: the theorems end where liveness begins. What could carry more of it
into proofs are safety lemmas for the steps a liveness argument needs (that a
thread that waits has somebody who will wake it), of which `JoinEnds`, `NoneForgotten`
and `PressedIsOwed` are three.

What is not modelled, and why:

- **The field branches of `AlarmManager::checkDriverErrors` and `setFldStates`**
  (`AlarmManager.cpp:40-57`, `63-83`) and the decoder of the field words in
  `AlarmsWdg`. This build does not reach them: the start of the field driver is
  commented out (`main.cpp:53-58`), so its state stays `UnInit`, and `IOImage`
  maps no field address, so `getFldErrors` yields nothing. `FieldSource` is what
  they would build on; they are to be modelled when the driver is started.
- **`close()` and the destructor of `ModbusMasterDrv`**: `close` is never called, and
  the destructor only as the process ends. It is that of `EthercatDrv`, word for word
  in what concerns the wait, and `JoinEnds` is about it.
- **Qt presentation**: panels, alarm log, plots and their buffers
  (`RTMeasurer`, one mutex around a bounded list). The calls the panels make are
  the inputs of `CommandPath` and `WriteQueue`; no state of the system depends on
  the rest.
- **XML parsing**: sequential, once, before any thread runs.
- **Libraries** (libmodbus, SOEM, libxml2), modelled only by what the code uses
  of them and marked external in the map. Their headers are most of the
  repository's implementation lines (some 17,800 of 23,600; the governor's own
  code has 5,800, much of it widgets), so the share of all lines that the map
  covers stays low however much of the governor is modelled.

## 7. Running it

    tlc -workers 2 -config CommandPath_writes.cfg MCCommandPath
    tlapm CommandPath_proofs.tla

The configurations are named after their module, and after their run where a
module has several; `PROJECT.json` says which module each belongs to and what to
expect. The longest runs are `live` and `writes`, about 80 s each.
