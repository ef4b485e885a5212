# A verification project for Furnace

Furnace runs tenant-written *apps* against a guest virtual machine. An app never
touches the hypervisor: it talks over ZeroMQ to a *VMI partition* (a DRAKVUF
plugin) that reads the guest's memory, sets traps in it and reports what they
catch, and to a *Facilities partition* that stores data and reaches the tenant's
backend. Every partition runs under a syscall inspector.

This directory holds TLA+ modules translated from the source, configurations
that model-check them with TLC, and theorems about them that TLAPS checks. Lines
are given as `file:line`; `PROJECT.json` maps each definition to the lines it
stands for, and lists the hazards, the findings and the theorems.

## The system's parts

| part | code | state | operations | what makes it correct |
|---|---|---|---|---|
| App frontend, event side | `app_partition/furnace_frontend.py` (`FE`), `femain.py` | `eventlist`, `timerlist`, `next_tid`, `be_info`, the place of its one thread, `cleanup_eids`/`cleanup_tids` | `event_register`, `event_clear`, `start_syscall`, `stop_syscall`, `events_start/stop`, `pause_vm`, `resume_vm`, the main `loop`, `exit`, `shutdown` | its `eventlist` is what the VMI partition holds for it; each event reaches the callback it was registered for; each SYNC event is followed by one resume; ids it returned can be used |
| VMI partition, event side | `vmi_partition_drakvuf/furnace.cpp`, `furnace.h` | `events`, `events_active`, `syscall_plugin_*`; the guest's pause count in the hypervisor | the handlers of the calls above, `furnace_{cr3,int,syscall}_callback`, `process_zmq` | never crashes or aborts on a call; respects `max_events`; no app loses an event to another |
| ZeroMQ channels | both of the above | REQ/ROUTER pipe, DEALER pipe, the readiness of `ZMQ_FD` | send, receive, drop at the high-water mark, disconnect | a request that has arrived is read |
| Message pipeline | `furnace.cpp` `process_protobuf`, `process_single`, `process_link` | `msg_in`, `msg_out`, `cache`, `nth_type`, `nth_field_ix` | run the calls of one message in order, feed a field of an earlier reply to a later call, record errors | the value fed is the one the link names, and never one of another message or a later call; a failing call ends the message |
| Batches | `app_partition/batch_obj.py`, `FE` 441-591 | `request`, `namestack`, `namemap`, `state`, the bytes sent and received | `add`, `reset`, `serialize`, `parse`, `results`, `batch_send`, `batch` | the message sent means the links the app asked for; a result comes under its call's name |
| Memory calls | `furnace.cpp` 740-2980, 3193-3265, `FE` 351-437, 984-1799 | the frontend's one protobuf; the guest; the pause count | some 60 read, write, translate, list, lookup and getter calls, `pause_vm`, `resume_vm` | they give the app one memory, each call taking effect once; what it is shown of a guest it has paused stays true |
| Facilities partition | `facilities_partition/facilities.py` | `storage`, `disk_usage`, `io_id`, files, the messages in work | get, set, forwarding to and from the backend, shutdown | index, files and accounting agree however a write fails; a stored value is read back; nothing is forwarded twice or out of order |
| App frontend, Facilities side | `FE` 285-317, 604-735 | its thread, blocked or not | `notify`, `request`, `io_set`, `io_get`, the backend's callback | a call returns; what the backend sends is handed over in order |
| Policy writer | `syscall_inspector/policy_writer.py` | the lists that a policy file fills | `parse_policy`, `main` | what it writes means what the file says |
| Syscall inspector | `syscall_inspector/master_inspector.c` | `policy_level`, `last_pid`, `jmax`, the tracees | attach, continue, wait, switch the policy when a tracee opens `ESTABLISHED`, end | what goes ahead is listed at the level that looked at it; what an open block lists may be opened; no stopped tracee is forgotten |
| Mock VMI partition | `vmi_partition_mock/` | none between messages | an older server of the protocol, for tests without a hypervisor | one answer per message |

**How they interact.** An app is a single Python thread. Its calls go out on a
REQ socket and block it until the reply is there. Events arrive on a DEALER
socket that only the main loop reads. The VMI partition is a single thread too,
DRAKVUF's loop, which runs trap callbacks and, when the ROUTER's `ZMQ_FD` is
readable, `process_zmq`. All the apps share that one partition: one event map,
one `events_active` flag, one syscall plugin, one pause count. Each app has a
Facilities partition of its own, one thread again, which blocks in a request to the
backend as the app blocks in a request to it. Each partition's processes are the
tracees of one inspector, generated from a policy file at build time.

**What is hard.** Not the code of a handler, but what lies between two: an event
on its way while its id is cleared and reused, a registration accepted by one
process and not yet known to the other, a guest paused for an event whose app
dies, a wake-up consumed by a send, a write that stops between two statements, a
process that starts over the files of the one before, a list that changes while it is
walked, a stop that is reaped and not continued. None of this is in a unit test, and
the repository has none.

## The modules

| module | what it is |
|---|---|
| `EventBus` | the channels and the messages of `vmi.proto` the event system uses |
| `VmiEvents` | the event side of the VMI partition, and the guest as it sees it |
| `FrontendEvents` | class `FE`: the API's event calls, the main loop, the end of the process |
| `EventSystem` | all of them composed; every property; the inductive invariants |
| `MCEventSystem` | small instances for TLC |
| `LinkPipeline` | a message of several calls in the VMI partition: `process_protobuf`, `process_single`, `process_link` |
| `BatchObj` | the app's batch object and the frontend's `batch_send` and `batch` |
| `BatchSystem` | the two composed; their properties |
| `MCBatchSystem` | small instances for TLC |
| `KeyValueStore` | what a store of one value per key promises: the abstract specification of the Facilities store |
| `Facilities` | class `Facilities`: the packet in work, the store, the quota, the end of the process and the next one |
| `FacilitiesSystem` | app, Facilities partition and backend composed; their properties; the refinement of `KeyValueStore` |
| `MCFacilities` | small instances for TLC |
| `PolicyWriter` | `parse_policy` and `main` of `policy_writer.py`, and the compiler's verdict |
| `SyscallInspector` | the tracer of `master_inspector.c`, seccomp and the tracees, under the policy that `PolicyWriter` made; their properties |
| `MCSyscallInspector` | policy files and instances for TLC |
| `GuestMemory` | what the memory calls promise: one memory, each access at one moment of its call |
| `MemoryCalls` | the frontend's memory methods, the handlers behind them and the guest; their properties; the refinement of `GuestMemory` |
| `MCMemoryCalls` | a small instance for TLC |
| `BatchProofs` | six theorems about `BatchSystem`, from `Inv` and, for `RoundsCorrect`, `RoundsInv` |
| `EventSystemProofs` | `TypeCorrect` and `PluginCorrect`, from `TypeInv` |
| `EventRegistryProofs` | `RegistryCorrect` and `OwnerRemovesCorrect`, from `RegistryInv`; `OnlyClearCorrect`, from `TypeInv`; `CapacityCorrect` |
| `EventPauseProofs` | `PauseCoversCorrect` and `PauseCorrect`, from `PauseInv` |
| `FacilitiesProofs` | the store: four theorems from `TypeInv`, `IndexInv`, `QuotaInv` and `ChargeInv`; the refinement of `KeyValueStore` |
| `BrokerProofs` | the broker: three theorems, from `BrokerInv` |
| `SyscallInspectorProofs` | three theorems about inspector and policy writer, from `InspectorInv` |
| `MemoryProofs` | `MemoryTypeCorrect` and `PausedViewCorrect`, from `Inv`; the refinement of `GuestMemory` |

### How the modules correspond to the code

*EventBus.* A call is a record in `req[a]` with `stage[a]` going from `idle` to
`sent` (`send_default_reply` up to `recv`), `replied` (`zmq_msend`) and back to
`idle` (`recv` returns). A record also carries the local variables of the blocked
caller that it needs afterwards, such as the callback. `dealer[a]` is the DEALER
queue. The `cb` of an event message is a history variable: the wire carries the
id only, and `cb` remembers for which callback the trap that fired was
registered. `zmqfd` is what DRAKVUF's poll sees of the ROUTER. `ZMQ_FD` is edge-triggered, and a send
on the socket may consume the edge: `PushEvent` may leave `zmqfd` idle with a request
unread (`Unwoken`), which nobody reads before another message arrives.

*VmiEvents.* One action per handler; the `assert` of `process_stop_syscall` is the step of
`StopSyscall` that takes `vmiUp` down. Because one thread runs handlers and
callbacks, each is atomic; the `drakvuf_pause`/`drakvuf_resume` pair that a
handler puts around its own work nets to nothing and is left out. A failure of
DRAKVUF to add a trap is the third disjunct of `EventRegister`. Outside this
repository, and modelled from how `furnace.cpp` uses it: the hypervisor's pause
count (a resume at 0 does nothing); a vCPU that runs into a trap while the guest
runs and whose event is delivered later; the removal of a trap, which cancels its
undelivered event; a NULL trap, which crashes the process (`vmiUp`).

*FrontendEvents.* `pc[a]` is where the thread is: in app code (`init`, `event`,
`be`, `timer`, `shutdown`) or in the loop (`poll`, `resume` for the `finally`
clause, `fac`, `scan`, `sweep`). In app code any call the configuration permits
may be made, at most `MaxCalls` of them per visit. The kinds of call separate
what a careful app does from what a careless one does: `clear` an active trap or
`clear_stale` an entry already inactive, `clear_syscall` the plugin's id,
`clear_timer` a tid, `stop` the plugin or `stop_stale` something else. The scan
is a step of its own before the timer callbacks, and the deletion one after them,
as in `loop`. An exception that escapes app code and `exit()` unwind in the same
way (`AppExit`). `Killed` is the default action of a signal: `FurnaceRuntime` has a
`signal_handler`, but the two lines that would install it are comments
(`furnace_runtime.py:51`). An app that calls
`shutdown()` by itself closes the sockets and is from then on what `Killed` makes
of it.

*EventSystem.* `Next` interleaves the VMI partition serving an app, an app's loop,
an app's code, trap callbacks and the guest.

*LinkPipeline.* One step is one iteration of `process_protobuf`'s loop. A call type
is its number in `vmi.proto`, because `process_link` depends on the order of the
fields; a reply's number is its call's plus one, which keeps the order, and so one
set of types serves for both. What is a repeated field, has a link, looks at it or
has a handler at all is a constant, as are the kinds of the fields of each request
and reply. A value is abstracted to where it was read from: `fed[k]` says which field
of which reply went into the k-th call, `Zero` that `prior_result` kept its initial
0, `Unlinked` that no link was followed, and `turn` in it tells this message from
the one before. `Target` is `process_link`'s second loop: the reply whose place in
its field, added to the number of fields above (`d`), is the current call's own place
among its type. `Abort` is protobuf's reflection ending the process, on `FieldSize`
of a field that is not repeated or on a descriptor past the last.

*BatchObj.* One action per method. `Add` is an `add()` that succeeds, with every link
the object's names allow; `AddRaises` one that raises after it has put its type into
the request. `labels` is history: what the app called each call, against
`namestack`, which is what the object remembers. `parse()` fills `reply` before it
compares anything and may raise after that; `Results` is `results()`, which parses in
state `RESULTS_RAW` and in no other, and hands out (`given`) whatever `reply` holds, up to
a reply for which there is no name. `fresh` in it says whether the object has been left
alone since `batch_send`. `ArrayReturns` is `process_batch_results`, whose comparison of
lengths is of one with itself. The frontend blocks in `batch_send` and in `batch`
(`waiting`), so the app and the VMI partition alternate; what can go wrong lies in long
sequences of legal calls and in the shapes of a message.

*Facilities.* One step is one packet taken by `loop`, one call of a packet, or the end
of the process. `SetEffect(k, v, n, w)` is `process_set` after `n` of the eight
statements of its `try`, with `w` bytes written: a write that succeeds is `n = 8`, and
one that the bare `except` catches (a full disk, a missing file, Ctrl-C) is any `n` of
`Faults` that `StopsAt` allows. What no handler catches ends the process (`GoDown`): a
bad name in a SET (`Set_ret` has no field `value`), a GET of a key or file that is not
there (`KeyError`, not the `IndexError` that is handled), text cut in the middle of a
character, and the answer to any sync packet (`EndPacket`). `shutdown` then removes the
files in the order of their numbers up to the first that is missing, or does not get to
run. The next process numbers from 0 in the same directory. `fmsg_out` is cleared
before each packet in the code and after it here, which comes to the same. `onDisk`
and `exact` are history: the bytes this process has on the disk, and whether none of
the three events has happened that `disk_usage` misses (a write that stops between the
subtraction and the removal, one that replaces a file of an earlier process, a value
with more bytes than characters).

*FacilitiesSystem.* Messages carry the numbers in which they were sent, so that order
and repetition show. `Post` sends any other packet on the DEALER socket, since the
partition tells calls apart by type only. The first sync request that is answered ends
the partition, so the lines of `request`, `io_set` and `io_get` after `recv()` are never
reached and are not modelled; the store is exercised through such async packets. When
a process ends, `PipesBreak` loses a part of what was in its pipes. The backend, and
ZeroMQ, are external.

*PolicyWriter.* One step is one line of the policy file, a block taken up to its brace
at once. The locals that are bound only on some paths (`out`, `path`, `open_dict`) are
in `bound`. `1 TRACE open` is taken by the branch for open blocks: `MapOpen` enters it, and
`BlockLine` is what the block makes of each line of the file up to the next brace. A line
without a colon adds the entry before it once more, or raises when there has been none. `Generate` is `main` and the compiler: a file that leads to a Python
exception or to C++ that does not compile gives no inspector.

*SyscallInspector.* `Starts` is the fork up to the first stop. `pc` of the tracer is at
the `PTRACE_CONT` or in `waitpid`; a tracee runs, is stopped and not reaped (`stopped`),
reaped (`held`), let go ahead with its call (`granted`), or dead and not reaped. What
`waitpid` reports next is any of those. A call with both an ALLOW and an A TRACE rule
may pass or stop. Opening `ESTABLISHED` raises `level`. The kernel's side of ptrace and
the partition's program are external. `WaitVanished` is a tracee killed after it was
reaped. `WaitUnreadable` is a pointer that
`read_reg_string` cannot follow, which ends the tracer. The model shows what a reader of
the policy would not expect: since `1 TRACE open` never gets into the map, the tracer ends
at the first open it looks at after the switch, and neither the tests of an open block nor
those of TEST_ARGS are reached. In the shipped `app.policy` the line `0 TRACE open RDI_PTR`
is of a form the parser does not know, so that `open` has no rule of its own there.

*MemoryCalls.* A place is a physical address, a virtual one (with its process) or a
symbol, and holds one word; a call is its type up to the width. Where a call reads many
bytes its result may be cut short at the end of the mapping, and is given to the app
all the same, or be torn by a guest that writes meanwhile (`Scrap`: bytes of no one moment). `Begin` is a method up
to `recv()`: it clears the frontend's one protobuf, fills in a part, and sends it, or
raises with the part left behind (`fit` is FALSE of such calls: `read_ksym` and
`get_winver` always, the others on arguments that protobuf refuses). `Return` takes the
result from the first part of the reply without a look at its status, so a failed read
gives 0 or an empty string, except in `process_list`, which raises; `read_str_pa` and
`read_str_ksym` call `int()` on a text (`Digits` are the words that survive it). The
handlers of the partition are one step each but for `process_process_list`, whose walk
through the guest's list is one step per entry, the guest running between them. A name
that cannot be read, there and in `process_read_str_pa`, is a NULL given to protobuf,
which ends the partition. The guest writes, maps, links, unlinks and frees while Xen's
count of pauses is 0. `resume_vm` gives back one pause, whoever's it was; `owed` and
`balanced` are history, an app's own pauses and whether every resume so far was of one.

*KeyValueStore, GuestMemory.* The abstract specifications, written for the caller. In
the first a write that is answered with success is what the key holds; one that fails
may leave the old value, the new one, none, or a damaged one, and touches no other key;
an end of the process empties the store. `ImplementsStore` maps index and files to it.
In the second an app's call
(`Ask`) takes effect once, at one moment before its return or after the app's death: `Load`
gives what the place holds then, `Store` changes the one cell behind the place and nothing
else, `Hold` counts a pause up or down. The guest changes memory and mapping in steps of
its own and only while it is not paused, never a symbol's place and never an address with no
memory behind it. An unmapped place reads as the default. `ImplementsMemory` maps the
partition's unserved message to `op` and replies and results to `seen`.

## What is checked

Every passing run was chosen for a question, and its constants so that the
question can be answered either way: each of its properties is broken by a small
mutant of the code's model (`PROJECT.json`, "mutants").

| run | instance | shows |
|---|---|---|
| `twoapps` | two apps that register one callback each, SYNC or ASYNC, clear, start and stop the syscall plugin, exit or raise, get killed; two ids, one vCPU | `PauseBalance`: the pause count is at all times at least the resumes still to come, and exactly that while no app has died. `RegistryAgreement`: map and eventlists agree except for the call in flight. `OnlyOwnerRemoves`: an event leaves the map only when a call of its owner's that names it is served, ids being reused at once |
| `oneapp` | one app, the syscall plugin, a timer, the backend's callback, two vCPUs; fairness | `PauseBalance` and `RegistryAgreement` again, with an event pending on each vCPU. `GuestResumes`: a paused guest runs again, unless a request stays unread for ever |
| `wild` | one app that does everything wrong (stale ids, tids as eids, the plugin's id cleared, timer callbacks that register, pauses of its own), messages dropped, wake-ups lost, three ids | `PluginAgreement`: the plugin's event stays in the map. `OnlyClearEndsVmi`: one call ends the partition, `event_clear` of the running plugin's id. `EventCapacity`: at most `max_events + 1` events. `TypeOK` |
| `batches` | a batch object of two calls and two names, one type without a handler among them, filled, sent, read and reset in any order; messages of up to seven calls and one too long, with links to every place and field, past the end included | `FedFromEarlier`: whatever the link, a call is fed only a number from a reply to an earlier call of the same message, of the type the link names. `RoundsFedAsLinked`: a batch of the documented shape feeds the very field each link names. `ResultsNamed`: a result comes under the name of its call, unless an `add()` raised. `ResultsWhole`: what `results()` yields after `batch_send` is one result for each call, or it raises. `ErrorEndsMessage`: the replies are those before the first failure. `TypeOK` |
| `store` | two keys, a value of two letters and one of a letter with two bytes, room for one of them, a write stopped after any of six of its statements, a process that ends at any moment and starts again | `IndexSound`: no two keys share a file, the next number is free, every file of the process is named. `DiskCharged`, `QuotaHonoured`: what is on the disk is what was charged, and within `MAX_DISK_USAGE`, unless one of the three events above has happened. `ImplementsStore`. `TypeOK` |
| `broker` | two notifications or requests up, two messages down, a ROUTER that holds one; app and partition each end and start again; fairness | `NotificationsInOrder`, `RequestsOnce`: what the app sends is passed on in order and at most once. `DeliveredInOrder`: so is what the backend sends. `NotificationsLeave`: the partition goes on reading, as long as the backend answers |
| `inspector` | every subsequence of a policy in the shape of `app.policy`, and twelve odd files; two tracees; fairness of the tracer | `GrantsListed`: what the tracer lets go ahead has its A TRACE line, and its 1 TRACE line at level 1. `HeldIsNext`, `StopsAnswered`: no stopped tracee is left behind. `TypeOK` |
| `memory` | two apps, two addresses with memory and one without, a virtual one, a symbol, a task, a value too wide for its word | `ImplementsMemory`. `PausedView`: a list or translation shown to an app that holds a pause is how the guest stands, as long as no app gives back a pause it does not hold. `TypeOK`: words keep their width |
| `registeredid`, `linkfed`, `request`, `openlisted` | the smallest instance that shows it | four places where the code does other than its documentation says, see below |

`CHECK_DEADLOCK FALSE` stands in the configurations in which the system really may
stop: all the apps may have ended, or a partition may be gone, with an app blocked in `recv()`,
or the bounds on calls are used up.

**Bounds, and why they are enough.** `MaxId` is 1 with `MaxEvents` 1: two ids, the
trap's and the plugin's, so that an id is cleared and reused within a few steps
and every collision is between the two kinds of event or two apps. In `wild` it is
2 so that the map could hold more than `max_events + 1` if the code let it.
`Hwm` and `QueueBound` bound the DEALER queue: where `PauseBalance` is checked the
queue is not allowed to reach the high-water mark, in `wild` it is (`Hwm` 1).
`MaxCalls` bounds the calls of one visit to app code (one visit follows another
without end); `MaxTid` the timers of one app; `PauseBound` the explicit pauses.
In `batches`, `MaxBatch` 2 is enough for a batch object to be sent, grown, read and reset with a
name or a reply left over from before, since each of these shows at the first or
second call; the longer messages come from `batch`, which takes any array. Of them
`Rounds` holds three rounds of `batch_obj.py`'s example, with and without a call
before it, and `MaxTypes` is 10 in place of 1000 so that one message exceeds it. A
batch object never does there; that its empty answer is not taken for results is in the
theorem.
The theorems hold for every value of all of these.
`store` needs two keys for a shared file and a number for each of three writes, so that
one is replaced and another one follows a restart (`MaxIo` 3, `MaxRuns` 2); `Faults`
leaves out only stops whose effect another of them has. `broker` needs two messages
each way for an order, and two runs of each process. Two tracees are enough for one to
be reaped while the other is stopped, `MaxCalls` 4 for a clone, a switch and a call on
each side of it; `JMax` is 1 in place of 10 so that it is exceeded. In `memory`
`MaxCalls` 2 lets a call follow one that raised, a list follow a pause, and a resume follow
a pause of the other app; one task is enough for it to be unlinked, freed and linked again
during a walk, and what several of them may do to a walk is in the theorem. The guest has
no bound.

**Fairness.** The frontends' threads run and the code of an app returns; the VMI
partition's thread reads the ROUTER until it is empty, which fair-queues its
peers, and delivers pending trap events. That is weak fairness on `Loop(a)`,
`Serve(a)` and `Callback(v)`. Nothing makes an app call anything, an app end or
the guest run into a trap. `Serve(a)` is enabled only when `zmqfd` says so, so a request
whose edge was consumed is not served by fairness. In `broker` the partition's loop polls
all its sockets and serves each that is ready, and the backend answers, which nothing in
this repository makes it do; nothing makes a process stop or start. In `inspector` the
tracer alone is fair, a single loop that blocks only in `waitpid`; that one tracee is not
passed over for ever by `waitpid(-1)` is not assumed but follows there from the bound on the
calls (`MaxCalls`), and a tracee that died with the tracer counts as answered.

**Discipline.** `RegistryAgreement` and `OnlyOwnerRemoves` do not hold of every
app. They hold of apps that obey `Discipline`, which is a condition on the
constants only: clear and stop only what is active in the eventlist, stop the
plugin by `stop_syscall`, pass no tid to `event_clear`, register no VMI event from
a timer callback. The API's documentation asks for none of this. `registeredid` shows
the last clause to be needed; that `event_clear` of the id `start_syscall` returned
hands a NULL trap to DRAKVUF (`furnace.cpp:831`, `3141`) shows the second. The properties
of `wild` hold of every app.

The properties with a condition of their own say so in their formula: `PausedView` while no
app has resumed the guest without a pause of its own, which nothing in the code prevents;
`GuestResumes` unless a request stays unread; `ResultsNamed` unless an `add()` raised;
`ResultsWhole` of what is read before the object is used again.

### Where the code and its documentation part

* `registeredid`: the ids to be cleaned up are collected before the timer callbacks
  and deleted after them, although a callback may have been given one of them anew.
* `linkfed`: `process_link` finds the type of the reply by the link and its place by
  the current call's own: a `READ_32_VA` linked to the one before it finds nothing, and
  goes on with 0 and no error. `RoundsFedAsLinked` says for which shape of batch, the
  documented one, the two agree.
* `request`: to answer a sync packet the Facilities loop calls `encode()` on bytes. What
  was asked has been done by then; the partition ends, the app blocks for good.
* `openlisted`: a policy's open block lists paths that "pass", but `1 TRACE open` never gets
  into the map that the tracer looks at first: at level 1 it ends the partition on an open
  of a listed path.

Seen on the way, in the models' steps but without a run of their own:

* `event_clear` of the id that `start_syscall` returned, which its docstring
  (`furnace_frontend.py:933`) offers, ends the VMI partition for every app.
* A send on the ROUTER may consume the edge that announces a request, and its app stays in
  `recv()`, although `send_default_reply` "block[s] until a response is returned".
* `results()` parses only in state `RESULTS_RAW`: after another `add()` or `serialize()` it
  yields an older reply, or one that `parse()` has refused, although parsing "will happen
  automatically if needed" (`batch_obj.py:197`).
* After an `add()` that raised, every later result comes under the next call's name.
* `process_batch_results` compares a length with itself (`furnace_frontend.py:528`), in
  spite of its note 0: an array of more than 1000 calls returns `{}`.
* A call with an `A TRACE` line and an `A TEST_ARGS` block gets no seccomp rule and is
  killed, although an `A` line is to apply "regardless of policy level"
  (`policy_writer.py:116`).
* A guest that links tasks for ever may keep `process_process_list` from its end.
* `furnace_syscall_callback` does not look at `events_active`; an event still queued when
  its id is cleared and reused goes to the callback of the new event; the tenant's own disk
  quota (`facilities.py:87`) is read and never compared with anything.

## What is proved

Every safety invariant and every action property that a passing run checks is also a
theorem about `Spec`, and so are both refinements: the runs show them on a small
instance, the theorems for all values of the constants that satisfy the assumptions
named in the modules. These say that the bounds are naturals, that what an app is
allowed to call is a call, that a table has an entry for each type, that markers such as
`Absent` or `"signal"` are not values or calls. Those that say more, each because the
code does: an app sends no `BE_MSG` by itself, only `notify` does (`SystemAssumption`); a
value has at least as many bytes as characters (`FacAssumption`); a message type has
a handler that follows links only if it has a link field (`PipelineAssumption`); the map
of events has room for one (`VmiAssumption`); and the guest has finitely many tasks
(`MemoryAssumption`). A bound stands in `FrontendAssumption`: the timers' ids stay within
the range of the events' (`MaxTid <= MaxId + 1`).

### The event system

* `TypeCorrect` and `PluginCorrect`, from the inductive invariant `TypeInv`. Types
  alone are not inductive: that `events[pending[v]]` is a record with an owner needs
  `PendingArmed` (a pending trap is armed, because removal cancels it), which for the
  plugin needs `PluginAgreement`; that an answered removal finds its entry in the
  eventlist needs `CallsInFlight`, which needs `ConnectedAlive`.
* `RegistryCorrect` and `OwnerRemovesCorrect`, from the inductive invariant `RegistryInv`, under `Discipline`. `RegistryAgreement` alone is not inductive.
  `RemovalsOwn` says that a removal waiting to be served names an event of the app
  that asked, even after that app has died (the request may have left its
  outgoing pipe). `AnswersHold` says what has happened in the map when an answer is
  on its way. `CleanupInactive` says that what is about to be deleted from the
  eventlist stays INACTIVE until it is: this is what a registration in a timer
  callback would break. `ResumeInFlight` says that nothing but the `finally` clause's
  own call is in flight there.
* `OnlyClearCorrect`, from `TypeInv`, for any apps: `PluginAgreement` keeps the assert of
  `process_stop_syscall` from failing, and says that the one event without a trap is the
  plugin's.
* `CapacityCorrect`, from `TrapCapacity` (the traps alone respect `max_events`) and
  `PluginAgreement` (there is at most one other event).
* `PauseCoversCorrect` and `PauseCorrect`, from `PauseInv`. The first needs of the apps
  only that they do not call `resume_vm` themselves (`NoResumes`); apps may die and
  messages may be dropped at any moment. The second also needs `NoPauses` and that no queue
  overflows (`NoDrops`), as in the runs that check it. `Owed` is not inductive, because an
  app that dies takes its events with it but not the `resume_vm` that it has already
  sent: `Due` counts that one too, and with it the pause count is at least the number
  of resumes still to come, and exactly that while all apps live. `HeldPlaces` says
  that `guest_paused` is set only where the `finally` clause is still ahead, and that a
  `resume_vm` in flight is that clause's. Each step adds one element to the finite set
  `Due`, takes one out, moves one (an event read from the queue) or renumbers a queue.

The event proofs have one lemma per kind of step and split it by the conjuncts that the
step can disturb. Steps that touch neither the map nor an eventlist are handled once
(`RegistryFrame`, `NeutralReply`).

### Messages and batches

* `BatchTypeCorrect`, `FedCorrect`, `ErrorEndsCorrect`, `NamesCorrect` and
  `ResultsCorrect`, all from the inductive invariant `Inv` of `BatchProofs`, for any
  call types, field kinds, names and messages. `FedFromEarlier` alone is not inductive, since
  a cached result is fed later: `CacheGiven` says of every entry of the cache what
  `FedFromEarlier` says of what was fed, and `Progress` ties replies to calls.
  `ResultsNamed` and `ResultsWhole` need that what was sent, received and parsed begins the
  request as it has grown since (`Begins`, `AnswersRequest`), that in state
  `RESULTS_PARSED` the reply is still the one received, and, of what has been handed out,
  `GivenInv`: that it was right at that moment, and the object has not changed since.
* `RoundsCorrect`, for any number of rounds, of calls in a round and of links among
  them. `process_link` never computes which reply a link names: it stops at the reply
  whose place in its field, plus the number of fields above, is the current call's place
  among its type. The lemmas on rounds show why that works for the documented shape: a
  call's index among its type is its round (`RoundIndex`, a bijection between the rounds
  before and the calls of that type), the call a link names has an index one less
  (`RoundNamed`), and just one field is above it (`RoundDepth`), so one reply fits and
  it is the one named (`TargetInRounds`). The search state persists between calls, so
  `RoundsInv` also says that it is never past what a later link needs (`Ahead`) and
  that the cache holds under each place just what a link to that place names
  (`CacheExact`).

### Facilities

* `FacilitiesTypeCorrect`, from `TypeInv`: a process that is down has no index, a sync
  packet has at most one call, a broadcast has a message.
* `FacilitiesIndexSound`, for a write stopped after any statement, any number of
  packets, processes and restarts over the files of the one before.
* `FacilitiesQuota`, from the types and `QuotaHonoured` itself, for any sizes and quota.
* `FacilitiesDiskCharged`, from `ChargeInv`. What is on the disk is a sum over files; as the
  size of a finite set with one element per byte written (`BytesWritten`) it can be
  reasoned about without an induction, since a write adds or takes out the block of one
  file. It needs `IndexSound`: had two keys one file, replacing one would uncharge both.
* `FacilitiesImplementsStore`: `Init` maps to the store's, each call of a packet to one
  operation on its key with the answer given, the end of the process to the loss of
  everything, and every other step to a stutter. That a write touches no other key is
  `IndexSound` again.
* `BrokerNotificationsInOrder`, `BrokerRequestsOnce` and `BrokerDeliveredInOrder`, from
  `BrokerInv`. Each way through the partition is a `Line`: the number that left it last,
  the numbers in the partition's hands, those in packets on their way, and the last one
  given out, all in order. What can happen to a line is that a number is added at its
  end, the first packet is taken in hand, a number leaves, or any part is lost; one
  lemma for each serves the four lines: notifications and requests going up, the
  backend's messages to one app and its broadcasts coming down.

### The syscall inspector

* `InspectorTypeCorrect`, `GrantsCorrect` and `HeldCorrect`, from `InspectorInv`, for any
  policy file, any calls and any number of tracees. `ListsRead` carries what the parser
  established into the running inspector (a call in a list has its line, `open` is never
  in the map) and `StopsTraced` says of each tracee that is stopped or let go ahead that
  its call was listed where it was looked at.

### Memory calls

* `MemoryTypeCorrect` and `PausedViewCorrect`, from `Inv` of `MemoryProofs`, for any number of
  apps, addresses and tasks. `DialogueInv` says that a message holds the one call that its app
  is in, and a reply no part or one of that call's type, which is why a result taken
  from the first part, without a look at its status, is the right one. `TicketInv` holds
  the pause count against the pauses of all the apps: it is at least their number,
  so the guest stands still while one of them is in force, whatever the
  others give back, as long as nobody gives back more (`balanced`). `RingInv` says that the
  task list is one chain, and `WalkInv` that a walk under a pause of its app has read the
  first `k` of its entries and stands at the next.
* `MemoryImplemented`: `Begin` is the abstract memory's `Ask`, a handler's read, write, pause
  or resume its `Load`, `Store` or `Hold` at that moment, `Return` and the steps of a walk
  stutters, `AppDies` its `Forget`, and the steps of the guest are the abstract guest's. That
  what is served is the call the app is in, and nothing left from one before, is
  `DialogueInv`. Symbols stay where they are and addresses without memory stay so, which
  is what keeps a `Store` from reaching anything but one cell.

### Only model-checked

`GuestResumes`, `NotificationsLeave` and `StopsAnswered` are liveness under fairness, which
is outside the reach of the proof system. The four disagreements with the documentation are
counterexamples, which TLC finds.

## What is not modelled, and the plan

Modelled: the event system, the message pipeline and batches, Facilities with both its
neighbours, the policy writer and the inspector, the memory calls. What is left:

1. *An abstract event registry*: what the event API promises an app, and `EventSystem`
   shown to implement it under `Discipline`.
2. The values in the message pipeline (the operator's arithmetic and its width).

The mock partition answers each message from a table or from LibVMI, with no links, no
events and no state between messages: there is nothing in it for a property to be about.

Left out for good: which bytes a torn or short read gives,
the order of the bytes of a word and of event registers (data
that no property looks at), `start_vmifs` and `stop_vmifs`, which run another program, the
syscall plugin's tables and printing, the authentication of sockets, logging, build patches,
shell functions, examples and tenant data.
