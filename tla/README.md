# Formal models of BBB_Linux

BBB_Linux is a collection of C programs for the BeagleBone Black: one larger
project (a routing table manager with a server and clients), demonstrations of
threads and their synchronisation, IPC exercises, and kernel modules. This
directory holds TLA+ models of the parts that have concurrency, failures or
protocols of their own, TLC configurations that check them on small instances,
and TLAPS proofs for instances of any size. `PROJECT.json` lists components, runs,
theorems, findings and hazards, and maps every definition to the lines it stands for.

## 1. Inventory

| Component | State | Operations | Interaction |
|---|---|---|---|
| Routing server (`Project/Routing_Table/server.c`, `common.c`, `common_mac.c`) | two linked lists `head`, `head_mac`; `monitor_fd_set`, `client_pid_set` (32 slots each) | accept and send tables; console commands C U D S F Q; prompt for the IP of a MAC address; broadcast; FLUSH; read pids; SIGINT handler | stream sockets to the clients, `kill(pid, SIGUSR1)`, shared memory |
| Routing client (`client.c`) | its own `head`, `head_mac`, socket, pid | connect, write pid, install handlers, read and apply requests, SIGUSR1 and SIGINT handlers | the above, from the other side |
| Lists (`common.c`, `common_mac.c`) | linked lists of `data_info_t` and `mac_list_t` | append, update in place, delete, flush, duplicate checks | called by server, client and the signal handlers |
| Parser and wire text (`common.c`) | stack buffers | `check_format_input_string`, `send_*_to_newly_client` | the same bytes are parsed at the server and at each client |
| IP of a MAC address (`common_mac.c`) | one POSIX shared-memory object per address | store, update (`O_TRUNC`, `ftruncate`, write), get, show | mapped by all processes |
| Dining philosophers (`Thread_sync/Dining_philosopher`) | per spoon: mutex, condition variable, `is_used`, `phil` | `phil_access_both_spoon`, `phil_eat`, `phil_release_both_spoon` | five threads |
| Producer/consumer (`Thread_sync/CV`) | ring queue, one mutex, one condition variable | enqueue, deque, callbacks of three producers and three consumers | six threads and a joining main |
| PCD driver (`PCD_multiple_devices/pcd_mul_devs.c`) | `pcdrv_data`, cdevs, device nodes, class, region; `f_pos` of open files | init, exit, open, release, read, write, lseek | kernel registries, tasks that share files |
| PCD app (`PCD_multiple_devices/app.c`) | none | open, write, lseek, read of one device | a sequential user of the PCD driver |
| Single PCD (`PCD/pcd.c`) | device number, one cdev, class, node | init, exit, and the file operations of the PCD driver | shares the class name `pcd_class` with the platform driver |
| Platform driver (`Platform_device`) | per-device private data, class, region, `total_devices`, `device_pcd` | probe, remove, init, exit; the setup module's init and exit | two modules loaded in either order, the platform bus between them |
| LED misc device (`Character/misc_dev.c`) | `g_timer_data`, the timers of its `timer_config`s, GPIO | open, read, write, ioctl, timer callback | tasks without a lock, and the timer softirq |
| TCP and UNIX-domain sum servers and clients (`IPC_udm/Socket`) | `monitor_fd_set`, `client_response` | select, accept, add up, answer and close | stream sockets |
| Mutex demonstration (`Thread_sync/mutex`) | an array, a mutex | sum, swap, destroy | two threads, main |
| Thread exercises (`Helloworld`, `JoinableDetachThread`, `Multi_Threading`) | counters, files | create, join, count, write | few threads each |
| IPC exercises (`IPC`, `IPC_udm/Message_Queues`, `Shared_Memory`, `Signals`) | one kernel object each | one system call each | two processes |
| Kernel exercises (`HelloWorld_kernelmodule`, `Device_tree`) | a timer, an interrupt line | init, exit, handler | |
| File exercises, `container_of`, notes | files | sequential | none |

The hard behaviours: server and clients are processes that die at any point, and
signals cut into system calls and list surgery; FLUSH travels by signal and may
overtake requests on the socket; a broadcast is a loop of blocking writes; stream
sockets merge messages; the pid arrays confuse connect, disconnect and end of
file. In the thread programs: lock order, condition variables shared by two kinds
of waiters, a release without a signal. In the drivers: error paths that undo
too little, calls that race on a file's position or on a shared pointer, objects
freed under those who use them, modules that come and go in any order, two probes
at a time that share the driver's data.

What makes each component correct: copies that follow the server's tables and
slot arrays that stay sound (routing); only well-formed lines get into the tables
and their text reproduces them (parser); assertions, no lost wakeup, no deadlock
but the known one (philosophers, queue); FIFO order (queue); accesses in bounds,
an open file that holds its module, and nothing left behind (PCD); balanced
registration, and every device bound whatever the order of the loads (platform
driver, single PCD); no use of a timer or a pointer that is not set up (LED); each
client is told the sum of its own numbers, and a server outlives its clients (sum
servers).

## 2. Modules

| Module | Models | Notes |
|---|---|---|
| `FdSet` | the slot loops of `common.c:22-126` | first free slot, first match, silently full |
| `RoutingTable`, `MacTable` | the lists | tables are sequences of records; `HasKey` has the off-by-one of `common.c:256` |
| `Replica` | requests, `Apply` (the switch of a client), `Snapshot` (what a new client is sent) | shared by `RtSync`, `Console`, `ReplicatedTable` |
| `InputLine` | `check_format_input_string`, the IP, mask and OIF checks, the text of table entries | tokens of a vocabulary; per word: letter, dotted fields, length, `atoi`, MAC form, and how a field of 16 bytes cuts it. A line's last word may carry the newline, and a blank before it leaves the newline as a word of no characters |
| `Console` + `MCConsole` | server console without clients | `Stacks` is what memory that nobody wrote may hold |
| `RtSync` + `MCRtSync` | server and clients, one action per system call | the core model |
| `ReplicatedTable` | what the server promises | abstract: an update reaches all members' queues at once |
| `DiningPhil` | `dnphil.c` | a critical section that blocks nowhere is one step |
| `RingQueue`, `ProCon` + `MCProCon` | `queue.c`, `pro_con.c` | |
| `Fifo` | what the queue promises | abstract bounded buffer of numbered items |
| `Pcd` + `MCPcd` | `pcd_mul_devs.c` | init one kernel call at a time; a file operation is two steps |
| `CharDev` | major numbers, class name, cdevs, nodes and open files, as the two modules below use them | |
| `PcdSingle` | init and exit of `pcd.c` | one action per kernel call; the `goto` labels are operators of their own |
| `PlatformDriver` | `pcd_platform_driver.c`, `pcd_platform_setup.c` | both loops (the bus walk, the setup's registrations) one device at a time, a probe in five steps, a remove in three |
| `CharModules` + `MCCharModules` | both modules, the setup module and the tasks that open files | composes the three modules above |
| `MiscLed` + `MCMiscLed` | `misc_dev.c` | `ioctl` and `write` are cut where they read `g_timer_data` again |
| `SumServer` + `MCSumServer` | `TCP_server.c`, `server_mplexing.c`, `server.c` and their clients | `kind` is which of the three; over the array of `FdSet` |
| `*_proofs` | theorems and lemmas, one module per component | the few lemmas about slot loops and least elements that two of them need are stated in each |

### RtSync in more detail

`pc` is where the server process is: in `select`, sending tables (`sendtab`), at
the IP prompt, between truncating and writing a shared-memory object (`store`),
in the loop of the broadcast, of the kills or of the readable clients (`todo`
holds the slots the loop has still to visit), in the SIGINT handler (`quit`), or
ended, by name of the cause. `down[c]` and `up[c]` are the two directions of a
connection, `sig[c]` a pending SIGUSR1, `cpc[c]` the client's progress. `applying`
is the window of `head = f(head, ...)`: a SIGUSR1 there frees the nodes the loop
goes on to use, and `dangling[c]` records it. `outOfStep` is bookkeeping, not
state of the program: the clients for which a race of the design (a flush while
the client was not at rest; a refused answer at the IP prompt that is broadcast
all the same; an entry without text) has ended the promise of equal tables.
Descriptors are named by the client they belong to, since the server never
closes one. `PidOf` may map two clients to one pid, which the kernel may hand out
again.

Messages are whole: every write of a request, Q and the lines of a table transfer
included, is of 128 bytes, and the reader asks for 128. Pids
are 4 bytes and do merge: `ReadClient` takes all that is queued and looks at the
first. A client is assumed to parse a broadcast line as the server did: `Keys` and
`Vias` stand for fields of fewer than 16 characters, with no digit behind
`mask_check`. Where a client may read another thing is explored in `Console`.

### InputLine and Console in more detail

`data_info_t` has fields of 16 bytes (`types.h:14-20`), next to each other and filled in
their order; `memcpy` copies the whole word, and only what the checks look at is cut to
16 bytes, without a terminator. So a word has a `head` (its first 16 characters)
and a `rest`. A long destination runs into the mask, which is then written over it
(`KeyOf`). A long gateway runs into the OIF, which is written over it without a
terminator, so that the end of a longer rest stays (`OIFOf`; `Overlay` is a constant,
because words are not strings). The length tests of addresses
(`common.c:374`, `419`) measure a copy of 16 bytes: they refuse a word of 16
characters or more unless a 0 happens to follow the copy (`stack.ends`). The other way
round, `%s` prints a field of 16 characters together with what is behind it
(`Printed`): the mask, the OIF, and behind the OIF what follows the entry in memory
(`behind`). `JoinReproducesTables` is therefore stated for each entry, each stack and
each `behind`: the text is parsed as exactly the entry, or refused, and which of the
two is said by `Survives`. Words of more than 32 characters, which
run past two fields or past the end of `msg_t`, are left out; so is what an OIF of more
than 17 characters writes behind `msg_t` before its line is refused.

### The modules of the kernel

`CharModules` has five parties: the single PCD module (`single` is how far its
`pcd_init` is), the setup module (`setup`), the driver module (`drv`), the platform bus
(`dev`, `driver`), and the tasks that open and close device files. Two threads make the
kernel call `probe` and `remove`: the one that loads or unloads the setup module and the
one that loads or unloads the driver. `at[t]` is the device the loop of thread `t` has
come to, `work[t]` the probe or remove it is in. `device_lock` keeps them from working
on the same device (`Unlocked`), and nothing keeps them apart otherwise: a probe is one
step up to `cdev_add`, one for `device_create` with the store to
`pcd_drv_data.device_pcd`, one for the test of that pointer, and one each for the load
and the store of `total_devices`. The kernel is modelled from how the code uses it: a
class name and a device number exist once; `platform_driver_register` refuses a driver
that is on the bus and otherwise visits the devices in order, each device id once;
`probe` is called by whichever registration comes second; what `devm_kzalloc` returned
goes with the device, and an open file keeps a pointer to the cdev inside of it.
`driver = "stale"` is the driver that stays on the bus when its module is freed, for the exit
calls `platform_driver_register` again (line 248). `fault` is a call into freed memory.
`unregistered`, `unprobed`, `cut` and `exited` record which failure or call has
happened, for `FaultHasACause` and `AllDevicesBound`; `mistaken` the devices whose probe
has taken another's `device_pcd` for its own, and `lost` that an update of
`total_devices` was overwritten, the two exceptions of `RegistryBalanced`. A driver
whose class is destroyed, or that is stale, faults already where a device is matched
with it (`Unusable`). A `device_pcd` that is read a third time, for `PTR_ERR` (line
178), is taken to be an error still. The devices of a failing registration are still
unregistered later, which is a fault (`pcd_platform_setup.c:76-79`).

`MiscLed` names a `timer_config` by the order of its `kmalloc`. A timer is raw
(as `kmalloc` returned it), off, or pending. When it expires is left open: a
pending timer may expire at any time. The driver runs on a single core, and a callback
is one step. `turn` and `tidy` are bookkeeping: whether tasks have kept to the
one order of calls in which the driver is safe.

As committed, `misc_dev.c:98` lacks a comma and `pcd_platform_driver.c:31` a
semicolon, so neither file compiles; the models are of the files with that one
character added.

### SumServer

`up[c]` is what client `c` has sent and the server not read; a read empties it and looks
at its first message. The end of a stream reads as zeros, because the buffers are
cleared before each read. `open` holds the accepted connections; a client that
found the array full stays in it without being in the array, for ever. `merged`
records that a read took more than one message, `total` what the sum of a client
ought to be. `printf("... %s")` without an argument (the answer is printed so
in `server_mplexing.c`, `server.c`) may read any address: the process may
die there (`"format"`) or go on.

## 3. Runs

| Run | Instance | Shows |
|---|---|---|
| `console` | lines of 0 to 6 words, with and without newline, words that fit their fields, fill them or are too long; 3 entries in the two tables together | `RouteLinesWellFormed`, `JoinReproducesTables`, `DuplicatesArePairs`, `UpdateReachesAll` |
| `rt_sync` | 2 clients, 4 slots (console, master and two), 3 lines out of create, delete, MAC, show and flush; interrupts and crashes of clients | `InStep`, `FlushAtRestIsSafe`, `SlotArraysSound`, `ServerEndHasACause`, refinement of `ReplicatedTable` |
| `rt_live` | 2 clients, 3 slots (so one client is turned away by the descriptor array), 2 lines, all IP answers, SIGINT of the server | `LiveClientsRegistered` (with two clients and distinct pids neither of its exceptions applies; the theorem covers them), `ConnectionsAccepted`, `MembersCatchUp`, `QuitStopsClients` |
| `rt_247` (violation) | as `rt_sync`, interrupts only | the server is killed by a client's Ctrl-C |
| `dining` | 5 philosophers, as in the program | assertions, `NoLostWakeup`, `OnlyOneDeadlock`, `WaitedSpoonReleased` |
| `dining_circle` (violation) | the same | who prints "releasing" may never release |
| `procon` | 3 + 3 threads as in the program, queue of 3, 2 spurious wakeups | assertions, `NoLostWakeup`, `QueueEmptyAtEnd`, refinement of `Fifo`, `AllEnd` |
| `pcd` | 2 devices of sizes 2 and 1, 2 majors, 2 files, 2 tasks, 3 loads, requests of up to 3 bytes | `InBounds`, `FilesHoldModule`, `LeftBehind` |
| `char_modules` | 2 platform devices, 2 majors, 2 files; any number of loads and unloads | `RegistryBalanced`, `AllDevicesBound`, `FaultHasACause` |
| `misc_led` | 2 tasks, 3 `timer_config`s, ints of six bits, counts 10, 19 and 31; any number of loads | `TidyUseIsSafe` |
| `misc_led_blinks` (violation) | 1 task, 2 `timer_config`s, counts 10 and 19, with fairness | with a count of 10 the LED goes on and stays on |
| `sum_server` | the three servers, 3 clients, 3 slots, numbers 0 and 1, two messages of one client and one of each other before its last | `AnswerIsSum`, `ServerEndHasACause`, `WaiterAnswered` |

The passing runs also check their module's `TypeOK`, but for `rt_live` (checked in
`rt_sync`) and `sum_server`, whose `TypeOK` is proved.

Bounds and why they suffice. In `console` three entries are a pair of duplicates and
another one. An entry with a field that is full counts for two of them (`Entries`): how
it prints and parses depends on itself alone. `Behinds` says that nothing printable, or
one character, follows an entry in memory: of that text only whether it is empty
matters. Two clients are the fewest with a broadcast that is half done and a join in the
middle of it; both arrays are filled in `rt_live`. Three lines are create, delete,
flush, or a duplicate and its delete; a buffer of one message (two in `rt_live`) blocks
the server in the middle of a loop of writes while up to three requests are on their way
to a client; `Backlog` 1 makes the second client wait. `FdLimit` equals the number of
clients: the branch in which `accept` runs out of descriptors is in the model and not
taken in these instances. Pids are distinct in the runs; the theorems cover pids that
are used again. The queue of three wraps around in each run of a producer and a
consumer, and its size enters the code nowhere else. In `pcd` the sizes are smaller than
the largest request, a second load can get the major number of a first one that failed,
and a third one can do so twice over. In `char_modules` two devices are the fewest for a
loop that is half done, two majors let each module get the number that the other gave
back, and two files let one be open on each module; two probes at a time are all that
two registering threads make. In `misc_led` three calls of `ioctl` give two tasks a
timer each and one that replaces them between two reads of the pointer; a count of 10 is
re-armed for ever (below 19), 19 is the first that is not, and 31 is the largest int,
which the increment overflows. In `sum_server` the array of three has room for one
client (`sums`), two (`pairs`) or all three (`single`), so that clients are turned away
and slots used again; `FdLimit` 4 makes `accept` run out of descriptors in `sums`. One
client sends two numbers before its last, next to others that send one.

`CHECK_DEADLOCK FALSE` where the program may really stop or the bound ends it:
`RtSync` (server blocked in `select` once `MaxInputs` lines are typed, or ended),
`DiningPhil` (the circle), `ProCon` (all threads done), `Pcd` (`MaxLoads`, or no
free major number), `CharModules` and `MiscLed` (the kernel is down), `SumServer`
(the server has ended, or all clients have).

Symmetry is used in the safety runs only (clients in `rt_sync`, which are
treated alike; files, tasks and majors in `pcd`; majors and files in `char_modules`;
tasks in `misc_led`).

Fairness. `RtSync`: weak fairness of the server's and of each client's own steps,
since they are processes the scheduler runs and their system calls return once
they can; none for what people type, start or interrupt, nor for faults.
`DiningPhil`: weak fairness of running threads, and strong fairness of locking a
mutex: POSIX does not promise it, default mutexes on Linux give it in practice,
and `WaitedSpoonReleased` is to be read under that assumption. `ProCon`: weak
fairness of each thread suffices, since each passes once; a bounded number of
wakeups without a broadcast is allowed at any time. `MiscLed` has fairness in `misc_led_blinks` only
(`LiveSpec`): weak fairness of each pending timer, which the kernel does run, and of a
call's second step. `SumServer`: weak fairness of
the server, and of each client's read of its answer, a blocking call; none for
connecting, typing and Ctrl-C. The server's `select` favours nobody: it
serves all that were readable before it looks again. A console at end of
file, which would make `server_mplexing.c` accept nobody any more, is left out: stdin
is taken to be a terminal.

## 4. Findings

Each is a `violation` run and quotes the line it contradicts.

- `rt_247`: the server, meant to run "24*7", dies with a client
  (`server.c:231`, `252`).
- `dining_circle`: all philosophers may hang in `dnphil.c:118`.
- `misc_led_blinks`: a count of 10 does not make the LED blink 10 times, as
  `Character/README.md:23-24` promises (`misc_dev.c:109`).

Further defects the models contain as they are, so that other properties are checked in
their presence: the newline that counts as part of the mask of a typed `D` line
(`common.c:638`), so that a line typed as the menu of `server.c:99` shows it is refused,
or is about a key that no entry has; "Destination IP address is too long"
(`common.c:373-375`), which is asked of a copy already cut to 16 bytes, so that such a
line may be accepted with its destination cut, the fields behind it written over; the
duplicate of the last key (`common.c:256`), the refused IP answer that is broadcast
(`server.c:155`), the client that creates empty entries when the server has crashed
(`client.c:73`), kill(0) after an end of file (`server.c:256`), the cdevs and majors a
PCD load leaves behind (`pcd_mul_devs.c:311`, `347`), and the cdev of an earlier load
that a failing `cdev_add` removes in place of its own (`317-320`: `cdev_del` goes by
number); two probes that share `device_pcd`, so that a device may be bound without its
file or an error leave a node whose cdev is freed (`pcd_platform_driver.c:174-176`), and
that update `total_devices` at the same time (`182`, `199`); the exit of the platform
driver that registers it again (`pcd_platform_driver.c:248`), and device memory that is
freed under an open file (line 136); a timer set up while it is pending, or added
without ever being set up, one that runs after its module is gone, and one that a
written 0 leaves running, so that it turns the LED on again (`misc_dev.c:109`, `131`,
`132`, `196`); the SIGPIPE, the lost addends and the descriptors that leak in the sum
servers (`server_mplexing.c:170-188`).

The parser accepts a route line whose OIF is missing if a blank stands before the
newline (`common.c:441-453` tests only that it is not too long), although the menu of
`server.c:97-98` asks for one; `RouteLinesWellFormed` allows an empty interface for that
reason, and the text of such an entry parses back.

Seen and not part of a model: `pcd_open` only prints the refusal of
`check_permission` and returns 0 (`pcd_mul_devs.c:116-120`);
`pcd_platform_driver.c:136` allocates the size of a pointer for a structure, and
`159` tests the wrong pointer; the table of platform ids has no terminator.

## 5. Proofs

All theorems hold for every value of the constants under the named assumptions
(`ClientAssumption`, `BoundAssumption`, `InputAssumption`, `PhilAssumption`,
`SizeAssumption`, `ThreadAssumption`, `PcdAssumption`, `MiscAssumption`,
`SumAssumption`, `CharAssumption`, `WordAssumption`, `PartAssumption`,
`LineAssumption`), which the runs evaluate.

- `RtSync_proofs`. `SlotArraysSound` and `ServerEndHasACause` are not inductive.
  The strengthening adds: types; the shape of the loops (`LoopOK`: `todo` holds
  slots the loop's `pc` allows), of the table transfer (`SendingOK`) and of the prompt
  (`PromptOK`), of a client's request (`ApplyingOK`); that the backlog and the open
  descriptors are disjoint and without repetition (`BacklogOK`), so that `accept`
  never adds a descriptor a second time; that pid 0 gets into the array only after
  a client has ended (`ZeroOK`); and that a listed MAC address has an object with
  an IP unless it is being rewritten (`ShmOK`). The lemmas about the lists are in
  the same module, and so are those about the slot loops.
  `FlushAtRestIsSafe` needs in addition that a client in step is idle, with nothing
  on its way, from the flush to its signal (`SignalledAtRest`), and that one not yet
  accepted has nothing to apply (`UnservedWaits`).
  `LiveClientsRegistered`, for finitely many clients, needs to know whose the entries of
  `client_pid_set` are: of a monitored client or of one that has ended
  (`EntriesKnown`), and a 0 of a client that has ended and is still monitored
  (`ZeroKnown`). A counting argument (`FullTakesThree`) shows from this that the array
  is full for a monitored client only when three processes have ended. Three is exact:
  with four slots and five clients, three that are killed and one that is interrupted
  leave the fifth alive, monitored and out of reach of a flush although a slot is free.
  `InStep` and the refinement of `ReplicatedTable` need two more things. `SyncInv`: keys
  come in neighbouring pairs (`Paired`; otherwise the client's own duplicate check would
  drop lines of a table transfer), a request that waits at the IP prompt still passes the
  check when the IP has come (`WaitingOK`), a client that is not accepted has empty
  tables (`UnservedEmpty`), and a client's check still holds when it changes the list
  (`CheckHolds`: the flush that could come in between puts the client out of step). And
  a classification: every action of the server or a client is, to the members in step,
  one of five things (`Seen`): some leave, one joins, all get an update, one
  delivers to itself, all are flushed (`NextSeen`, one lemma per group of actions).
  Each of the five preserves `InStep` (`SeenInStep`) and is an action of
  `ReplicatedTable` (`SeenImplements`). What is needed of `Replay`, a fold, is that it is
  the end of a run of `Apply`: `FoldLeft` is a recursive *function* of the index set, so
  `ReplayHead`, `ReplayAppend` and `SnapshotReplays` (a transfer
  rebuilds the tables) follow with a least counterexample in place of induction.
  `SameEmpty`, `SameApply` and `SameSnapshot` say that the operators of the instance
  are those of `RtSync`. The theorems inherit the exceptions of `outOfStep`.
- `Console_proofs`. The inductive invariant `ConInv` adds to the properties that every
  stored route is one that a line in good form spells, with addresses and an interface that
  fit their fields, or the one of a read of 0 bytes (`StoredRoutes`), that every stored MAC
  address has the form of one, and `Paired`. `LineParsed` says what can come of any line
  and any stack: invalid, a request without an entry, or one with an entry of that kind.
  `RouteTextParses`, `MacTextParses` and `BlankTextParses` say what the printed text of each
  kind of entry parses to, with whatever is behind it; with `SnapshotReplays`,
  `JoinReproducesTables` follows. Of words only two things are used. `WordAssumption`:
  they have at most 32 characters, and the empty word, and no other, is of length 0, has no
  dotted fields and is no MAC address. `PartAssumption`: heads, rests and what two words
  make together are words of the lengths they should have, and the number of dotted fields
  is that of the head, since `check_desIP_valid` and `check_gateway_valid` look no further.
  Of lines it is used that `strtok` could have split them (`LineAssumption`).
- `DiningPhil_proofs`. From who owns which spoon and mutex at which label
  (`LeftOwned`, `RightOwned`, `OwnedByUser`, `MutexHeld`) follow the assertions; with
  `Sleepers`, no lost wakeup; and a counting argument around the ring
  (`RingClosed`) shows that if all are blocked, all are in the circle.
- `ProCon_proofs`. The ring of `queue.c` as a sequence (`EnqueueAppends` and its
  fellows) gives the refinement of `Fifo`; that one thread works at a time and
  the queue is full or empty otherwise gives the assertions and the wakeups.
  `QueueEmptyAtEnd` is for finitely many and equally many producers and consumers, as
  in the program; `Balanced` counts the threads of each kind that are through.
- `Pcd_proofs`. `InBounds` and `FilesHoldModule` with `NodesOwn` (device nodes are of
  the present load), `NodesBacked` (each has its cdev) and `Numbered`. `LeftBehind`
  with `Accounted`: the cdevs of the load under way are in the map, and all others are of
  loads that failed in `device_create` (`CdevsOK`); each such load without a cdev has a
  later load of its own to blame, which failed in `cdev_add` (`LostOK`: a failing
  `cdev_add` takes at most one load's last cdev, since it reaches one number that the
  load has not mapped); each major number is of a load that went well or is under
  way (`RegionsOK`).
- `MiscLed_proofs`. `TidyUseIsSafe` says only that nothing went wrong; `TurnsOK` says why
  nothing can: while tasks keep to their turns, whose turn it is finds a timer that
  was never set up, the one task that is inside of `write` finds it still off, and
  no timer of a module that is gone is pending.
- `SumServer_proofs`. `AnswerIsSum` follows from `Told` and an account of each client,
  per kind of server: what is in its accumulator, on its way (`up`) and told adds up
  to `total` (`SumsOK`, `PairsOK`). It needs that a client is in one slot at most
  and the accumulators of free slots are zero (`SlotsOK`), that the connections
  waiting, accepted and not yet made are apart (`BacklogOK`), and that the loop is
  at readable slots (`LoopOK`). Since a message of zeros is a client's last,
  `ServerEndHasACause` falls out: when an answer is due, the client is
  waiting for it unless it was interrupted.
- `CharModules_proofs`. From where the two modules are follow what is on the bus and
  who holds class and major numbers (`DriverOK`, `ClassOK`, `RegionsOK`). `LoopsOK`
  says where the two threads are: in a probe of a device that is not bound or a remove
  of one that is, never with the same device, and, unless mistaken, counting only a
  device whose file is made. `DevicesOK` says, of each device the setup module has
  reached or has yet to unregister, that it is on the bus or its registration failed,
  and, of each unbound one while the driver is loaded, that its probe failed or one of the
  loops has yet to come to it: the two ways in which a device can be missed when both
  modules load at the same time. `NodesOK` and `FilesOK` say which nodes, cdevs and files
  there are before the exit, and what a mistaken probe may add; `CountOK` says that
  `total_devices` is the number of bound devices unless an update was lost. (It has no bound
  of its own: lost decrements leave any number.)

Only model-checked: the liveness properties `ConnectionsAccepted`, `MembersCatchUp`,
`QuitStopsClients`, `WaitedSpoonReleased`, `AllEnd` and `WaiterAnswered`: fairness needs
`ENABLED`, which the prover does not handle. Every invariant a passing run checks, and both
refinements, are theorems. An induction whose step is an operator is out of
the prover's reach too; the recursive functions met here (`FoldLeft`) could be
handled with least counterexamples.

## 6. Not modelled

Printing and `show_*` layout; leaked memory; `EINTR` and short reads; start-up errors
before the first `select`; failing shared-memory calls; names longer than the
shared-memory limits; pread, pwrite and device files made by hand (PCD); overflow of
file offsets (refused by the kernel or by the comparison with the size). LED driver:
failing `kmalloc`, copies and registration, and the expiry time (`expires` is set by
nobody before `add_timer`). Platform driver: the memory beyond an allocation of pointer
size (line 136); a bus walk that meets a device again because it was unregistered and
registered anew behind it; the contents of the buffers, which its read and write never
touch. Sum servers: start-up, overflow of a sum, integers that arrive in parts.
`FD_ISSET` with the -1 of a free slot (`server.c:245`) is taken to be false: undefined,
it reads bit 63 in practice, of a descriptor that no client of 32 gets. `mutex.c:68`, a
mutex destroyed while its users run, is undefined in POSIX and harmless or fatal with
the C library's version; two threads of one call each are all there is to it. The
components marked `not_modelled` in `PROJECT.json`, with reasons.

## 7. Plan

1. Prove: the liveness arguments as far as safety carries them: that a client with
   something pending is never stuck behind a server that waits for it (`MembersCatchUp`),
   and that no state of `RtSync` with the server up is without a step but for the console.
2. Extend: `ShmIp` (every step and error of the shared-memory functions,
   implementing the three-valued object of `RtSync`); an `RtSync` instance with a pid
   that is used again; `ArrayMutex`, if the C library's behaviour is fixed.
