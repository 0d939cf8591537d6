------------------------- MODULE CharModules_proofs --------------------------
(***************************************************************************)
(* Proofs about the modules of PCD and Platform_device, for any number of  *)
(* platform devices, major numbers and open files.                         *)
(***************************************************************************)
EXTENDS CharModules, FiniteSetTheorems, TLAPS

\* How far the driver module is, and what the bus has of it.
DriverOK ==
  /\ driver = "yes" => drv \in {"attach", "live", "again", "exit", "ending"}
  /\ drv \in {"attach", "again"} => driver = "yes"
  /\ drv \in {"again", "exit", "ending"} \/ driver = "stale" => exited
  /\ mistaken # {} => driver # "no"

\* A thread in a probe or remove: a probe is of a device that is not bound, a remove of
\* one that is.  A probe that was not mistaken counts its device only with its file made.
ThreadOK(t) ==
  /\ work[t].pc \in {"none", "create"} => ~work[t].made
  /\ work[t].pc # "none" => /\ driver # "no" /\ at[t] \in Devs
                            /\ t = "setup" => setup \in {"in", "exit"}
                            /\ t = "driver" => drv \in {"attach", "again"}
                            /\ dev[at[t]] = IF Change(t) = 1 THEN "unbound" ELSE "bound"
  /\ work[t].pc \in {"load", "store"} /\ Change(t) = 1 /\ at[t] \notin mistaken
       => work[t].made

\* The threads work on different devices.
LoopsOK ==
  /\ \A t \in Threads : ThreadOK(t)
  /\ Removing => work["setup"].pc \in {"load", "store"} /\ ~work["setup"].made
  /\ work["setup"].pc # "none" /\ work["driver"].pc # "none" => at["setup"] # at["driver"]

\* Each module holds the class between its creation and its destruction.
ClassOK ==
  /\ pcd_class = "single" <=> single \in {"class", "live"}
  /\ pcd_class = "driver" <=> drv \notin {"out", "region", "ending"}

\* Each holds a major number of its own.
RegionsOK ==
  /\ regions = (IF single = "out" THEN {} ELSE {device_number[1]})
               \cup (IF drv \in {"out", "ending"} THEN {} ELSE {device_number_base})
  /\ single # "out" /\ drv \notin {"out", "ending"} => device_number[1] # device_number_base
  /\ single # "out" => device_number \in Majors \X {0}
  /\ drv # "out" => device_number_base \in Majors
  /\ drv = "out" => device_number_base = NoMajor

\* The loop of the setup module is past the registration of device i, or has yet to
\* unregister it.
Reached(i) ==
  setup = "live" \/ (setup = "in" /\ i < at["setup"]) \/ (setup = "exit" /\ i >= at["setup"])

\* The devices that the setup module has reached are on the bus, or in the books; those
\* that are not bound have failed a probe, or one of the loops has yet to come to them.
DevicesOK ==
  /\ \A i \in Bound : driver # "no"
  /\ \A i \in Devs : dev[i] # "absent" => Reached(i) \/ (setup = "in" /\ i = at["setup"])
  /\ \A i \in Devs : dev[i] = "absent" /\ Reached(i) => i \in unregistered
  /\ driver = "yes" /\ drv \in {"attach", "live"} =>
       \A i \in Devs : dev[i] = "unbound" =>
         \/ i \in unprobed
         \/ drv = "attach" /\ i >= at["driver"]
         \/ setup = "in" /\ i = at["setup"]

CountOK == ~lost => total_devices = Cardinality(Bound)

\* The devices with a cdev that is alive, and those with a device file unless mistaken.
Served == {i \in Devs : InProbe(i) \/ (i \in Bound /\ ~InRemove(i))}
Filed  == {i \in Devs : Made(i) \/ (i \in Bound /\ ~InRemove(i))}

\* Until the driver's exit, nodes and cdevs are those of devices that are there.
NodesOK ==
  ~exited =>
    /\ cdevs = {Node(i) : i \in Served}
               \cup (IF single \in {"cdev", "class", "live"} THEN {Mine} ELSE {})
    /\ nodes \subseteq {Node(i) : i \in Devs} \cup (IF single = "live" THEN {Mine} ELSE {})
    /\ single = "live" => Mine \in nodes
    /\ \A i \in Devs \ mistaken : Node(i) \in nodes <=> i \in Filed

\* And an open file has a cdev that is alive, unless an unload cut it or a probe was
\* mistaken.
FilesOK ==
  ~exited => \A f \in Files :
    /\ file[f].by = "single" => single = "live" /\ file[f].no = device_number
    /\ file[f].by = "driver" /\ setup = "exit" => cut
    /\ file[f] # Closed /\ ~file[f].live => cut \/ mistaken # {}
    /\ file[f].by = "driver" /\ file[f].live /\ mistaken = {} =>
         \E i \in Devs : file[f].no = Number(i) /\ (i \in Bound \/ Made(i))

IInv ==
  /\ TypeOK /\ DriverOK /\ LoopsOK /\ ClassOK /\ RegionsOK /\ DevicesOK /\ CountOK /\ NodesOK
  /\ FilesOK /\ FaultHasACause
-----------------------------------------------------------------------------
(* The devices, their count, and the threads.                              *)

\* A set of devices is finite, and has a cardinality.
LEMMA DeviceCount ==
  ASSUME NEW S \in SUBSET Devs
  PROVE  IsFiniteSet(S) /\ Cardinality(S) \in Nat
<1>1. NDEV \in Nat /\ NDEV - 1 \in Int
  BY CharAssumption
<1>2. IsFiniteSet(0..(NDEV - 1))
  BY <1>1, FS_Interval
<1>3. QED BY <1>2, FS_Subset, FS_CardinalityType DEF Devs

LEMMA BoundCount == IsFiniteSet(Bound) /\ Cardinality(Bound) \in Nat
<1>1. Bound \in SUBSET Devs
  BY DEF Bound
<1>2. QED BY <1>1, DeviceCount

\* A probe that succeeds and a remove move the count with the devices, unless the store
\* loses an update.
LEMMA BoundMore ==
  ASSUME TypeOK, CountOK, NEW i \in Devs, dev[i] # "bound", dev' = [dev EXCEPT ![i] = "bound"],
         ~lost' => ~lost /\ total_devices' = total_devices + 1
  PROVE  CountOK'
<1>1. Bound' = Bound \cup {i} /\ i \notin Bound
  BY DEF Bound, TypeOK
<1>2. Cardinality(Bound \cup {i}) = Cardinality(Bound) + 1
  BY <1>1, BoundCount, FS_AddElement
<1>3. QED BY <1>1, <1>2 DEF CountOK

LEMMA BoundLess ==
  ASSUME TypeOK, CountOK, NEW i \in Devs, dev[i] = "bound", dev' = [dev EXCEPT ![i] = "absent"],
         ~lost' => ~lost /\ total_devices' = total_devices - 1
  PROVE  CountOK'
<1>1. Bound' = Bound \ {i} /\ i \in Bound
  BY DEF Bound, TypeOK
<1>2. Cardinality(Bound \ {i}) = Cardinality(Bound) - 1
  BY <1>1, BoundCount, FS_RemoveElement
<1>3. QED BY <1>1, <1>2, BoundCount DEF CountOK

LEMMA BoundSame ==
  ASSUME TypeOK, CountOK, NEW i \in Devs, dev[i] # "bound", NEW v, v # "bound",
         dev' = [dev EXCEPT ![i] = v], UNCHANGED <<total_devices, lost>>
  PROVE  CountOK'
<1>1. Bound' = Bound
  BY DEF Bound, TypeOK
<1>2. QED BY <1>1 DEF CountOK

\* A position before the end is that of a device.
LEMMA PositionDevice ==
  ASSUME TypeOK, NEW t \in Threads, at[t] < NDEV
  PROVE  at[t] \in Devs /\ at[t] + 1 \in 0..NDEV
<1>1. at[t] \in 0..NDEV /\ NDEV \in Nat
  BY CharAssumption DEF TypeOK
<1>2. QED BY <1>1 DEF Devs

LEMMA GotoIs ==
  ASSUME TypeOK, NEW t \in Threads, NEW w, Goto(t, w)
  PROVE  at' = at /\ work'[t] = w /\ \A u \in Threads \ {t} : work'[u] = work[u]
BY DEF Goto, TypeOK

LEMMA LeaveIs ==
  ASSUME TypeOK, NEW t \in Threads, Leave(t)
  PROVE  /\ at'[t] = at[t] + 1 /\ work'[t] = Rest
         /\ \A u \in Threads \ {t} : at'[u] = at[u] /\ work'[u] = work[u]
BY DEF Leave, TypeOK

\* A driver that can be called has its class and its number.
LEMMA Usable ==
  ASSUME IInv, driver # "no", ~Unusable
  PROVE  /\ driver = "yes" /\ pcd_class = "driver"
         /\ drv \in {"attach", "live", "again", "exit"}
         /\ device_number_base \in Majors
BY DEF IInv, TypeOK, DriverOK, ClassOK, RegionsOK, Unusable

\* In one that cannot the exit has run.
LEMMA NotUsable ==
  ASSUME IInv, Unusable
  PROVE  exited
BY DEF IInv, DriverOK, ClassOK, Unusable

\* Any driver that is there and not stale has its number.
LEMMA HasNumber ==
  ASSUME IInv, driver = "yes"
  PROVE  device_number_base \in Majors
BY DEF IInv, DriverOK, RegionsOK

\* The device a thread works on.
LEMMA WorkedOn ==
  ASSUME IInv, NEW t \in Threads, work[t].pc # "none"
  PROVE  at[t] \in Devs /\ at[t] < NDEV /\ at[t] + 1 \in 0..NDEV
<1>1. at[t] \in Devs
  BY DEF IInv, LoopsOK, ThreadOK
<1>2. NDEV \in Nat
  BY CharAssumption
<1>3. QED BY <1>1, <1>2 DEF Devs

\* Two threads work on devices that differ.
LEMMA WorkApart ==
  ASSUME IInv, NEW t \in Threads, NEW u \in Threads, t # u,
         work[t].pc # "none", work[u].pc # "none"
  PROVE  at[t] # at[u]
BY DEF IInv, LoopsOK, Threads
-----------------------------------------------------------------------------
LEMMA FaultTyped ==
  ASSUME TypeOK, NEW cause \in {"text", "absent", "freed"}, Fault(cause), UNCHANGED pcd
  PROVE  TypeOK'
BY DEF Fault, TypeOK, registry, mod, loops, bus, data, books, pcd

\* The files of a device whose memory goes stay files.
LEMMA FilesTyped ==
  ASSUME IInv, NEW i \in Devs, file' = FilesWithout(i)
  PROVE  /\ file' \in [Files -> {Closed} \cup [no : Numbers, by : Modules, live : BOOLEAN]]
         /\ \A f \in Files :
              \/ file'[f] = file[f]
              \/ /\ file[f].no = Number(i) /\ file[f].by = "driver"
                 /\ file'[f] = Dead(file[f])
<1> DEFINE Opened == [no : Numbers, by : Modules, live : BOOLEAN]
<1>1. file \in [Files -> {Closed} \cup Opened]
  BY DEF IInv, TypeOK
<1>2. ASSUME NEW f \in Files
      PROVE  /\ file'[f] \in {Closed} \cup Opened
             /\ \/ file'[f] = file[f]
                \/ /\ file[f].no = Number(i) /\ file[f].by = "driver"
                   /\ file'[f] = Dead(file[f])
  <2>1. file'[f] = IF file[f].no = Number(i) /\ file[f].by = "driver"
                   THEN Dead(file[f]) ELSE file[f]
    BY DEF FilesWithout
  <2>2. CASE file[f].by = "driver"
    <3>1. file[f] \in Opened
      BY <1>1, <2>2 DEF Closed
    <3>2. Dead(file[f]) \in Opened
      BY <3>1 DEF Dead
    <3>3. QED BY <2>1, <3>1, <3>2
  <2>3. CASE file[f].by # "driver"
    BY <1>1, <2>1, <2>3
  <2>4. QED BY <2>2, <2>3
<1>3. file' = [f \in Files |-> file'[f]]
  BY DEF FilesWithout
<1>4. QED BY <1>2, <1>3

\* A thread that moves on stays in its loop.
LEMMA LeaveTyped ==
  ASSUME TypeOK, NEW t \in Threads, at[t] < NDEV, Leave(t)
  PROVE  /\ at' \in [Threads -> 0..NDEV]
         /\ work' \in [Threads -> [pc : {"none", "create", "test", "load", "store"},
                                   made : BOOLEAN, sum : Int]]
<1>1. at[t] + 1 \in 0..NDEV
  BY PositionDevice
<1>2. Rest \in [pc : {"none", "create", "test", "load", "store"}, made : BOOLEAN, sum : Int]
  BY DEF Rest, Doing
<1>3. QED BY <1>1, <1>2 DEF Leave, TypeOK

LEMMA GotoTyped ==
  ASSUME TypeOK, NEW t \in Threads, NEW w, Goto(t, w),
         w \in [pc : {"none", "create", "test", "load", "store"}, made : BOOLEAN, sum : Int]
  PROVE  /\ at' = at
         /\ work' \in [Threads -> [pc : {"none", "create", "test", "load", "store"},
                                   made : BOOLEAN, sum : Int]]
BY DEF Goto, TypeOK

LEMMA ProbingTyped ==
  ASSUME IInv, NEW t \in Threads, Driver(Probing(t))
  PROVE  TypeOK' /\ CountOK'
<1>1. TypeOK /\ CountOK /\ UNCHANGED pcd
  BY DEF IInv, Driver
<1>2. ASSUME Fault("text") PROVE TypeOK' /\ CountOK'
  BY <1>1, <1>2, FaultTyped DEF Fault, CountOK, Bound, bus, data, books
<1>3. ASSUME at[t] \in Devs, driver = "yes"
      PROVE  Number(at[t]) \in Numbers /\ Node(at[t]) \in [no : Numbers, by : Modules]
  BY <1>3, HasNumber DEF Number, Node, Numbers, Modules
<1>4. Rest \in [pc : {"none", "create", "test", "load", "store"}, made : BOOLEAN, sum : Int]
  BY DEF Rest, Doing
<1>5. CASE Meet(t)
  <2>1. at[t] \in Devs /\ at[t] < NDEV
    BY <1>1, <1>5, PositionDevice DEF Meet, Looking
  <2>2. CASE driver # "no" /\ ~Unusable /\ Begin(t)
    <3>1. driver = "yes"
      BY <2>2, Usable
    <3>2. CountOK'
      BY <1>1, <2>2 DEF Begin, CountOK, Bound, bus, data
    <3>3. CASE Leave(t) /\ unprobed' = unprobed \cup {at[t]} /\ UNCHANGED cdevs
      BY <1>1, <2>1, <2>2, <3>2, <3>3, LeaveTyped DEF Begin, TypeOK, mod, bus, data, pcd
    <3>4. CASE /\ cdevs' = cdevs \cup {Node(at[t])} /\ Goto(t, Doing("create", FALSE))
               /\ UNCHANGED unprobed
      <4>1. Doing("create", FALSE)
              \in [pc : {"none", "create", "test", "load", "store"}, made : BOOLEAN, sum : Int]
        BY DEF Doing
      <4>2. cdevs' \subseteq [no : Numbers, by : Modules]
        BY <1>1, <1>3, <2>1, <3>1, <3>4 DEF TypeOK
      <4>3. /\ at' = at
            /\ work' \in [Threads -> [pc : {"none", "create", "test", "load", "store"},
                                      made : BOOLEAN, sum : Int]]
        BY <1>1, <3>4, <4>1, GotoTyped
      <4>4. QED BY <1>1, <2>2, <3>2, <3>4, <4>2, <4>3
                DEF Begin, TypeOK, mod, bus, data, pcd
    <3>5. QED BY <2>2, <3>3, <3>4 DEF Begin
  <2>3. CASE Leave(t) /\ UNCHANGED <<registry, mod, bus, data, fault, books>>
    BY <1>1, <2>1, <2>3, LeaveTyped
       DEF TypeOK, CountOK, Bound, registry, mod, bus, data, books, pcd
  <2>4. QED BY <1>2, <1>5, <2>2, <2>3 DEF Meet
<1>6. CASE CreateNode(t)
  <2>1. CASE ~Unusable /\ ~Fault("text")
    <3>1. at[t] \in Devs /\ driver = "yes"
      BY <1>6, <2>1, WorkedOn, Usable DEF CreateNode, IInv, LoopsOK, ThreadOK
    <3>2. PICK ok \in BOOLEAN :
             /\ nodes' = nodes \cup (IF ok THEN {Node(at[t])} ELSE {})
             /\ device_pcd' = ok
             /\ Goto(t, Doing("test", ok))
             /\ UNCHANGED <<regions, pcd_class, cdevs, freed, file, mod, bus, total_devices, fault,
                            books>>
      BY <1>6, <2>1 DEF CreateNode
    <3>3. Doing("test", ok)
            \in [pc : {"none", "create", "test", "load", "store"}, made : BOOLEAN, sum : Int]
      BY DEF Doing
    <3>4. nodes' \subseteq [no : Numbers, by : Modules]
      BY <1>1, <1>3, <3>1, <3>2 DEF TypeOK
    <3>5. QED BY <1>1, <3>2, <3>3, <3>4
              DEF Goto, TypeOK, CountOK, Bound, mod, bus, books, pcd
  <2>2. QED BY <1>2, <1>6, <2>1 DEF CreateNode
<1>7. CASE TestNode(t)
  <2>1. CASE driver # "stale"
    <3>1. at[t] \in Devs /\ at[t] < NDEV /\ driver = "yes"
      BY <1>1, <1>7, <2>1, WorkedOn DEF TestNode, IInv, LoopsOK, ThreadOK, TypeOK
    <3>2. /\ mistaken' \subseteq Devs /\ driver # "stale"
          /\ UNCHANGED <<regions, pcd_class, nodes, mod, bus, data, fault, unregistered, cut,
                         exited, lost, pcd>>
      BY <1>1, <1>7, <2>1, <3>1 DEF TestNode, TypeOK, Fault
    <3>3. CountOK'
      BY <1>1, <3>2 DEF CountOK, Bound, bus, data
    <3>4. CASE /\ Goto(t, [work[t] EXCEPT !.pc = "load"])
               /\ UNCHANGED <<cdevs, freed, file, unprobed>>
      BY <1>1, <3>2, <3>3, <3>4 DEF Goto, TypeOK, mod, bus, data, pcd
    <3>5. CASE Fail(t)
      <4>1. file' \in [Files -> {Closed} \cup [no : Numbers, by : Modules, live : BOOLEAN]]
        BY <3>1, <3>5, FilesTyped DEF Fail
      <4>2. /\ freed' \subseteq Numbers /\ unprobed' \subseteq Devs
            /\ cdevs' \subseteq [no : Numbers, by : Modules]
        BY <1>1, <1>3, <3>1, <3>5 DEF Fail, TypeOK
      <4>3. Leave(t)
        BY <3>5 DEF Fail
      <4>4. QED BY <1>1, <3>1, <3>2, <3>3, <4>1, <4>2, <4>3, LeaveTyped
                DEF TypeOK, mod, bus, data, pcd
    <3>6. QED BY <1>7, <2>1, <3>4, <3>5 DEF TestNode
  <2>2. QED BY <1>2, <1>7, <2>1 DEF TestNode
<1>8. CASE LoadTotal(t)
  <2>1. CASE /\ Goto(t, [work[t] EXCEPT !.pc = "store", !.sum = total_devices])
             /\ UNCHANGED <<registry, mod, bus, data, fault, books>>
    <3>1. [work[t] EXCEPT !.pc = "store", !.sum = total_devices]
            \in [pc : {"none", "create", "test", "load", "store"}, made : BOOLEAN, sum : Int]
      BY <1>1 DEF TypeOK
    <3>2. CountOK'
      BY <1>1, <2>1 DEF CountOK, Bound, bus, data, books
    <3>3. /\ at' = at
          /\ work' \in [Threads -> [pc : {"none", "create", "test", "load", "store"},
                                    made : BOOLEAN, sum : Int]]
      BY <1>1, <2>1, <3>1, GotoTyped
    <3>4. QED BY <1>1, <2>1, <3>2, <3>3
              DEF TypeOK, registry, mod, bus, data, books, pcd
  <2>2. QED BY <1>2, <1>8, <2>1 DEF LoadTotal
<1>9. CASE StoreTotal(t)
  <2>1. CASE driver # "stale" /\ ~Fault("text")
    <3>1. at[t] \in Devs /\ at[t] < NDEV
      BY <1>9, WorkedOn DEF StoreTotal
    <3>2. /\ total_devices' = work[t].sum + Change(t)
          /\ lost' = (lost \/ work[t].sum # total_devices)
          /\ Leave(t)
          /\ UNCHANGED <<regions, pcd_class, cdevs, nodes, freed, mod, driver, device_pcd, fault,
                         unregistered, cut, exited, mistaken, pcd>>
      BY <1>1, <1>9, <2>1 DEF StoreTotal
    <3>3. work[t].sum \in Int /\ Change(t) \in {1, -1} /\ total_devices \in Int
      BY <1>1 DEF TypeOK, Change
    <3>4. /\ total_devices' \in Int /\ lost' \in BOOLEAN
          /\ ~lost' => ~lost /\ total_devices' = total_devices + Change(t)
      <4>1. total_devices' \in Int
        BY <3>2, <3>3
      <4>2. lost' \in BOOLEAN /\ (~lost' => ~lost /\ work[t].sum = total_devices)
        <5>1. lost \in BOOLEAN
          BY <1>1 DEF TypeOK
        <5>2. QED BY <3>2, <5>1, Zenon
      <4>3. QED BY <3>2, <4>1, <4>2
    <3>5. CASE Change(t) = 1
      <4>1. /\ dev' = [dev EXCEPT ![at[t]] = "bound"] /\ unprobed' = unprobed \ {at[t]}
            /\ UNCHANGED file
        BY <1>9, <2>1, <3>5 DEF StoreTotal
      <4>2. dev[at[t]] # "bound"
        BY <1>9, <3>5 DEF StoreTotal, IInv, LoopsOK, ThreadOK
      <4>3. CountOK'
        BY <1>1, <3>1, <3>4, <3>5, <4>1, <4>2, BoundMore
      <4>4. QED BY <1>1, <3>1, <3>2, <3>4, <4>1, <4>3, LeaveTyped DEF TypeOK, mod, pcd
    <3>6. CASE Change(t) = -1
      <4>1. /\ dev' = [dev EXCEPT ![at[t]] = "absent"] /\ file' = FilesWithout(at[t])
            /\ UNCHANGED unprobed
        BY <1>9, <2>1, <3>6 DEF StoreTotal
      <4>2. dev[at[t]] = "bound"
        BY <1>9, <3>6 DEF StoreTotal, IInv, LoopsOK, ThreadOK
      <4>3. CountOK'
        BY <1>1, <3>1, <3>3, <3>4, <3>6, <4>1, <4>2, BoundLess
      <4>4. file' \in [Files -> {Closed} \cup [no : Numbers, by : Modules, live : BOOLEAN]]
        BY <3>1, <4>1, FilesTyped
      <4>5. QED BY <1>1, <3>1, <3>2, <3>4, <4>1, <4>3, <4>4, LeaveTyped DEF TypeOK, mod, pcd
    <3>7. QED BY <3>3, <3>5, <3>6
  <2>2. QED BY <1>2, <1>9, <2>1 DEF StoreTotal
<1>10. QED BY <1>5, <1>6, <1>7, <1>8, <1>9 DEF Driver, Probing

LEMMA UnregisterTyped ==
  ASSUME IInv, Driver(UnregisterDevice)
  PROVE  TypeOK' /\ CountOK'
<1>1. TypeOK /\ CountOK /\ UNCHANGED pcd
  BY DEF IInv, Driver
<1>2. ASSUME NEW cause \in {"text", "absent"}, Fault(cause) PROVE TypeOK' /\ CountOK'
  BY <1>1, <1>2, FaultTyped DEF Fault, CountOK, Bound, bus, data, books
<1>3. at["setup"] \in Devs /\ at["setup"] < NDEV /\ "setup" \in Threads
  BY <1>1, PositionDevice DEF Driver, UnregisterDevice, Threads
<1>4. CASE /\ Destroy(at["setup"]) /\ Goto("setup", Doing("load", FALSE))
           /\ UNCHANGED <<regions, pcd_class, freed, file, mod, bus, data, fault, books>>
  <2>1. Doing("load", FALSE)
          \in [pc : {"none", "create", "test", "load", "store"}, made : BOOLEAN, sum : Int]
    BY DEF Doing
  <2>2. /\ at' = at
        /\ work' \in [Threads -> [pc : {"none", "create", "test", "load", "store"},
                                  made : BOOLEAN, sum : Int]]
    BY <1>1, <1>3, <1>4, <2>1, GotoTyped
  <2>3. CountOK'
    BY <1>1, <1>4 DEF CountOK, Bound, bus, data, books
  <2>4. QED BY <1>1, <1>4, <2>2, <2>3 DEF Destroy, TypeOK, mod, bus, data, books, pcd
<1>5. CASE /\ dev[at["setup"]] = "unbound" /\ dev' = [dev EXCEPT ![at["setup"]] = "absent"]
           /\ Leave("setup") /\ UNCHANGED <<registry, mod, driver, data, fault, books>>
  <2>1. CountOK'
    BY <1>1, <1>3, <1>5, BoundSame DEF data, books
  <2>2. QED BY <1>1, <1>3, <1>5, <2>1, LeaveTyped
            DEF TypeOK, registry, mod, data, books, pcd
<1>6. QED BY <1>2, <1>4, <1>5 DEF Driver, UnregisterDevice

LEMMA TypeStep ==
  ASSUME IInv, [Next]_vars
  PROVE  TypeOK' /\ CountOK'
<1> USE DEF IInv
<1>1. ASSUME UNCHANGED drivervars, Single(AllocRegion) \/ Single(AddCdev)
             \/ Single(CreateClass) \/ Single(CreateDevice) \/ Single(pcd_exit)
      PROVE  TypeOK' /\ CountOK'
  <2>1. 0 \in Devs
    BY CharAssumption DEF Devs
  <2>2. \A m \in Majors : <<m, 0>> \in Numbers
    BY <2>1 DEF Numbers
  <2>3. Mine \in [no : Numbers, by : Modules] \/ single = "out"
    BY <2>1 DEF Mine, RegionsOK, Numbers, Modules
  <2>4. CountOK' /\ (UNCHANGED <<setup, drv, at, work, dev, driver, device_number_base,
            total_devices, device_pcd, fault, unregistered, unprobed, cut, exited, mistaken,
            lost>>)
    BY <1>1 DEF drivervars, bus, data, mod, loops, books, CountOK, Bound
  <2> USE DEF Single, alloc_fail, unregister_chrdev, cdev_del, class_del, TypeOK
  <2>5. CASE Single(AllocRegion)
    BY <2>2, <2>4, <2>5 DEF AllocRegion, Modules
  <2>6. CASE Single(AddCdev)
    BY <2>3, <2>4, <2>6 DEF AddCdev
  <2>7. CASE Single(CreateClass)
    BY <2>4, <2>7 DEF CreateClass, Modules
  <2>8. CASE Single(CreateDevice)
    BY <2>3, <2>4, <2>8 DEF CreateDevice
  <2>9. CASE Single(pcd_exit)
    BY <2>4, <2>9 DEF pcd_exit
  <2>10. QED BY <1>1, <2>5, <2>6, <2>7, <2>8, <2>9
<1>2. ASSUME NEW cause \in {"text", "absent", "freed"}, Fault(cause), UNCHANGED pcd
      PROVE  TypeOK' /\ CountOK'
  BY <1>2, FaultTyped DEF Fault, CountOK, Bound, bus, data, books
<1>3. CASE Driver(RegisterDevice)
  <2>1. at["setup"] \in Devs /\ at["setup"] < NDEV /\ "setup" \in Threads
    BY <1>3, PositionDevice DEF Driver, RegisterDevice, Threads
  <2>2. CASE /\ unregistered' = unregistered \cup {at["setup"]} /\ Leave("setup")
             /\ UNCHANGED <<dev, unprobed, cut, exited, mistaken, lost>>
    BY <1>3, <2>1, <2>2, LeaveTyped
       DEF Driver, RegisterDevice, TypeOK, CountOK, Bound, registry, mod, data, pcd
  <2>3. CASE dev' = [dev EXCEPT ![at["setup"]] = "unbound"] /\ UNCHANGED <<loops, books>>
    <3>1. CountOK'
      BY <1>3, <2>1, <2>3, BoundSame DEF Driver, RegisterDevice, data, books
    <3>2. QED BY <1>3, <2>1, <2>3, <3>1
              DEF Driver, RegisterDevice, TypeOK, registry, mod, loops, data, books, pcd
  <2>4. QED BY <1>3, <2>2, <2>3 DEF Driver, RegisterDevice
<1> USE DEF TypeOK, CountOK, Bound, Driver, registry, loops, bus, data, books, pcd
<1>8. CASE \/ Driver(pcdev_platform_init) \/ Driver(SetupReturns)
           \/ Driver(pcdev_platform_exit) \/ Driver(SetupGone)
  <2>1. 0 \in 0..NDEV
    BY CharAssumption
  <2> DEFINE typed == at' \in [Threads -> 0..NDEV]
  <2>2. CASE Driver(pcdev_platform_init)
    <3>1. typed
      BY <2>1, <2>2 DEF pcdev_platform_init
    <3>2. unregistered' \subseteq Devs /\ unprobed' \subseteq Devs
      BY <2>2 DEF pcdev_platform_init
    <3>3. QED BY <2>2, <3>1, <3>2 DEF pcdev_platform_init
  <2>3. CASE Driver(SetupReturns)
    BY <2>3 DEF SetupReturns
  <2>4. CASE Driver(pcdev_platform_exit)
    <3>1. typed
      BY <2>1, <2>4 DEF pcdev_platform_exit
    <3>2. cut' \in BOOLEAN
      BY <2>4, Zenon DEF pcdev_platform_exit
    <3>3. QED BY <2>4, <3>1, <3>2 DEF pcdev_platform_exit
  <2>5. CASE Driver(SetupGone)
    BY <2>5 DEF SetupGone
  <2>6. QED BY <1>8, <2>2, <2>3, <2>4, <2>5
<1>9. CASE Driver(AllocDriverRegion)
  BY <1>9 DEF AllocDriverRegion
<1>a. CASE Driver(CreateDriverClass)
  BY <1>a DEF CreateDriverClass, Modules
<1>10. CASE Driver(RegisterDriver) \/ Driver(pcd_platform_driver_exit)
  <2>1. 0 \in 0..NDEV
    BY CharAssumption
  <2>2. CASE Driver(RegisterDriver)
    <3>1. CASE Fault("text")
      BY <1>2, <2>2, <3>1
    <3>2. CASE Register("attach", "live") /\ UNCHANGED exited
      BY <2>1, <2>2, <3>2 DEF Register
    <3>3. QED BY <2>2, <3>1, <3>2 DEF RegisterDriver
  <2>3. CASE Driver(pcd_platform_driver_exit)
    BY <2>1, <2>3 DEF pcd_platform_driver_exit, Register
  <2>4. QED BY <1>10, <2>2, <2>3
<1>b. CASE Driver(DestroyClass)
  BY <1>b DEF DestroyClass
<1>11. CASE Driver(DriverGone)
  BY <1>11 DEF DriverGone
<1>c. CASE Driver(AllVisited)
  BY <1>c DEF AllVisited
<1>12. ASSUME NEW f \in Files, NEW no \in Numbers, pcd_open(f, no)
       PROVE  TypeOK' /\ CountOK'
  <2>1. ASSUME NEW cause \in {"text", "freed"}, UNCHANGED pcd /\ Fault(cause)
        PROVE  TypeOK' /\ CountOK'
    BY <1>2, <2>1
  <2>2. ASSUME NEW by \in Modules, Opens(f, no, by)
        PROVE  TypeOK' /\ CountOK'
    BY <2>2 DEF Opens, mod
  <2>3. QED BY <1>12, <2>1, <2>2 DEF pcd_open, Modules
<1>13. ASSUME NEW f \in Files, pcd_release(f)
       PROVE  TypeOK' /\ CountOK'
  <2>1. CASE Fault("freed") /\ UNCHANGED pcd
    BY <1>2, <2>1
  <2>2. CASE /\ file' = [file EXCEPT ![f] = Closed]
             /\ UNCHANGED <<regions, pcd_class, cdevs, nodes, freed, pcd, drivervars>>
    BY <2>2 DEF drivervars, mod
  <2>3. QED BY <1>13, <2>1, <2>2 DEF pcd_release
<1>14. CASE UNCHANGED vars
  BY <1>14 DEF vars, drivervars, mod
<1>15. QED BY <1>1, <1>3, <1>8, <1>9, <1>a, <1>10, <1>b, <1>11, <1>c, <1>12, <1>13, <1>14,
              ProbingTyped, UnregisterTyped DEF Next, Single
-----------------------------------------------------------------------------
(* What a step of a probe or remove is, seen from outside.                 *)

\* The thread finds a driver for the device it is at.
Finds(t) ==
  /\ Looking(t) /\ Unlocked(at[t], t) /\ dev[at[t]] = "unbound" /\ driver = "yes" /\ ~Unusable

Passes(t) ==
  /\ Looking(t) /\ Unlocked(at[t], t) /\ (driver # "no" => dev[at[t]] # "unbound")
  /\ Leave(t) /\ UNCHANGED <<registry, mod, bus, data, fault, books>>
Begins(t) ==
  /\ Finds(t) /\ cdevs' = cdevs \cup {Node(at[t])} /\ Goto(t, Doing("create", FALSE))
  /\ UNCHANGED <<regions, pcd_class, nodes, freed, file, mod, bus, data, fault, books>>
Refused(t) ==
  /\ Finds(t) /\ Leave(t) /\ unprobed' = unprobed \cup {at[t]}
  /\ UNCHANGED <<registry, mod, bus, data, fault, unregistered, cut, exited, mistaken, lost>>
Creates(t, ok) ==
  /\ work[t].pc = "create" /\ ~Unusable /\ driver = "yes" /\ (ok => ~NodeExists(Number(at[t])))
  /\ nodes' = nodes \cup (IF ok THEN {Node(at[t])} ELSE {})
  /\ device_pcd' = ok /\ Goto(t, Doing("test", ok))
  /\ UNCHANGED <<regions, pcd_class, cdevs, freed, file, mod, bus, total_devices, fault, books>>
Goes(t) ==
  /\ work[t].pc = "test" /\ driver = "yes" /\ Goto(t, [work[t] EXCEPT !.pc = "load"])
  /\ mistaken' = mistaken \cup (IF work[t].made THEN {} ELSE {at[t]})
  /\ UNCHANGED <<registry, mod, bus, data, fault, unregistered, unprobed, cut, exited, lost>>
Fails(t) ==
  /\ work[t].pc = "test" /\ driver = "yes" /\ Fail(t)
  /\ mistaken' = mistaken \cup (IF work[t].made THEN {at[t]} ELSE {})
  /\ UNCHANGED <<regions, pcd_class, nodes, mod, bus, data, fault, unregistered, cut, exited,
                 lost>>
Loads(t) ==
  /\ work[t].pc = "load" /\ driver = "yes"
  /\ Goto(t, [work[t] EXCEPT !.pc = "store", !.sum = total_devices])
  /\ UNCHANGED <<registry, mod, bus, data, fault, books>>
Counts(t) ==
  /\ work[t].pc = "store" /\ driver = "yes" /\ Change(t) = 1
  /\ total_devices' = work[t].sum + 1 /\ lost' = (lost \/ work[t].sum # total_devices)
  /\ Leave(t)
  /\ dev' = [dev EXCEPT ![at[t]] = "bound"] /\ unprobed' = unprobed \ {at[t]}
  /\ UNCHANGED <<registry, mod, driver, device_pcd, fault, unregistered, cut, exited, mistaken>>
Discounts ==
  /\ work["setup"].pc = "store" /\ driver = "yes" /\ setup = "exit" /\ Change("setup") = -1
  /\ lost' = (lost \/ work["setup"].sum # total_devices)
  /\ Leave("setup")
  /\ dev' = [dev EXCEPT ![at["setup"]] = "absent"] /\ file' = FilesWithout(at["setup"])
  /\ UNCHANGED <<regions, pcd_class, cdevs, nodes, freed, mod, driver, device_pcd, fault,
                 unregistered, unprobed, cut, exited, mistaken>>

\* The two that do not fault when the setup module unregisters the device it is at.
Strikes ==
  /\ setup = "exit" /\ work["setup"].pc = "none" /\ Unlocked(at["setup"], "setup")
  /\ dev[at["setup"]] = "bound" /\ driver = "yes" /\ ~Unusable
  /\ Destroy(at["setup"]) /\ Goto("setup", Doing("load", FALSE))
  /\ UNCHANGED <<regions, pcd_class, freed, file, mod, bus, data, fault, books>>
TakesOff ==
  /\ setup = "exit" /\ work["setup"].pc = "none" /\ Unlocked(at["setup"], "setup")
  /\ dev[at["setup"]] = "unbound"
  /\ dev' = [dev EXCEPT ![at["setup"]] = "absent"] /\ Leave("setup")
  /\ UNCHANGED <<registry, mod, driver, data, fault, books>>

LEMMA ProbingIs ==
  ASSUME IInv, NEW t \in Threads, Driver(Probing(t))
  PROVE  /\ at[t] \in Devs /\ at[t] < NDEV /\ UNCHANGED pcd /\ fault = "none"
         /\ \/ exited /\ Fault("text")
            \/ Passes(t) \/ Begins(t) \/ Refused(t) \/ (\E ok \in BOOLEAN : Creates(t, ok))
            \/ Goes(t) \/ Fails(t) \/ Loads(t) \/ Counts(t) \/ (t = "setup" /\ Discounts)
<1>1. UNCHANGED pcd /\ fault = "none" /\ (driver = "stale" \/ Unusable => exited)
  BY NotUsable DEF Driver, Up, IInv, DriverOK
<1>2. work[t].pc # "none" => at[t] \in Devs /\ at[t] < NDEV /\ driver # "no"
  BY WorkedOn DEF IInv, LoopsOK, ThreadOK
<1>3. driver \in {"no", "yes", "stale"} /\ TypeOK
  BY DEF IInv, TypeOK
<1>4. CASE Meet(t)
  <2>1. at[t] \in Devs /\ at[t] < NDEV /\ at[t] \in IdTable
    BY <1>3, <1>4, PositionDevice DEF Meet, Looking, IdTable
  <2>2. CASE Unusable /\ Fault("text")
    BY <1>1, <2>1, <2>2
  <2>3. CASE /\ dev[at[t]] = "unbound" /\ driver # "no" /\ ~Unusable /\ Begin(t)
    <3>1. Finds(t)
      BY <1>4, <2>3, Usable DEF Meet, Finds
    <3>2. QED BY <1>1, <2>1, <2>3, <3>1 DEF Begin, Begins, Refused, registry, books
  <2>4. CASE /\ dev[at[t]] = "unbound" /\ driver # "no" => ~Unusable /\ at[t] \notin IdTable
             /\ Leave(t) /\ UNCHANGED <<registry, mod, bus, data, fault, books>>
    BY <1>1, <1>4, <2>1, <2>4 DEF Meet, Passes
  <2>5. QED BY <1>4, <2>2, <2>3, <2>4 DEF Meet
<1>5. CASE CreateNode(t)
  <2>1. CASE Unusable /\ Fault("text")
    BY <1>1, <1>2, <1>5, <2>1 DEF CreateNode
  <2>2. CASE ~Unusable
    <3>1. driver = "yes"
      BY <1>2, <1>5, <2>2, Usable DEF CreateNode
    <3>2. PICK ok \in BOOLEAN :
             /\ ok => ~NodeExists(Number(at[t]))
             /\ nodes' = nodes \cup (IF ok THEN {Node(at[t])} ELSE {})
             /\ device_pcd' = ok
             /\ Goto(t, Doing("test", ok))
             /\ UNCHANGED <<regions, pcd_class, cdevs, freed, file, mod, bus, total_devices,
                            fault, books>>
      BY <1>5, <2>2 DEF CreateNode
    <3>3. Creates(t, ok)
      BY <1>5, <2>2, <3>1, <3>2 DEF CreateNode, Creates
    <3>4. QED BY <1>1, <1>2, <1>5, <3>3 DEF CreateNode
  <2>3. QED BY <1>5, <2>1, <2>2 DEF CreateNode
<1>6. CASE TestNode(t)
  <2>1. CASE driver = "stale" /\ Fault("text")
    BY <1>1, <1>2, <1>6, <2>1 DEF TestNode
  <2>2. CASE driver # "stale"
    <3>1. driver = "yes" /\ work[t].made \in BOOLEAN /\ device_pcd \in BOOLEAN
      BY <1>2, <1>3, <1>6, <2>2 DEF TestNode, TypeOK
    <3>2. /\ mistaken' = mistaken \cup (IF device_pcd = work[t].made THEN {} ELSE {at[t]})
          /\ UNCHANGED <<regions, pcd_class, nodes, mod, bus, data, fault, unregistered, cut,
                         exited, lost>>
          /\ work[t].pc = "test"
      BY <1>6, <2>2 DEF TestNode
    <3>3. CASE /\ device_pcd /\ Goto(t, [work[t] EXCEPT !.pc = "load"])
               /\ UNCHANGED <<cdevs, freed, file, unprobed>>
      <4>1. mistaken' = mistaken \cup (IF work[t].made THEN {} ELSE {at[t]})
        BY <3>1, <3>2, <3>3
      <4>2. QED BY <1>1, <1>2, <3>1, <3>2, <3>3, <4>1 DEF Goes, registry
    <3>4. CASE ~device_pcd /\ Fail(t)
      <4>1. mistaken' = mistaken \cup (IF work[t].made THEN {at[t]} ELSE {})
        BY <3>1, <3>2, <3>4
      <4>2. QED BY <1>1, <1>2, <3>1, <3>2, <3>4, <4>1 DEF Fails
    <3>5. QED BY <1>6, <2>2, <3>3, <3>4 DEF TestNode
  <2>3. QED BY <1>6, <2>1, <2>2 DEF TestNode
<1>7. CASE LoadTotal(t)
  BY <1>1, <1>2, <1>3, <1>7 DEF LoadTotal, Loads
<1>8. CASE StoreTotal(t)
  <2>1. Change(t) = 1 \/ (Change(t) = -1 /\ t = "setup" /\ setup = "exit")
    BY DEF Change, Removing
  <2>2. CASE Change(t) = 1
    BY <1>1, <1>2, <1>3, <1>8, <2>2 DEF StoreTotal, Counts, registry
  <2>3. CASE Change(t) = -1 /\ t = "setup" /\ setup = "exit"
    BY <1>1, <1>2, <1>3, <1>8, <2>3 DEF StoreTotal, Discounts
  <2>4. QED BY <2>1, <2>2, <2>3
<1>9. QED BY <1>4, <1>5, <1>6, <1>7, <1>8 DEF Driver, Probing

LEMMA UnregisterIs ==
  ASSUME IInv, Driver(UnregisterDevice)
  PROVE  /\ at["setup"] \in Devs /\ at["setup"] < NDEV /\ UNCHANGED pcd /\ fault = "none"
         /\ setup = "exit"
         /\ \/ exited /\ Fault("text")
            \/ dev[at["setup"]] = "absent" /\ Fault("absent")
            \/ Strikes \/ TakesOff
<1>1. UNCHANGED pcd /\ fault = "none" /\ (Unusable => exited) /\ TypeOK
  BY NotUsable DEF Driver, Up, IInv
<1>2. at["setup"] \in Devs /\ at["setup"] < NDEV
  BY <1>1, PositionDevice DEF Driver, UnregisterDevice, Threads
<1>3. dev[at["setup"]] = "bound" /\ ~Unusable => driver = "yes"
  BY <1>2, Usable DEF IInv, DevicesOK, Bound
<1>4. QED BY <1>1, <1>2, <1>3 DEF Driver, UnregisterDevice, Strikes, TakesOff
-----------------------------------------------------------------------------
(* What the two modules hold.                                              *)
LEMMA SingleControl ==
  ASSUME IInv, \/ Single(AllocRegion) \/ Single(AddCdev) \/ Single(CreateClass)
               \/ Single(CreateDevice) \/ Single(pcd_exit)
  PROVE  DriverOK' /\ ClassOK' /\ RegionsOK'
<1>1. /\ UNCHANGED <<driver, drv, device_number_base, exited, mistaken>> /\ DriverOK'
      /\ TypeOK /\ ClassOK /\ RegionsOK
  BY DEF Single, drivervars, bus, mod, books, IInv, DriverOK
<1> USE DEF Single, alloc_fail, unregister_chrdev, cdev_del, class_del
<1>2. CASE Single(AllocRegion)
  BY <1>1, <1>2 DEF AllocRegion, TypeOK, ClassOK, RegionsOK
<1>3. CASE Single(AddCdev)
  BY <1>1, <1>3 DEF AddCdev, TypeOK, ClassOK, RegionsOK
<1>4. CASE Single(CreateClass)
  BY <1>1, <1>4 DEF CreateClass, TypeOK, ClassOK, RegionsOK
<1>5. CASE Single(CreateDevice)
  BY <1>1, <1>5 DEF CreateDevice, TypeOK, ClassOK, RegionsOK
<1>6. CASE Single(pcd_exit)
  BY <1>1, <1>6 DEF pcd_exit, TypeOK, ClassOK, RegionsOK
<1>7. QED BY <1>2, <1>3, <1>4, <1>5, <1>6

LEMMA DriverControl ==
  ASSUME IInv, \/ Driver(AllocDriverRegion) \/ Driver(CreateDriverClass)
               \/ Driver(RegisterDriver) \/ Driver(AllVisited)
               \/ Driver(pcd_platform_driver_exit) \/ Driver(DestroyClass)
               \/ Driver(DriverGone)
  PROVE  DriverOK' /\ ClassOK' /\ RegionsOK'
<1>1. TypeOK /\ DriverOK /\ ClassOK /\ RegionsOK
  BY DEF IInv
<1> USE DEF Driver, pcd
<1>2. CASE Driver(AllocDriverRegion)
  BY <1>1, <1>2 DEF AllocDriverRegion, bus, books, TypeOK, DriverOK, ClassOK, RegionsOK
<1>3. CASE Driver(CreateDriverClass)
  BY <1>1, <1>3, CharAssumption
     DEF CreateDriverClass, bus, books, TypeOK, DriverOK, ClassOK, RegionsOK
<1>4. CASE Driver(RegisterDriver)
  BY <1>1, <1>4 DEF RegisterDriver, Register, Fault, registry, bus, mod, books,
                    TypeOK, DriverOK, ClassOK, RegionsOK
<1>5. CASE Driver(AllVisited)
  BY <1>1, <1>5 DEF AllVisited, registry, bus, books, TypeOK, DriverOK, ClassOK, RegionsOK
<1>6. CASE Driver(pcd_platform_driver_exit)
  BY <1>1, <1>6 DEF pcd_platform_driver_exit, Register, registry,
                    TypeOK, DriverOK, ClassOK, RegionsOK
<1>7. CASE Driver(DestroyClass)
  BY <1>1, <1>7 DEF DestroyClass, bus, books, TypeOK, DriverOK, ClassOK, RegionsOK
<1>8. CASE Driver(DriverGone)
  BY <1>1, <1>8 DEF DriverGone, registry, books, TypeOK, DriverOK, ClassOK, RegionsOK
<1>9. QED BY <1>2, <1>3, <1>4, <1>5, <1>6, <1>7, <1>8

LEMMA OtherControl ==
  ASSUME IInv,
         UNCHANGED <<regions, pcd_class, pcd, drv, device_number_base, driver, exited>>,
         mistaken' = mistaken \/ driver = "yes"
  PROVE  DriverOK' /\ ClassOK' /\ RegionsOK'
BY DEF IInv, DriverOK, ClassOK, RegionsOK, pcd

LEMMA ControlStep ==
  ASSUME IInv, [Next]_vars
  PROVE  DriverOK' /\ ClassOK' /\ RegionsOK'
<1>1. ASSUME NEW cause, Fault(cause), UNCHANGED pcd
      PROVE  DriverOK' /\ ClassOK' /\ RegionsOK'
  BY <1>1, OtherControl DEF Fault, registry, mod, bus, books
<1>2. ASSUME NEW t \in Threads, Driver(Probing(t))
      PROVE  DriverOK' /\ ClassOK' /\ RegionsOK'
  BY <1>1, <1>2, ProbingIs, OtherControl
     DEF Passes, Begins, Refused, Creates, Goes, Fails, Loads, Counts, Discounts,
         registry, mod, bus, books
<1>3. CASE Driver(UnregisterDevice) \/ Driver(RegisterDevice)
  BY <1>1, <1>3, UnregisterIs, OtherControl
     DEF Strikes, TakesOff, Driver, RegisterDevice, registry, mod, bus, books
<1>4. CASE \/ Driver(pcdev_platform_init) \/ Driver(SetupReturns)
           \/ Driver(pcdev_platform_exit) \/ Driver(SetupGone)
  BY <1>4, OtherControl
     DEF Driver, pcdev_platform_init, SetupReturns, pcdev_platform_exit, SetupGone,
         registry, bus, books
<1>5. ASSUME NEW f \in Files, NEW no \in Numbers, pcd_open(f, no)
      PROVE  DriverOK' /\ ClassOK' /\ RegionsOK'
  BY <1>1, <1>5, OtherControl DEF pcd_open, Opens, mod, bus
<1>6. ASSUME NEW f \in Files, pcd_release(f)
      PROVE  DriverOK' /\ ClassOK' /\ RegionsOK'
  BY <1>1, <1>6, OtherControl DEF pcd_release, drivervars, mod, bus, books
<1>7. CASE UNCHANGED vars
  BY <1>7, OtherControl DEF vars, registry, drivervars, mod, bus, books
<1>8. QED BY <1>2, <1>3, <1>4, <1>5, <1>6, <1>7, SingleControl, DriverControl DEF Next
-----------------------------------------------------------------------------
(* The threads.                                                            *)

\* Thread t moves, in its own part of the code and with its own device.
LEMMA LoopsOne ==
  ASSUME IInv, NEW t \in Threads,
         UNCHANGED <<setup, drv, driver>>,
         \A u \in Threads \ {t} : /\ at'[u] = at[u] /\ work'[u] = work[u]
                                  /\ work[u].pc # "none" => dev'[at[u]] = dev[at[u]],
         mistaken \subseteq mistaken',
         work'[t].pc # "none" =>
           at'[t] = at[t] /\ \A u \in Threads \ {t} : work[u].pc = "none" \/ at[u] # at[t],
         ThreadOK(t)',
         t = "setup" /\ Removing' =>
           work'["setup"].pc \in {"load", "store"} /\ ~work'["setup"].made
  PROVE  LoopsOK'
<1>1. \A u \in Threads : ThreadOK(u)
  BY DEF IInv, LoopsOK
<1>2. ASSUME NEW u \in Threads, u # t PROVE ThreadOK(u)'
  <2>1. (Change(u) = 1)' <=> Change(u) = 1
    BY <1>2 DEF Change, Removing
  <2>2. /\ at'[u] = at[u] /\ work'[u] = work[u]
        /\ work[u].pc # "none" => dev'[at[u]] = dev[at[u]]
    BY <1>2
  <2>3. QED BY <1>1, <2>1, <2>2 DEF ThreadOK
<1>3. Removing' => work'["setup"].pc \in {"load", "store"} /\ ~work'["setup"].made
  <2>1. CASE t = "setup"
    BY <2>1
  <2>2. CASE t # "setup"
    <3>1. work'["setup"] = work["setup"]
      BY <2>2 DEF Threads
    <3>2. QED BY <3>1 DEF Removing, IInv, LoopsOK
  <2>3. QED BY <2>1, <2>2
<1>4. work'["setup"].pc # "none" /\ work'["driver"].pc # "none" => at'["setup"] # at'["driver"]
  BY DEF Threads
<1>5. QED BY <1>2, <1>3, <1>4 DEF LoopsOK

\* The threads that are in a probe or remove stay where they are.
LEMMA LoopsSame ==
  ASSUME IInv, work' = work, mistaken' = mistaken,
         \A t \in Threads : work[t].pc # "none" => at'[t] = at[t] /\ dev'[at[t]] = dev[at[t]],
         driver # "no" => driver' # "no",
         work["setup"].pc # "none" => setup' = setup,
         work["driver"].pc # "none" => drv' \in {"attach", "again"}
  PROVE  LoopsOK'
<1>1. LoopsOK
  BY DEF IInv
<1>2. Removing' <=> Removing
  BY DEF Removing
<1>3. ASSUME NEW t \in Threads PROVE ThreadOK(t)'
  BY <1>1, <1>2 DEF LoopsOK, ThreadOK, Change
<1>4. QED BY <1>1, <1>2, <1>3 DEF LoopsOK, Threads

\* No thread is in a probe of a device that is not on the bus, or that is being found.
LEMMA FoundApart ==
  ASSUME IInv, NEW t \in Threads, work[t].pc = "none",
         Unlocked(at[t], t) \/ dev[at[t]] = "absent"
  PROVE  \A u \in Threads \ {t} : work[u].pc = "none" \/ at[u] # at[t]
BY DEF IInv, LoopsOK, ThreadOK, Unlocked

LEMMA BusyApart ==
  ASSUME IInv, NEW t \in Threads, work[t].pc # "none"
  PROVE  \A u \in Threads \ {t} : work[u].pc = "none" \/ at[u] # at[t]
BY WorkApart

\* A thread that leaves is in no probe or remove.
LEMMA LoopsLeave ==
  ASSUME IInv, NEW t \in Threads, Leave(t), UNCHANGED <<setup, drv, driver>>,
         \A u \in Threads \ {t} : work[u].pc # "none" => dev'[at[u]] = dev[at[u]],
         mistaken \subseteq mistaken'
  PROVE  LoopsOK'
<1>1. work'[t] = Doing("none", FALSE) /\ work'[t].pc = "none" /\ work'[t].made = FALSE
  BY LeaveIs DEF IInv, Rest, Doing
<1>2. \A u \in Threads \ {t} : at'[u] = at[u] /\ work'[u] = work[u]
  BY LeaveIs DEF IInv
<1>3. ThreadOK(t)'
  BY <1>1 DEF ThreadOK
<1>4. t = "setup" => ~Removing'
  BY <1>1 DEF Removing
<1>5. QED BY <1>1, <1>2, <1>3, <1>4, LoopsOne

\* One that stays with its device.
LEMMA LoopsGoto ==
  ASSUME IInv, NEW t \in Threads, NEW w, Goto(t, w), UNCHANGED <<setup, drv, driver, dev>>,
         mistaken \subseteq mistaken',
         \A u \in Threads \ {t} : work[u].pc = "none" \/ at[u] # at[t],
         ThreadOK(t)',
         t = "setup" /\ setup = "exit" /\ w.pc # "none" => w.pc \in {"load", "store"} /\ ~w.made
  PROVE  LoopsOK'
<1>1. at' = at /\ work'[t] = w /\ \A u \in Threads \ {t} : work'[u] = work[u]
  BY GotoIs DEF IInv
<1>2. t = "setup" /\ Removing' =>
        work'["setup"].pc \in {"load", "store"} /\ ~work'["setup"].made
  BY <1>1 DEF Removing
<1>3. QED BY <1>1, <1>2, LoopsOne

LEMMA LoopsOfProbing ==
  ASSUME IInv, NEW t \in Threads, Driver(Probing(t))
  PROVE  LoopsOK'
<1>1. /\ at[t] \in Devs /\ TypeOK
      /\ \A u \in Threads \ {t} : work[u].pc # "none" => at[u] \in Devs
  BY ProbingIs, WorkedOn DEF IInv
<1>2. CASE Fault("text")
  BY <1>2, LoopsSame DEF Fault, mod, loops, bus, books, IInv, LoopsOK, ThreadOK, Threads
<1>3. CASE Passes(t) \/ Refused(t) \/ Fails(t)
  BY <1>3, LoopsLeave DEF Passes, Refused, Fails, Fail, mod, bus, books
<1>4. CASE Begins(t)
  <2>1. /\ work[t].pc = "none" /\ at' = at /\ work'[t] = Doing("create", FALSE)
        /\ UNCHANGED <<setup, drv, driver, dev, mistaken>> /\ Looking(t)
        /\ Goto(t, Doing("create", FALSE)) /\ dev[at[t]] = "unbound" /\ driver = "yes"
    BY <1>1, <1>4, GotoIs DEF Begins, Finds, Looking, mod, bus, books
  <2>2. (Change(t) = 1)' /\ (t = "setup" => setup = "in") /\ (t = "driver" => drv \in {"attach", "again"})
    BY <2>1 DEF Looking, Change, Removing
  <2>3. ThreadOK(t)'
    BY <1>1, <2>1, <2>2 DEF ThreadOK, Doing
  <2>4. \A u \in Threads \ {t} : work[u].pc = "none" \/ at[u] # at[t]
    BY <1>4, <2>1, FoundApart DEF Begins, Finds
  <2>5. QED BY <2>1, <2>2, <2>3, <2>4, LoopsGoto DEF Doing
<1>5. ASSUME NEW w, Goto(t, w), work[t].pc # "none", w.pc # "none",
             UNCHANGED <<setup, drv, driver, dev>>, mistaken \subseteq mistaken',
             w.pc = "create" => ~w.made,
             w.pc \in {"load", "store"} /\ Change(t) = 1 /\ at[t] \notin mistaken' => w.made,
             t = "setup" /\ setup = "exit" => w.pc \in {"load", "store"} /\ ~w.made
      PROVE  LoopsOK'
  <2>1. at' = at /\ work'[t] = w
    BY <1>1, <1>5, GotoIs
  <2>2. (Change(t) = 1)' <=> Change(t) = 1
    BY <1>5, <2>1 DEF Change, Removing
  <2>3. ThreadOK(t)'
    BY <1>5, <2>1, <2>2 DEF ThreadOK, IInv, LoopsOK
  <2>4. \A u \in Threads \ {t} : work[u].pc = "none" \/ at[u] # at[t]
    BY <1>5, BusyApart
  <2>5. QED BY <1>5, <2>3, <2>4, LoopsGoto
<1>6. ASSUME NEW ok \in BOOLEAN, Creates(t, ok) PROVE LoopsOK'
  <2>1. Doing("test", ok).pc = "test"
    BY DEF Doing
  <2>2. ~(t = "setup" /\ setup = "exit")
    BY <1>6 DEF Creates, Removing, IInv, LoopsOK
  <2>3. work[t].pc = "create" /\ Goto(t, Doing("test", ok))
        /\ UNCHANGED <<setup, drv, driver, dev, mistaken>>
    BY <1>6 DEF Creates, mod, bus, books
  <2>4. QED BY <1>5, <2>1, <2>2, <2>3
<1>7. CASE Goes(t)
  <2> DEFINE w == [work[t] EXCEPT !.pc = "load"]
  <2>1. w.pc = "load" /\ w.made = work[t].made
    BY <1>1 DEF TypeOK
  <2>2. ~(t = "setup" /\ setup = "exit")
    BY <1>7 DEF Goes, Removing, IInv, LoopsOK
  <2>3. /\ work[t].pc = "test" /\ Goto(t, w)
        /\ UNCHANGED <<setup, drv, driver, dev>> /\ mistaken \subseteq mistaken'
        /\ at[t] \notin mistaken' => w.made
    BY <1>7, <2>1 DEF Goes, mod, bus
  <2> HIDE DEF w
  <2>4. QED BY <1>5, <2>1, <2>2, <2>3
<1>8. CASE Loads(t)
  <2> DEFINE w == [work[t] EXCEPT !.pc = "store", !.sum = total_devices]
  <2>1. w.pc = "store" /\ w.made = work[t].made
    BY <1>1 DEF TypeOK
  <2>2. /\ work[t].pc = "load" /\ Goto(t, w)
        /\ UNCHANGED <<setup, drv, driver, dev, mistaken>>
    BY <1>8 DEF Loads, mod, bus, books
  <2>3. /\ Change(t) = 1 /\ at[t] \notin mistaken' => w.made
        /\ t = "setup" /\ setup = "exit" => ~w.made
    BY <2>1, <2>2 DEF IInv, LoopsOK, ThreadOK, Removing
  <2> HIDE DEF w
  <2>4. QED BY <1>5, <2>1, <2>2, <2>3
<1>9. ASSUME NEW v, work[t].pc # "none", Leave(t), dev' = [dev EXCEPT ![at[t]] = v],
             UNCHANGED <<setup, drv, driver, mistaken>>
      PROVE  LoopsOK'
  <2>1. \A u \in Threads \ {t} : work[u].pc # "none" => dev'[at[u]] = dev[at[u]]
    BY <1>1, <1>9, BusyApart DEF TypeOK
  <2>2. QED BY <1>9, <2>1, LoopsLeave
<1>10. CASE Counts(t) \/ (t = "setup" /\ Discounts)
  BY <1>9, <1>10 DEF Counts, Discounts, mod
<1>11. QED BY <1>2, <1>3, <1>4, <1>6, <1>7, <1>8, <1>10, ProbingIs

LEMMA LoopsStep ==
  ASSUME IInv, [Next]_vars
  PROVE  LoopsOK'
<1>1. ASSUME UNCHANGED <<at, work, mistaken, dev>>,
             driver # "no" => driver' # "no",
             work["setup"].pc # "none" => setup' = setup,
             work["driver"].pc # "none" => drv' \in {"attach", "again"}
      PROVE  LoopsOK'
  BY <1>1, LoopsSame
<1>2. work["driver"].pc # "none" => drv \in {"attach", "again"} /\ at["driver"] < NDEV
  BY WorkedOn DEF IInv, LoopsOK, ThreadOK, Threads
<1>3. work["setup"].pc # "none" => setup \in {"in", "exit"} /\ at["setup"] < NDEV
  BY WorkedOn DEF IInv, LoopsOK, ThreadOK, Threads
<1>4. NDEV \in Int /\ TypeOK /\ "setup" \in Threads
  BY CharAssumption DEF IInv, Threads
<1>5. ASSUME UNCHANGED drivervars PROVE LoopsOK'
  BY <1>1, <1>2, <1>5 DEF drivervars, mod, loops, bus, books
<1>6. ASSUME NEW cause, Fault(cause) PROVE LoopsOK'
  BY <1>1, <1>2, <1>6 DEF Fault, mod, loops, bus, books
<1>7. CASE Driver(pcdev_platform_init)
  <2>1. work["setup"].pc = "none" /\ at'["driver"] = at["driver"]
    BY <1>3, <1>4, <1>7 DEF Driver, pcdev_platform_init, TypeOK, Threads
  <2>2. QED BY <1>2, <1>7, <2>1, LoopsSame DEF Driver, pcdev_platform_init, bus, Threads
<1>8. CASE Driver(pcdev_platform_exit)
  <2>1. work["setup"].pc = "none" /\ at'["driver"] = at["driver"]
    BY <1>3, <1>4, <1>8 DEF Driver, pcdev_platform_exit, TypeOK, Threads
  <2>2. QED BY <1>2, <1>8, <2>1, LoopsSame DEF Driver, pcdev_platform_exit, bus, Threads
<1>9. CASE Driver(SetupReturns) \/ Driver(SetupGone)
  BY <1>1, <1>2, <1>3, <1>4, <1>9 DEF Driver, SetupReturns, SetupGone, loops, bus, books
<1>10. CASE Driver(RegisterDevice)
  <2>1. at["setup"] \in Devs /\ dev[at["setup"]] = "absent" /\ setup = "in"
        /\ UNCHANGED <<setup, drv, driver>>
    BY <1>4, <1>10, PositionDevice DEF Driver, RegisterDevice, mod
  <2>2. work["setup"].pc = "none"
    BY <2>1 DEF IInv, LoopsOK, ThreadOK, Change, Removing, Threads
  <2>3. \A u \in Threads \ {"setup"} : work[u].pc = "none" \/ at[u] # at["setup"]
    BY <1>4, <2>1, <2>2, FoundApart
  <2>4. CASE Leave("setup") /\ UNCHANGED <<dev, mistaken>>
    BY <1>4, <2>1, <2>4, LoopsLeave
  <2>5. CASE dev' = [dev EXCEPT ![at["setup"]] = "unbound"] /\ UNCHANGED <<loops, books>>
    <3>1. \A u \in Threads : work[u].pc # "none" => dev'[at[u]] = dev[at[u]] /\ at'[u] = at[u]
      BY <1>4, <2>1, <2>2, <2>3, <2>5, WorkedOn DEF TypeOK, loops
    <3>2. QED BY <1>2, <2>1, <2>5, <3>1, LoopsSame DEF loops, books
  <2>6. QED BY <1>10, <2>4, <2>5 DEF Driver, RegisterDevice
<1>11. CASE Driver(UnregisterDevice)
  <2>1. at["setup"] \in Devs /\ setup = "exit"
    BY <1>11, UnregisterIs
  <2>2. CASE Strikes
    <3>1. /\ Goto("setup", Doing("load", FALSE)) /\ work["setup"].pc = "none"
          /\ UNCHANGED <<setup, drv, driver, dev, mistaken>> /\ dev[at["setup"]] = "bound"
          /\ driver = "yes"
      BY <2>2 DEF Strikes, mod, bus, books
    <3>2. \A u \in Threads \ {"setup"} : work[u].pc = "none" \/ at[u] # at["setup"]
      BY <1>4, <2>2, <3>1, FoundApart DEF Strikes
    <3>3. work'["setup"] = Doing("load", FALSE) /\ at' = at
      BY <1>4, <3>1, GotoIs
    <3>4. ThreadOK("setup")'
      BY <2>1, <3>1, <3>3 DEF ThreadOK, Change, Removing, Doing
    <3>5. QED BY <1>4, <3>1, <3>2, <3>4, LoopsGoto DEF Doing
  <2>3. CASE TakesOff
    <3>1. /\ Leave("setup") /\ work["setup"].pc = "none" /\ UNCHANGED <<setup, drv, driver, mistaken>>
          /\ dev' = [dev EXCEPT ![at["setup"]] = "absent"]
      BY <2>3 DEF TakesOff, mod, books
    <3>2. \A u \in Threads \ {"setup"} : work[u].pc = "none" \/ at[u] # at["setup"]
      BY <1>4, <2>3, <3>1, FoundApart DEF TakesOff
    <3>3. \A u \in Threads \ {"setup"} : work[u].pc # "none" => dev'[at[u]] = dev[at[u]]
      BY <1>4, <2>1, <3>1, <3>2, WorkedOn DEF TypeOK
    <3>4. QED BY <1>4, <3>1, <3>3, LoopsLeave
  <2>4. QED BY <1>6, <1>11, <2>2, <2>3, UnregisterIs
<1>12. CASE \/ Driver(AllocDriverRegion) \/ Driver(CreateDriverClass)
            \/ Driver(DestroyClass) \/ Driver(DriverGone) \/ Driver(AllVisited)
  BY <1>1, <1>2, <1>4, <1>12
     DEF Driver, AllocDriverRegion, CreateDriverClass, DestroyClass, DriverGone, AllVisited,
         loops, bus, books
<1>13. CASE Driver(RegisterDriver) \/ Driver(pcd_platform_driver_exit)
  <2>1. ASSUME NEW visiting, NEW after, Register(visiting, after), drv \in {"class", "live"}
        PROVE  LoopsOK'
    <3>1. work["driver"].pc = "none" /\ at'["setup"] = at["setup"]
      BY <1>2, <1>4, <2>1 DEF Register, TypeOK, Threads
    <3>2. QED BY <2>1, <3>1, LoopsSame DEF Register, Threads
  <2>2. QED BY <1>6, <1>13, <2>1 DEF Driver, RegisterDriver, pcd_platform_driver_exit
<1>14. ASSUME NEW f \in Files, NEW no \in Numbers, pcd_open(f, no) PROVE LoopsOK'
  BY <1>1, <1>2, <1>6, <1>14 DEF pcd_open, Opens, mod, loops, bus
<1>15. ASSUME NEW f \in Files, pcd_release(f) PROVE LoopsOK'
  BY <1>5, <1>6, <1>15 DEF pcd_release
<1>16. CASE UNCHANGED vars
  BY <1>5, <1>16 DEF vars
<1>17. QED BY <1>5, <1>7, <1>8, <1>9, <1>10, <1>11, <1>12, <1>13, <1>14, <1>15, <1>16,
              LoopsOfProbing DEF Next, Single
-----------------------------------------------------------------------------
(* The devices.                                                            *)

\* Nothing is lost while a module only moves on in its own code.
LEMMA DevicesSame ==
  ASSUME IInv, UNCHANGED <<dev, driver, setup, at, unregistered, unprobed>>,
         \/ UNCHANGED drv
         \/ drv' \notin {"attach", "live"}
         \/ driver # "yes"
  PROVE  DevicesOK'
BY DEF IInv, DevicesOK, Bound, Reached

\* A thread is done with its device, and what has become of it is in the books.
LEMMA DevicesLeave ==
  ASSUME IInv, NEW t \in Threads, Leave(t), at[t] \in Devs,
         UNCHANGED <<setup, drv, driver>>, unregistered \subseteq unregistered',
         \A j \in Devs : j # at[t] => /\ dev'[j] = dev[j]
                                      /\ (j \in unprobed' <=> j \in unprobed),
         t = "setup" => \/ setup = "in" /\ (dev'[at[t]] # "absent" \/ at[t] \in unregistered')
                        \/ setup = "exit" /\ dev'[at[t]] = "absent",
         t = "driver" => (dev'[at[t]] = "absent" <=> dev[at[t]] = "absent"),
         dev'[at[t]] = "bound" => driver # "no",
         dev'[at[t]] = "unbound" => at[t] \in unprobed' \/ driver = "no"
  PROVE  DevicesOK'
<1>1. /\ DevicesOK /\ at["setup"] \in Int /\ at["driver"] \in Int /\ Devs \subseteq Int
      /\ Bound = {i \in Devs : dev[i] = "bound"} /\ Bound' = {i \in Devs : dev'[i] = "bound"}
  BY CharAssumption DEF IInv, TypeOK, Devs, Threads, Bound
<1>2. /\ at'[t] = at[t] + 1
      /\ \A u \in Threads \ {t} : at'[u] = at[u]
  BY LeaveIs DEF IInv
<1>3. CASE t = "setup"
  <2>1. at'["setup"] = at["setup"] + 1 /\ at'["driver"] = at["driver"]
    BY <1>2, <1>3 DEF Threads
  <2>2. \A i \in Bound' : driver' # "no"
    BY <1>1 DEF DevicesOK
  <2>3. ASSUME NEW i \in Devs, dev'[i] # "absent"
        PROVE  Reached(i)' \/ (setup' = "in" /\ i = at'["setup"])
    BY <1>1, <1>3, <2>1, <2>3 DEF DevicesOK, Reached
  <2>4. ASSUME NEW i \in Devs, dev'[i] = "absent" /\ Reached(i)'
        PROVE  i \in unregistered'
    <3>1. CASE i = at["setup"]
      BY <1>1, <1>3, <2>1, <2>4, <3>1 DEF Reached
    <3>2. CASE i # at["setup"]
      BY <1>1, <1>3, <2>1, <2>4, <3>2 DEF DevicesOK, Reached
    <3>3. QED BY <3>1, <3>2
  <2>5. ASSUME driver = "yes", drv \in {"attach", "live"}, NEW i \in Devs, dev'[i] = "unbound"
        PROVE  i \in unprobed' \/ (drv = "attach" /\ i >= at["driver"])
    BY <1>1, <1>3, <2>5 DEF DevicesOK
  <2>6. QED BY <2>1, <2>2, <2>3, <2>4, <2>5 DEF DevicesOK
<1>4. CASE t = "driver"
  <2>1. at'["driver"] = at["driver"] + 1 /\ at'["setup"] = at["setup"]
    BY <1>2, <1>4 DEF Threads
  <2>2. \A i \in Bound' : driver' # "no"
    BY <1>1 DEF DevicesOK
  <2>3. /\ \A i \in Devs : (dev'[i] = "absent" <=> dev[i] = "absent")
        /\ \A i \in Devs : (Reached(i)' <=> Reached(i))
    BY <1>4, <2>1 DEF Reached
  <2>4. /\ \A i \in Devs : dev'[i] # "absent" => Reached(i)' \/ (setup' = "in" /\ i = at'["setup"])
        /\ \A i \in Devs : dev'[i] = "absent" /\ Reached(i)' => i \in unregistered'
    BY <1>1, <2>1, <2>3 DEF DevicesOK
  <2>5. ASSUME driver = "yes", drv \in {"attach", "live"}, NEW i \in Devs, dev'[i] = "unbound"
        PROVE  \/ i \in unprobed'
               \/ drv = "attach" /\ i >= at["driver"] + 1
               \/ setup = "in" /\ i = at["setup"]
    BY <1>1, <1>4, <2>5 DEF DevicesOK
  <2>6. QED BY <2>1, <2>2, <2>4, <2>5 DEF DevicesOK
<1>5. QED BY <1>3, <1>4 DEF Threads

LEMMA DevicesOfProbing ==
  ASSUME IInv, NEW t \in Threads, Driver(Probing(t))
  PROVE  DevicesOK'
<1>1. at[t] \in Devs /\ TypeOK /\ LoopsOK
  BY ProbingIs DEF IInv
<1>2. CASE \/ Fault("text") \/ Begins(t) \/ (\E ok \in BOOLEAN : Creates(t, ok)) \/ Goes(t)
           \/ Loads(t)
  <2>1. UNCHANGED <<dev, driver, setup, at, unregistered, unprobed, drv>>
    BY <1>2 DEF Fault, Begins, Creates, Goes, Loads, Goto, bus, mod, loops, books
  <2>2. QED BY <2>1, DevicesSame
<1>3. work[t].pc # "none" /\ Change(t) = 1 =>
        dev[at[t]] = "unbound" /\ (t = "setup" => setup = "in")
  BY <1>1 DEF LoopsOK, ThreadOK, Change, Removing
<1>4. CASE Passes(t)
  <2>1. Leave(t) /\ UNCHANGED <<setup, drv, driver, dev, unregistered, unprobed>>
    BY <1>4 DEF Passes, mod, bus, books
  <2>2. /\ t = "setup" => setup = "in" /\ dev[at[t]] # "absent"
        /\ driver # "no" => dev[at[t]] # "unbound"
    BY <1>4 DEF Passes, Looking
  <2>3. dev[at[t]] = "bound" => driver # "no"
    BY <1>1 DEF IInv, DevicesOK, Bound
  <2>4. QED BY <1>1, <2>1, <2>2, <2>3, DevicesLeave
<1>5. CASE Refused(t) \/ Fails(t)
  <2>1. Leave(t) /\ unprobed' = unprobed \cup {at[t]}
        /\ UNCHANGED <<setup, drv, driver, dev, unregistered>>
    BY <1>5 DEF Refused, Fails, Fail, mod, bus, books
  <2>2. dev[at[t]] = "unbound" /\ (t = "setup" => setup = "in")
    <3>1. CASE Refused(t)
      BY <3>1 DEF Refused, Finds, Looking
    <3>2. CASE Fails(t)
      <4>1. Change(t) = 1
        BY <1>1, <3>2 DEF Fails, LoopsOK, Change
      <4>2. QED BY <1>3, <3>2, <4>1 DEF Fails
    <3>3. QED BY <1>5, <3>1, <3>2
  <2>3. QED BY <1>1, <2>1, <2>2, DevicesLeave
<1>6. CASE Counts(t)
  <2>1. /\ Leave(t) /\ unprobed' = unprobed \ {at[t]} /\ driver = "yes"
        /\ dev' = [dev EXCEPT ![at[t]] = "bound"]
        /\ UNCHANGED <<setup, drv, driver, unregistered>>
    BY <1>6 DEF Counts, mod
  <2>2. dev[at[t]] = "unbound" /\ (t = "setup" => setup = "in")
    BY <1>3, <1>6 DEF Counts
  <2>3. dev'[at[t]] = "bound" /\ \A j \in Devs : j # at[t] => dev'[j] = dev[j]
    BY <1>1, <2>1 DEF TypeOK
  <2>4. QED BY <1>1, <2>1, <2>2, <2>3, DevicesLeave
<1>7. CASE t = "setup" /\ Discounts
  <2>1. /\ Leave(t) /\ setup = "exit"
        /\ dev' = [dev EXCEPT ![at[t]] = "absent"]
        /\ UNCHANGED <<setup, drv, driver, unregistered, unprobed>>
    BY <1>7 DEF Discounts, mod
  <2>2. dev'[at[t]] = "absent" /\ \A j \in Devs : j # at[t] => dev'[j] = dev[j]
    BY <1>1, <2>1 DEF TypeOK
  <2>3. QED BY <1>1, <1>7, <2>1, <2>2, DevicesLeave
<1>8. QED BY <1>2, <1>4, <1>5, <1>6, <1>7, ProbingIs

LEMMA DevicesStep ==
  ASSUME IInv, [Next]_vars
  PROVE  DevicesOK'
<1>1. \/ Single(AllocRegion) \/ Single(AddCdev) \/ Single(CreateClass)
      \/ Single(CreateDevice) \/ Single(pcd_exit)
      => DevicesOK'
  BY DevicesSame DEF Single, drivervars, bus, mod, loops, books
<1>2. ASSUME NEW cause \in {"text", "absent", "freed"}, Fault(cause)
      PROVE  DevicesOK'
  BY <1>2, DevicesSame DEF Fault, bus, mod, loops, books
<1>3. CASE Driver(pcdev_platform_init)
  <2>1. \A i \in Devs : dev[i] = "absent"
    BY <1>3 DEF IInv, DevicesOK, Reached, Driver, pcdev_platform_init
  <2>2. setup' = "in" /\ at'["setup"] = 0 /\ UNCHANGED <<dev, driver>>
    BY <1>3 DEF Driver, pcdev_platform_init, bus, IInv, TypeOK, Threads
  <2>3. QED BY <2>1, <2>2, CharAssumption DEF DevicesOK, Bound, Reached, Devs
<1>4. CASE Driver(RegisterDevice)
  <2>1. /\ at["setup"] \in Devs /\ dev[at["setup"]] = "absent" /\ setup = "in"
        /\ UNCHANGED <<setup, drv, driver>> /\ "setup" \in Threads /\ TypeOK
    BY <1>4, PositionDevice DEF Driver, RegisterDevice, mod, IInv, Threads
  <2>2. CASE /\ unregistered' = unregistered \cup {at["setup"]} /\ Leave("setup")
             /\ UNCHANGED <<dev, unprobed>>
    BY <2>1, <2>2, DevicesLeave
  <2>3. CASE /\ dev' = [dev EXCEPT ![at["setup"]] = "unbound"]
             /\ UNCHANGED <<at, unregistered, unprobed>>
    <3>1. \A j \in Devs : dev'[j] = IF j = at["setup"] THEN "unbound" ELSE dev[j]
      BY <2>1, <2>3 DEF TypeOK
    <3>2. QED BY <2>1, <2>3, <3>1 DEF IInv, DevicesOK, Bound, Reached
  <2>4. QED BY <1>4, <2>2, <2>3 DEF Driver, RegisterDevice, loops, books
<1>5. CASE Driver(SetupReturns)
  <2>1. setup = "in" /\ at["setup"] = NDEV /\ setup' = "live"
        /\ UNCHANGED <<dev, driver, drv, at, unregistered, unprobed>>
    BY <1>5 DEF Driver, SetupReturns, bus, loops, books
  <2>2. \A i \in Devs : i < at["setup"] /\ i # at["setup"]
    BY <2>1, CharAssumption DEF Devs
  <2>3. QED BY <2>1, <2>2 DEF IInv, DevicesOK, Bound, Reached
<1>6. CASE Driver(pcdev_platform_exit)
  <2>1. setup = "live" /\ setup' = "exit" /\ at'["setup"] = 0 /\ at'["driver"] = at["driver"]
        /\ UNCHANGED <<dev, driver, drv, unregistered, unprobed>>
    BY <1>6 DEF Driver, pcdev_platform_exit, bus, IInv, TypeOK, Threads
  <2>2. \A i \in Devs : i >= 0
    BY CharAssumption DEF Devs
  <2>3. QED BY <2>1, <2>2 DEF IInv, DevicesOK, Bound, Reached
<1>7. CASE Driver(UnregisterDevice)
  <2>1. at["setup"] \in Devs /\ setup = "exit" /\ "setup" \in Threads /\ TypeOK
    BY <1>7, UnregisterIs DEF IInv, Threads
  <2>2. CASE Strikes
    BY <2>2, DevicesSame DEF Strikes, Goto, mod, bus, books
  <2>3. CASE TakesOff
    <3>1. /\ dev' = [dev EXCEPT ![at["setup"]] = "absent"] /\ Leave("setup")
          /\ UNCHANGED <<setup, drv, driver, unregistered, unprobed>>
      BY <2>3 DEF TakesOff, mod, books
    <3>2. dev'[at["setup"]] = "absent" /\ \A j \in Devs : j # at["setup"] => dev'[j] = dev[j]
      BY <2>1, <3>1 DEF TypeOK
    <3>3. QED BY <2>1, <3>1, <3>2, DevicesLeave
  <2>4. QED BY <1>2, <1>7, <2>2, <2>3, UnregisterIs
<1>8. CASE Driver(SetupGone)
  <2>1. setup = "exit" /\ at["setup"] = NDEV /\ setup' = "out"
        /\ UNCHANGED <<dev, driver, drv, at, unregistered, unprobed>>
    BY <1>8 DEF Driver, SetupGone, bus, loops, books
  <2>2. \A i \in Devs : ~(i >= at["setup"])
    BY <2>1, CharAssumption DEF Devs
  <2>3. QED BY <2>1, <2>2 DEF IInv, DevicesOK, Bound, Reached
<1>9. CASE Driver(AllocDriverRegion) \/ Driver(CreateDriverClass) \/ Driver(DestroyClass)
  <2>1. UNCHANGED <<dev, driver, setup, at, unregistered, unprobed>>
        /\ (drv' \notin {"attach", "live"})
    BY <1>9 DEF Driver, AllocDriverRegion, CreateDriverClass, DestroyClass, bus, loops, books
  <2>2. QED BY <2>1, DevicesSame
<1>10. CASE Driver(RegisterDriver) \/ Driver(pcd_platform_driver_exit)
  <2>1. ASSUME NEW visiting, NEW after, Register(visiting, after),
               drv \in {"class", "live"}, visiting \in {"attach", "again"},
               after \in {"live", "exit"},
               after = "live" => drv = "class"
        PROVE  DevicesOK'
    <3>1. UNCHANGED <<dev, setup, unregistered, unprobed>>
      BY <2>1 DEF Register
    <3>2. CASE drv' = after /\ UNCHANGED <<at, driver>>
      <4>1. driver = "yes" => drv # "class"
        BY DEF IInv, DriverOK
      <4>2. QED BY <2>1, <3>1, <3>2, <4>1, DevicesSame
    <3>3. CASE /\ driver = "no" /\ driver' = "yes" /\ drv' = visiting
               /\ at' = [at EXCEPT !["driver"] = 0]
      <4>1. at'["driver"] = 0 /\ at'["setup"] = at["setup"] /\ \A i \in Devs : i >= 0
        BY <3>3, CharAssumption DEF IInv, TypeOK, Threads, Devs
      <4>2. /\ \A i \in Bound' : driver' # "no"
            /\ \A i \in Devs : dev'[i] # "absent" =>
                 Reached(i)' \/ (setup' = "in" /\ i = at'["setup"])
            /\ \A i \in Devs : dev'[i] = "absent" /\ Reached(i)' => i \in unregistered'
        BY <3>1, <3>3, <4>1 DEF IInv, DevicesOK, Reached
      <4>3. drv' = "attach" \/ drv' \notin {"attach", "live"}
        BY <2>1, <3>3
      <4>4. QED BY <4>1, <4>2, <4>3 DEF DevicesOK
    <3>4. QED BY <2>1, <3>2, <3>3 DEF Register
  <2>2. QED BY <1>2, <1>10, <2>1 DEF Driver, RegisterDriver, pcd_platform_driver_exit
<1>11. CASE Driver(AllVisited)
  <2>1. /\ at["driver"] = NDEV /\ drv \in {"attach", "again"}
        /\ drv' = IF drv = "attach" THEN "live" ELSE "exit"
        /\ UNCHANGED <<setup, at, dev, driver, unregistered, unprobed>>
    BY <1>11 DEF Driver, AllVisited, loops, bus, books
  <2>2. \A i \in Devs : ~(i >= at["driver"])
    BY <2>1, CharAssumption DEF Devs
  <2>3. QED BY <2>1, <2>2 DEF IInv, DevicesOK, Bound, Reached
<1>12. CASE Driver(DriverGone)
  <2>1. /\ drv' = "out" /\ driver' = IF driver = "yes" THEN "stale" ELSE driver
        /\ UNCHANGED <<setup, at, dev, unregistered, unprobed>>
    BY <1>12 DEF Driver, DriverGone, loops, books
  <2>2. QED BY <2>1 DEF IInv, DevicesOK, Bound, Reached
<1>13. ASSUME NEW f \in Files, NEW no \in Numbers, pcd_open(f, no)
       PROVE  DevicesOK'
  BY <1>2, <1>13, DevicesSame DEF pcd_open, Opens, mod, bus, loops
<1>14. ASSUME NEW f \in Files, pcd_release(f)
       PROVE  DevicesOK'
  BY <1>2, <1>14, DevicesSame DEF pcd_release, drivervars, mod, bus, loops, books
<1>15. CASE UNCHANGED vars
  BY <1>15, DevicesSame DEF vars, drivervars, mod, bus, loops, books
<1>16. QED BY <1>1, <1>3, <1>4, <1>5, <1>6, <1>7, <1>8, <1>9, <1>10, <1>11, <1>12, <1>13,
              <1>14, <1>15, DevicesOfProbing DEF Next
-----------------------------------------------------------------------------
(* Nodes and cdevs.                                                        *)

\* Before the exit, a driver that is there has a number that is not the other module's.
LEMMA Apart ==
  ASSUME IInv, ~exited, driver # "no", NEW i \in Devs
  PROVE  /\ driver = "yes" /\ drv \in {"attach", "live"} /\ device_number_base \in Majors
         /\ single # "out" => Number(i) # device_number
<1>1. driver = "yes" /\ drv \in {"attach", "live"}
  BY DEF IInv, TypeOK, DriverOK
<1>2. device_number_base \in Majors
      /\ (single # "out" => device_number[1] # device_number_base)
  BY <1>1 DEF IInv, RegionsOK
<1>3. single # "out" => Number(i) # device_number
  BY <1>2 DEF Number
<1>4. QED BY <1>1, <1>2, <1>3

\* The nodes of the devices differ from each other and from that of the other module.
LEMMA NodesDiffer ==
  ASSUME NEW i, NEW j
  PROVE  (Node(i) = Node(j) <=> i = j) /\ Node(i) # Mine
         /\ Node(i).no = Number(i) /\ (Number(i) = Number(j) <=> i = j)
BY DEF Node, Number, Mine

\* A device with a cdev, or a file, has a driver.
LEMMA ServedDriver ==
  ASSUME IInv, NEW i \in Served \cup Filed
  PROVE  driver # "no"
BY DEF IInv, Served, Filed, InProbe, Made, LoopsOK, ThreadOK, DevicesOK

\* And one with a file has a cdev.
LEMMA FiledServed ==
  ASSUME IInv
  PROVE  Filed \subseteq Served
<1>1. ASSUME NEW t \in Threads, work[t].made PROVE work[t].pc # "none" /\ Change(t) = 1
  BY <1>1 DEF IInv, LoopsOK, ThreadOK, Change
<1>2. QED BY <1>1 DEF Filed, Served, Made, InProbe

\* Where the threads that are in a probe or remove stay, and the devices with them.
LEMMA ServedSame ==
  ASSUME IInv, work' = work, dev' = dev,
         \A t \in Threads : work[t].pc # "none" => at'[t] = at[t],
         work["setup"].pc # "none" => setup' = setup
  PROVE  Served' = Served /\ Filed' = Filed
<1>1. \A t \in Threads : (Change(t) = 1)' <=> Change(t) = 1
  BY DEF Change, Removing
<1>2. ASSUME NEW i \in Devs
      PROVE  /\ InProbe(i)' <=> InProbe(i)
             /\ Made(i)' <=> Made(i)
             /\ InRemove(i)' <=> InRemove(i)
  <2>1. InProbe(i)' <=> InProbe(i)
    BY <1>1 DEF InProbe
  <2>2. Made(i)' <=> Made(i)
    BY DEF Made, IInv, LoopsOK, ThreadOK
  <2>3. InRemove(i)' <=> InRemove(i)
    BY DEF InRemove, Removing, Threads
  <2>4. QED BY <2>1, <2>2, <2>3
<1>3. Bound' = Bound
  BY DEF Bound
<1>4. QED BY <1>2, <1>3 DEF Served, Filed

\* A thread that moves changes what is served at its device only.
LEMMA ServedHere ==
  ASSUME IInv, NEW t \in Threads, at[t] \in Devs,
         \A u \in Threads \ {t} : work[u].pc = "none" \/ at[u] # at[t]
  PROVE  /\ at[t] \in Served <=> \/ work[t].pc # "none" /\ Change(t) = 1
                                 \/ dev[at[t]] = "bound" /\ ~(t = "setup" /\ Removing)
         /\ at[t] \in Filed <=> \/ work[t].made
                                \/ dev[at[t]] = "bound" /\ ~(t = "setup" /\ Removing)
<1>1. InProbe(at[t]) <=> work[t].pc # "none" /\ Change(t) = 1
  BY DEF InProbe
<1>2. \A u \in Threads : work[u].made => work[u].pc # "none"
  BY DEF IInv, LoopsOK, ThreadOK
<1>3. Made(at[t]) <=> work[t].made
  BY <1>2 DEF Made
<1>4. InRemove(at[t]) <=> t = "setup" /\ Removing
  BY DEF InRemove, Removing, Threads
<1>5. QED BY <1>1, <1>3, <1>4 DEF Served, Filed, Bound

LEMMA ServedThere ==
  ASSUME IInv, NEW t \in Threads, at[t] \in Devs, setup' = setup,
         \A u \in Threads \ {t} : /\ work[u].pc = "none" \/ at[u] # at[t]
                                  /\ at'[u] = at[u] /\ work'[u] = work[u],
         \A j \in Devs : j # at[t] => dev'[j] = dev[j],
         at'[t] = at[t] \/ (work'[t].pc = "none" /\ ~work'[t].made)
  PROVE  /\ \A j \in Devs : j # at[t] => (j \in Served' <=> j \in Served)
                                         /\ (j \in Filed' <=> j \in Filed)
         /\ at[t] \in Served' <=>
              \/ work'[t].pc # "none" /\ Change(t)' = 1
              \/ dev'[at[t]] = "bound" /\ ~(t = "setup" /\ Removing')
         /\ at[t] \in Filed' <=>
              \/ work'[t].made
              \/ dev'[at[t]] = "bound" /\ ~(t = "setup" /\ Removing')
<1>1. \A u \in Threads \ {t} : (Change(u) = 1)' <=> Change(u) = 1
  BY DEF Change, Removing
<1>2. \A u \in Threads : work[u].made => work[u].pc # "none"
  BY DEF IInv, LoopsOK, ThreadOK
<1>3. ASSUME NEW j \in Devs, j # at[t]
      PROVE  /\ InProbe(j)' <=> InProbe(j)
             /\ Made(j)' <=> Made(j)
             /\ InRemove(j)' <=> InRemove(j)
  <2>1. InProbe(j)' <=> InProbe(j)
    BY <1>1, <1>3 DEF InProbe
  <2>2. Made(j)' <=> Made(j)
    BY <1>3 DEF Made
  <2>3. InRemove(j)' <=> InRemove(j)
    <3>1. CASE t = "setup"
      BY <1>3, <3>1 DEF InRemove, Removing
    <3>2. CASE t # "setup"
      <4>1. at'["setup"] = at["setup"] /\ work'["setup"] = work["setup"]
        BY <3>2 DEF Threads
      <4>2. QED BY <4>1 DEF InRemove, Removing
    <3>3. QED BY <3>1, <3>2
  <2>4. QED BY <2>1, <2>2, <2>3
<1> DEFINE i == at[t]
<1>5. (\E u \in Threads : at'[u] = i /\ work'[u].pc # "none" /\ Change(u)' = 1)
        <=> work'[t].pc # "none" /\ Change(t)' = 1
  OBVIOUS
<1>6. (\E u \in Threads : at'[u] = i /\ work'[u].made) <=> work'[t].made
  BY <1>2
<1>7. (Removing' /\ at'["setup"] = i) <=> t = "setup" /\ Removing'
  BY DEF Removing, Threads
<1>8. /\ \A j \in Devs : j # i => (j \in Served' <=> j \in Served)
      /\ \A j \in Devs : j # i => (j \in Filed' <=> j \in Filed)
  BY <1>3 DEF Served, Filed, Bound
<1>9. i \in Served' <=> \/ \E u \in Threads : at'[u] = i /\ work'[u].pc # "none" /\ Change(u)' = 1
                        \/ dev'[i] = "bound" /\ ~(Removing' /\ at'["setup"] = i)
  BY DEF Served, InProbe, InRemove, Bound
<1>10. i \in Filed' <=> \/ \E u \in Threads : at'[u] = i /\ work'[u].made
                        \/ dev'[i] = "bound" /\ ~(Removing' /\ at'["setup"] = i)
  BY DEF Filed, Made, InRemove, Bound
<1> HIDE DEF i
<1>11. QED BY <1>5, <1>6, <1>7, <1>8, <1>9, <1>10 DEF i

\* Before the exit, a node or cdev is there as the device is served.
LEMMA NodeThere ==
  ASSUME IInv, ~exited, NEW i \in Devs
  PROVE  /\ Node(i) \in cdevs <=> i \in Served
         /\ i \notin mistaken => (Node(i) \in nodes <=> i \in Filed)
BY NodesDiffer DEF IInv, NodesOK

\* Device i gets or loses its node or cdev as it is served.
LEMMA NodesOne ==
  ASSUME IInv, UNCHANGED <<pcd, device_number_base, exited>>, NEW i \in Devs,
         \A j \in Devs : j # i => (j \in Served' <=> j \in Served) /\ (j \in Filed' <=> j \in Filed),
         \A n : n # Node(i) => (n \in cdevs' <=> n \in cdevs) /\ (n \in nodes' <=> n \in nodes),
         mistaken \subseteq mistaken',
         ~exited => (Node(i) \in cdevs' <=> i \in Served'),
         ~exited /\ i \notin mistaken' => (Node(i) \in nodes' <=> i \in Filed')
  PROVE  NodesOK'
<1> SUFFICES ASSUME ~exited PROVE NodesOK'
  BY DEF NodesOK
<1>1. /\ single' = single /\ Mine' = Mine
      /\ \A j \in Devs : Node(j)' = Node(j)
  BY DEF pcd, Mine, Node, Number
<1>2. /\ cdevs = {Node(j) : j \in Served}
                 \cup (IF single \in {"cdev", "class", "live"} THEN {Mine} ELSE {})
      /\ nodes \subseteq {Node(j) : j \in Devs} \cup (IF single = "live" THEN {Mine} ELSE {})
      /\ single = "live" => Mine \in nodes
      /\ \A j \in Devs \ mistaken : Node(j) \in nodes <=> j \in Filed
  BY DEF IInv, NodesOK
<1>3. Served \subseteq Devs /\ Served' \subseteq Devs
  BY DEF Served
<1>4. {Node(j) : j \in Served}' = {Node(j) : j \in Served'}
  BY <1>1, <1>3
<1>5. {Node(j) : j \in Devs}' = {Node(j) : j \in Devs}
  BY <1>1
<1>6. cdevs' = {Node(j) : j \in Served'}
               \cup (IF single \in {"cdev", "class", "live"} THEN {Mine} ELSE {})
  <2>1. ASSUME NEW n
        PROVE  n \in cdevs' <=> \/ n \in {Node(j) : j \in Served'}
                                \/ n \in (IF single \in {"cdev", "class", "live"} THEN {Mine} ELSE {})
    <3>1. CASE n = Node(i)
      <4>1. n \notin (IF single \in {"cdev", "class", "live"} THEN {Mine} ELSE {})
        BY <3>1, NodesDiffer
      <4>2. n \in {Node(j) : j \in Served'} <=> i \in Served'
        BY <3>1, NodesDiffer
      <4>3. QED BY <3>1, <4>1, <4>2
    <3>2. CASE n # Node(i)
      <4>1. n \in {Node(j) : j \in Served'} <=> n \in {Node(j) : j \in Served}
        BY <1>3, <3>2
      <4>2. QED BY <1>2, <3>2, <4>1
    <3>3. QED BY <3>1, <3>2
  <2>2. QED BY <2>1
<1>7. nodes' \subseteq {Node(j) : j \in Devs} \cup (IF single = "live" THEN {Mine} ELSE {})
  BY <1>2
<1>8. single = "live" => Mine \in nodes'
  BY <1>2, NodesDiffer
<1>9. ASSUME NEW j \in Devs \ mistaken' PROVE Node(j) \in nodes' <=> j \in Filed'
  <2>1. CASE j = i
    BY <1>9, <2>1
  <2>2. CASE j # i
    BY <1>2, <1>9, <2>2, NodesDiffer
  <2>3. QED BY <2>1, <2>2
<1>10. QED BY <1>1, <1>4, <1>5, <1>6, <1>7, <1>8, <1>9 DEF NodesOK

LEMMA NodesSame ==
  ASSUME IInv, UNCHANGED <<nodes, cdevs, pcd, device_number_base, mistaken>>, exited => exited',
         Served' = Served, Filed' = Filed
  PROVE  NodesOK'
<1>1. Mine' = Mine /\ single' = single /\ \A j : Node(j)' = Node(j)
  BY DEF pcd, Mine, Node, Number
<1>2. {Node(j) : j \in Served}' = {Node(j) : j \in Served}
      /\ {Node(j) : j \in Devs}' = {Node(j) : j \in Devs}
  BY <1>1
<1>3. QED BY <1>1, <1>2 DEF IInv, NodesOK

\* Without a driver there are none of its devices.
LEMMA NodesNoDriver ==
  ASSUME IInv, UNCHANGED <<nodes, cdevs, pcd, exited, mistaken>>, driver = "no",
         Served' = Served, Filed' = Filed
  PROVE  NodesOK'
<1> SUFFICES ASSUME ~exited PROVE NodesOK'
  BY DEF NodesOK
<1>1. Mine' = Mine /\ single' = single
  BY DEF pcd, Mine
<1>2. Served = {} /\ Filed = {} /\ mistaken = {}
  BY ServedDriver DEF IInv, DriverOK
<1>3. /\ cdevs = (IF single \in {"cdev", "class", "live"} THEN {Mine} ELSE {})
      /\ nodes = (IF single = "live" THEN {Mine} ELSE {})
  BY <1>2 DEF IInv, NodesOK
<1>4. \A i \in Devs : Node(i)' # Mine
  BY DEF Node, Mine
<1>5. QED BY <1>1, <1>2, <1>3, <1>4 DEF NodesOK

LEMMA NodesOfSingle ==
  ASSUME IInv, \/ Single(AllocRegion) \/ Single(AddCdev) \/ Single(CreateClass)
               \/ Single(CreateDevice) \/ Single(pcd_exit)
  PROVE  NodesOK'
<1> DEFINE Theirs == {Node(i) : i \in Served}
           All    == {Node(i) : i \in Devs}
<1>1. UNCHANGED <<exited, device_number_base, dev, work, at, setup, mistaken>>
  BY DEF Single, drivervars, mod, bus, loops, books
<1>2. Served' = Served /\ Filed' = Filed /\ \A i : Node(i)' = Node(i)
  BY <1>1, ServedSame DEF Node, Number
<1>3. Theirs' = Theirs /\ All' = All
  BY <1>2
<1>4. Mine \notin Theirs /\ Mine \notin All /\ \A i : Node(i) # Mine /\ Node(i) # Mine'
  BY DEF Node, Mine
<1> SUFFICES ASSUME ~exited PROVE NodesOK'
  BY <1>1 DEF NodesOK
<1>5. /\ cdevs = Theirs \cup (IF single \in {"cdev", "class", "live"} THEN {Mine} ELSE {})
      /\ nodes \subseteq All \cup (IF single = "live" THEN {Mine} ELSE {})
      /\ single = "live" => Mine \in nodes
      /\ \A i \in Devs \ mistaken : Node(i) \in nodes <=> i \in Filed
  BY DEF IInv, NodesOK
<1> HIDE DEF Theirs, All
<1>6. SUFFICES /\ cdevs' = Theirs \cup (IF single' \in {"cdev", "class", "live"} THEN {Mine'} ELSE {})
               /\ nodes' \subseteq All \cup (IF single' = "live" THEN {Mine'} ELSE {})
               /\ single' = "live" => Mine' \in nodes'
               /\ \A i \in Devs : Node(i) \in nodes' <=> Node(i) \in nodes
  BY <1>1, <1>2, <1>3, <1>5 DEF NodesOK, Theirs, All
<1>7. device_number' = device_number => Mine' = Mine
  BY DEF Mine
<1> USE DEF Single, alloc_fail, unregister_chrdev, cdev_del, class_del
<1>8. CASE Single(AllocRegion)
  BY <1>5, <1>8 DEF AllocRegion
<1>9. CASE Single(AddCdev)
  BY <1>5, <1>7, <1>9 DEF AddCdev
<1>10. CASE Single(CreateClass)
  BY <1>4, <1>5, <1>7, <1>10 DEF CreateClass
<1>11. CASE Single(CreateDevice)
  BY <1>4, <1>5, <1>7, <1>11 DEF CreateDevice
<1>12. CASE Single(pcd_exit)
  BY <1>4, <1>5, <1>12 DEF pcd_exit
<1>13. QED BY <1>8, <1>9, <1>10, <1>11, <1>12

LEMMA NodesOfProbing ==
  ASSUME IInv, NEW t \in Threads, Driver(Probing(t))
  PROVE  NodesOK'
<1> DEFINE i == at[t]
<1>1. i \in Devs /\ TypeOK /\ LoopsOK /\ UNCHANGED pcd
  BY ProbingIs DEF IInv
<1>2. CASE Fault("text")
  BY <1>1, <1>2, ServedSame, NodesSame DEF Fault, registry, mod, loops, bus, books
<1>3. UNCHANGED <<device_number_base, exited, setup>>
  BY <1>2, ProbingIs DEF Passes, Begins, Refused, Creates, Goes, Fails, Loads, Counts, Discounts,
         Fault, mod, books
<1>4. \A u \in Threads \ {t} : work[u].pc = "none" \/ at[u] # i
  <2>1. CASE work[t].pc # "none"
    BY <2>1, BusyApart
  <2>2. CASE Passes(t) \/ Begins(t) \/ Refused(t)
    BY <2>2, FoundApart DEF Passes, Begins, Refused, Finds, Looking
  <2>3. CASE Fault("text") /\ work[t].pc = "none"
    BY <2>3, FoundApart DEF Driver, Probing, Meet, CreateNode, TestNode, LoadTotal, StoreTotal
  <2>4. QED BY <2>1, <2>2, <2>3, ProbingIs DEF Creates, Goes, Fails, Loads, Counts, Discounts
<1>5. /\ i \in Served <=> \/ work[t].pc # "none" /\ Change(t) = 1
                          \/ dev[i] = "bound" /\ ~(t = "setup" /\ Removing)
      /\ i \in Filed <=> \/ work[t].made
                         \/ dev[i] = "bound" /\ ~(t = "setup" /\ Removing)
  BY <1>1, <1>4, ServedHere
<1>6. /\ ~exited => (Node(i) \in cdevs <=> i \in Served)
      /\ ~exited /\ i \notin mistaken => (Node(i) \in nodes <=> i \in Filed)
  BY <1>1, NodeThere
<1>7. ASSUME Goto(t, work'[t]) \/ Leave(t), \A j \in Devs : j # i => dev'[j] = dev[j]
      PROVE  /\ \A j \in Devs : j # i => /\ (j \in Served' <=> j \in Served)
                                         /\ (j \in Filed' <=> j \in Filed)
             /\ i \in Served' <=> \/ work'[t].pc # "none" /\ Change(t)' = 1
                                  \/ dev'[i] = "bound" /\ ~(t = "setup" /\ Removing')
             /\ i \in Filed' <=> \/ work'[t].made
                                 \/ dev'[i] = "bound" /\ ~(t = "setup" /\ Removing')
  <2>1. \/ at'[t] = i
        \/ work'[t].pc = "none" /\ ~work'[t].made
    BY <1>1, <1>7, GotoIs, LeaveIs DEF Rest, Doing
  <2>2. \A u \in Threads \ {t} : at'[u] = at[u] /\ work'[u] = work[u]
    BY <1>1, <1>7, GotoIs, LeaveIs
  <2>3. QED BY <1>1, <1>3, <1>4, <1>7, <2>1, <2>2, ServedThere
<1>8. ASSUME NEW w, Goto(t, w)
      PROVE  work'[t] = w /\ (t = "setup" => (Removing' <=> setup = "exit" /\ w.pc # "none"))
  BY <1>1, <1>3, <1>8, GotoIs DEF Removing
<1>9. ASSUME Leave(t)
      PROVE  work'[t].pc = "none" /\ ~work'[t].made /\ (t = "setup" => ~Removing')
  BY <1>1, <1>9, LeaveIs DEF Removing, Rest, Doing
<1>10. work[t].pc \in {"none", "create"} => ~work[t].made
  BY <1>1 DEF LoopsOK, ThreadOK
<1>11. t = "setup" /\ setup = "exit" /\ work[t].pc # "none" => Removing
  BY DEF Removing
<1>12. work[t].pc # "none" => dev[i] = IF Change(t) = 1 THEN "unbound" ELSE "bound"
  BY <1>1 DEF LoopsOK, ThreadOK
<1>13. (Change(t) = 1 <=> ~(t = "setup" /\ Removing)) /\ (Change(t)' = 1 <=> ~(t = "setup" /\ Removing'))
  BY DEF Change
<1> HIDE DEF i
<1>14. CASE Passes(t) \/ Refused(t)
  <2>1. Leave(t) /\ UNCHANGED <<nodes, cdevs, dev, mistaken>> /\ work[t].pc = "none"
        /\ (t = "setup" => ~Removing)
    BY <1>14 DEF Passes, Refused, Finds, Looking, registry, bus, books, Removing
  <2>2. (i \in Served' <=> i \in Served) /\ (i \in Filed' <=> i \in Filed)
    BY <1>5, <1>7, <1>9, <1>10, <2>1
  <2>3. QED BY <1>1, <1>3, <1>6, <1>7, <2>1, <2>2, NodesOne
<1>15. CASE Begins(t)
  <2>1. /\ Goto(t, Doing("create", FALSE)) /\ UNCHANGED <<nodes, dev, mistaken>>
        /\ work[t].pc = "none" /\ (t = "setup" => ~Removing /\ setup = "in")
        /\ cdevs' = cdevs \cup {Node(i)} /\ dev[i] = "unbound"
    BY <1>15 DEF Begins, Finds, Looking, bus, books, i, Removing
  <2>2. work'[t].pc = "create" /\ work'[t].made = FALSE /\ (t = "setup" => ~Removing')
    BY <1>8, <2>1 DEF Doing
  <2>3. i \in Served' /\ (i \in Filed' <=> i \in Filed)
    BY <1>5, <1>7, <1>8, <1>10, <1>13, <2>1, <2>2
  <2>4. QED BY <1>1, <1>3, <1>6, <1>7, <1>8, <2>1, <2>3, NodesOne
<1>16. ASSUME NEW ok \in BOOLEAN, Creates(t, ok) PROVE NodesOK'
  <2>1. /\ Goto(t, Doing("test", ok)) /\ UNCHANGED <<cdevs, dev, mistaken>>
        /\ (work[t].pc = "create" /\ ~Removing) \/ t # "setup"
        /\ nodes' = nodes \cup (IF ok THEN {Node(i)} ELSE {})
    BY <1>1, <1>16 DEF Creates, bus, books, i, LoopsOK
  <2>2. work'[t].pc = "test" /\ work'[t].made = ok /\ (t = "setup" => ~Removing') /\ dev[i] = "unbound"
    BY <1>8, <1>11, <1>12, <1>13, <1>16, <2>1 DEF Doing, Creates
  <2>3. work[t].pc = "create"
    BY <1>16 DEF Creates
  <2>4. (i \in Served' <=> i \in Served) /\ (i \in Filed' <=> ok) /\ i \notin Filed
    BY <1>5, <1>7, <1>8, <1>10, <1>13, <2>1, <2>2, <2>3
  <2>5. QED BY <1>1, <1>3, <1>6, <1>7, <1>8, <2>1, <2>4, NodesOne
<1>17. CASE Goes(t) \/ Loads(t)
  <2>1. PICK w : Goto(t, w) /\ w.pc # "none" /\ w.made = work[t].made
    <3>1. /\ [work[t] EXCEPT !.pc = "load"].pc = "load"
          /\ [work[t] EXCEPT !.pc = "load"].made = work[t].made
          /\ [work[t] EXCEPT !.pc = "store", !.sum = total_devices].pc = "store"
          /\ [work[t] EXCEPT !.pc = "store", !.sum = total_devices].made = work[t].made
      BY <1>1 DEF TypeOK
    <3>2. QED BY <1>17, <3>1 DEF Goes, Loads
  <2>2. UNCHANGED <<nodes, cdevs, dev>> /\ mistaken \subseteq mistaken' /\ work[t].pc # "none"
    BY <1>17 DEF Goes, Loads, registry, bus, books
  <2>3. (t = "setup" => (Removing' <=> Removing))
    BY <1>8, <2>1, <2>2 DEF Removing
  <2>4. (i \in Served' <=> i \in Served) /\ (i \in Filed' <=> i \in Filed)
    BY <1>5, <1>7, <1>8, <1>13, <2>1, <2>2, <2>3
  <2>5. QED BY <1>1, <1>3, <1>6, <1>7, <1>8, <2>1, <2>2, <2>4, NodesOne
<1>18. CASE Fails(t)
  <2>1. /\ Leave(t) /\ UNCHANGED <<nodes, dev>> /\ mistaken \subseteq mistaken'
        /\ cdevs' = cdevs \ {Node(i)} /\ work[t].pc = "test"
        /\ i \notin mistaken' => ~work[t].made
    BY <1>18 DEF Fails, Fail, bus, i
  <2>2. t = "setup" => ~Removing
    BY <1>1, <2>1 DEF LoopsOK
  <2>3. dev[i] = "unbound"
    BY <1>12, <1>13, <2>1, <2>2
  <2>4. i \notin Served' /\ i \notin Filed' /\ (i \notin mistaken' => i \notin Filed)
    BY <1>5, <1>7, <1>9, <2>1, <2>2, <2>3
  <2>5. QED BY <1>1, <1>3, <1>6, <1>7, <2>1, <2>4, NodesOne
<1>19. CASE Counts(t)
  <2>1. /\ Leave(t) /\ UNCHANGED <<nodes, cdevs, mistaken>> /\ work[t].pc = "store"
        /\ dev' = [dev EXCEPT ![i] = "bound"] /\ Change(t) = 1
    BY <1>19 DEF Counts, registry, i
  <2>2. dev'[i] = "bound" /\ \A j \in Devs : j # i => dev'[j] = dev[j]
    BY <1>1, <2>1 DEF TypeOK
  <2>3. i \notin mistaken => work[t].made
    BY <1>1, <2>1 DEF LoopsOK, ThreadOK, i
  <2>4. i \in Served /\ i \in Served' /\ i \in Filed' /\ (i \notin mistaken => i \in Filed)
    BY <1>5, <1>7, <1>9, <2>1, <2>2, <2>3
  <2>5. QED BY <1>1, <1>3, <1>6, <1>7, <2>1, <2>2, <2>4, NodesOne
<1>20. CASE t = "setup" /\ Discounts
  <2>1. /\ Leave(t) /\ UNCHANGED <<nodes, cdevs, mistaken>> /\ work[t].pc = "store"
        /\ dev' = [dev EXCEPT ![i] = "absent"] /\ Change(t) = -1
    BY <1>20 DEF Discounts, i
  <2>2. dev'[i] = "absent" /\ \A j \in Devs : j # i => dev'[j] = dev[j]
    BY <1>1, <2>1 DEF TypeOK
  <2>3. Removing /\ ~work[t].made
    BY <1>1, <1>20, <2>1 DEF Change, LoopsOK
  <2>4. i \notin Served /\ i \notin Served' /\ i \notin Filed' /\ i \notin Filed
    BY <1>5, <1>7, <1>9, <1>20, <2>1, <2>2, <2>3
  <2>5. QED BY <1>1, <1>3, <1>6, <1>7, <2>1, <2>2, <2>4, NodesOne
<1>21. QED BY <1>2, <1>14, <1>15, <1>16, <1>17, <1>18, <1>19, <1>20, ProbingIs

LEMMA NodesOfUnregister ==
  ASSUME IInv, Driver(UnregisterDevice)
  PROVE  NodesOK'
<1> DEFINE i == at["setup"]
<1>1. i \in Devs /\ TypeOK /\ LoopsOK /\ UNCHANGED pcd /\ "setup" \in Threads
  BY UnregisterIs DEF IInv, Threads
<1>2. CASE Fault("text") \/ Fault("absent")
  BY <1>1, <1>2, ServedSame, NodesSame DEF Fault, registry, mod, loops, bus, books
<1>3. CASE Strikes \/ TakesOff
  <2>1. /\ UNCHANGED <<device_number_base, exited, setup, mistaken>>
        /\ work["setup"].pc = "none" /\ setup = "exit"
    BY <1>3 DEF Strikes, TakesOff, mod, books
  <2>2. ~work["setup"].made /\ ~Removing
    BY <1>1, <2>1 DEF LoopsOK, ThreadOK, Removing
  <2>3. \A u \in Threads \ {"setup"} : work[u].pc = "none" \/ at[u] # i
    BY <1>1, <1>3, <2>1, FoundApart DEF Strikes, TakesOff
  <2>4. /\ i \in Served <=> dev[i] = "bound"
        /\ i \in Filed <=> dev[i] = "bound"
    BY <1>1, <2>1, <2>2, <2>3, ServedHere
  <2>5. /\ ~exited => (Node(i) \in cdevs <=> i \in Served)
        /\ ~exited /\ i \notin mistaken => (Node(i) \in nodes <=> i \in Filed)
    BY <1>1, NodeThere
  <2>6. CASE Strikes
    <3>1. /\ Goto("setup", Doing("load", FALSE)) /\ dev' = dev
          /\ cdevs' = cdevs \ {Node(i)} /\ nodes' = nodes \ {Node(i)}
      BY <2>6 DEF Strikes, Destroy, bus
    <3>2. /\ work'["setup"] = Doing("load", FALSE) /\ at' = at
          /\ \A u \in Threads \ {"setup"} : work'[u] = work[u]
      BY <1>1, <3>1, GotoIs
    <3>3. work'["setup"].pc = "load" /\ ~work'["setup"].made /\ Removing' /\ Change("setup")' # 1
      BY <2>1, <3>2 DEF Doing, Removing, Change
    <3>4. /\ \A j \in Devs : j # i => /\ (j \in Served' <=> j \in Served)
                                      /\ (j \in Filed' <=> j \in Filed)
          /\ i \in Served' <=> \/ work'["setup"].pc # "none" /\ Change("setup")' = 1
                               \/ dev'[i] = "bound" /\ ~("setup" = "setup" /\ Removing')
          /\ i \in Filed' <=> \/ work'["setup"].made
                              \/ dev'[i] = "bound" /\ ~("setup" = "setup" /\ Removing')
      BY <1>1, <2>1, <2>3, <3>1, <3>2, ServedThere
    <3>5. i \notin Served' /\ i \notin Filed'
      BY <3>3, <3>4
    <3> HIDE DEF i
    <3>6. QED BY <1>1, <2>1, <3>1, <3>4, <3>5, NodesOne
  <2>7. CASE TakesOff
    <3>1. /\ Leave("setup") /\ dev' = [dev EXCEPT ![i] = "absent"] /\ dev[i] = "unbound"
          /\ UNCHANGED <<cdevs, nodes>>
      BY <2>7 DEF TakesOff, registry
    <3>2. /\ work'["setup"] = Rest
          /\ \A u \in Threads \ {"setup"} : at'[u] = at[u] /\ work'[u] = work[u]
      BY <1>1, <3>1, LeaveIs
    <3>3. work'["setup"].pc = "none" /\ ~work'["setup"].made
      BY <3>2 DEF Rest, Doing
    <3>4. dev'[i] = "absent" /\ \A j \in Devs : j # i => dev'[j] = dev[j]
      BY <1>1, <3>1 DEF TypeOK
    <3>5. /\ \A j \in Devs : j # i => /\ (j \in Served' <=> j \in Served)
                                      /\ (j \in Filed' <=> j \in Filed)
          /\ i \in Served' <=> \/ work'["setup"].pc # "none" /\ Change("setup")' = 1
                               \/ dev'[i] = "bound" /\ ~("setup" = "setup" /\ Removing')
          /\ i \in Filed' <=> \/ work'["setup"].made
                              \/ dev'[i] = "bound" /\ ~("setup" = "setup" /\ Removing')
      BY <1>1, <2>1, <2>3, <3>2, <3>3, <3>4, ServedThere
    <3>6. i \notin Served' /\ i \notin Filed' /\ i \notin Served /\ i \notin Filed
      BY <2>4, <3>1, <3>3, <3>4, <3>5
    <3> HIDE DEF i
    <3>7. QED BY <1>1, <2>1, <2>5, <3>1, <3>5, <3>6, NodesOne
  <2>8. QED BY <1>3, <2>6, <2>7
<1>4. QED BY <1>2, <1>3, UnregisterIs

LEMMA NodesStep ==
  ASSUME IInv, [Next]_vars
  PROVE  NodesOK'
<1>1. ASSUME UNCHANGED <<nodes, cdevs, pcd, device_number_base, mistaken, work, dev>>,
             exited => exited',
             \A t \in Threads : work[t].pc # "none" => at'[t] = at[t],
             work["setup"].pc # "none" => setup' = setup
      PROVE  NodesOK'
  BY <1>1, ServedSame, NodesSame
<1>2. ASSUME NEW cause, Fault(cause), UNCHANGED pcd
      PROVE  NodesOK'
  BY <1>1, <1>2 DEF Fault, registry, mod, loops, bus, books
<1>3. work["driver"].pc # "none" => drv \in {"attach", "again"} /\ at["driver"] < NDEV
  BY WorkedOn DEF IInv, LoopsOK, ThreadOK, Threads
<1>4. work["setup"].pc # "none" => setup \in {"in", "exit"} /\ at["setup"] < NDEV
  BY WorkedOn DEF IInv, LoopsOK, ThreadOK, Threads
<1>5. NDEV \in Int /\ TypeOK /\ "setup" \in Threads
  BY CharAssumption DEF IInv, Threads
<1>6. CASE Driver(pcdev_platform_init) \/ Driver(pcdev_platform_exit)
  <2>1. work["setup"].pc = "none" /\ at'["driver"] = at["driver"]
    BY <1>4, <1>5, <1>6 DEF Driver, pcdev_platform_init, pcdev_platform_exit, TypeOK, Threads
  <2>2. UNCHANGED <<nodes, cdevs, pcd, device_number_base, mistaken, work, dev, exited>>
    BY <1>6 DEF Driver, pcdev_platform_init, pcdev_platform_exit, registry, bus
  <2>3. QED BY <1>1, <2>1, <2>2 DEF Threads
<1>7. CASE Driver(SetupReturns) \/ Driver(SetupGone)
  BY <1>1, <1>4, <1>5, <1>7 DEF Driver, SetupReturns, SetupGone, registry, loops, bus, books
<1>8. CASE Driver(RegisterDevice)
  <2> DEFINE i == at["setup"]
  <2>1. /\ i \in Devs /\ dev[i] = "absent" /\ setup = "in"
        /\ UNCHANGED <<setup, nodes, cdevs, pcd, device_number_base, exited, mistaken>>
    BY <1>5, <1>8, PositionDevice DEF Driver, RegisterDevice, mod, registry, books
  <2>2. work["setup"].pc = "none" /\ ~work["setup"].made /\ ~Removing
    BY <1>5, <2>1 DEF IInv, LoopsOK, ThreadOK, Change, Removing
  <2>3. \A u \in Threads \ {"setup"} : work[u].pc = "none" \/ at[u] # i
    BY <1>5, <2>1, <2>2, FoundApart
  <2>4. i \notin Served /\ i \notin Filed
    BY <1>5, <2>1, <2>2, <2>3, ServedHere
  <2>5. /\ ~exited => (Node(i) \in cdevs <=> i \in Served)
        /\ ~exited /\ i \notin mistaken => (Node(i) \in nodes <=> i \in Filed)
    BY <2>1, NodeThere
  <2>6. \/ Leave("setup") /\ dev' = dev
        \/ dev' = [dev EXCEPT ![i] = "unbound"] /\ work' = work /\ at' = at
    BY <1>8 DEF Driver, RegisterDevice, loops
  <2>7. /\ work'["setup"].pc = "none" /\ ~work'["setup"].made
        /\ \A u \in Threads \ {"setup"} : at'[u] = at[u] /\ work'[u] = work[u]
    BY <1>5, <2>2, <2>6, LeaveIs DEF Rest, Doing
  <2>8. dev'[i] # "bound" /\ \A j \in Devs : j # i => dev'[j] = dev[j]
    BY <1>5, <2>1, <2>6 DEF TypeOK
  <2>9. /\ \A j \in Devs : j # i => /\ (j \in Served' <=> j \in Served)
                                    /\ (j \in Filed' <=> j \in Filed)
        /\ i \in Served' <=> \/ work'["setup"].pc # "none" /\ Change("setup")' = 1
                             \/ dev'[i] = "bound" /\ ~("setup" = "setup" /\ Removing')
        /\ i \in Filed' <=> \/ work'["setup"].made
                            \/ dev'[i] = "bound" /\ ~("setup" = "setup" /\ Removing')
    BY <1>5, <2>1, <2>3, <2>7, <2>8, ServedThere
  <2> HIDE DEF i
  <2>10. i \notin Served' /\ i \notin Filed'
    BY <2>7, <2>8, <2>9
  <2>11. QED BY <2>1, <2>4, <2>5, <2>9, <2>10, NodesOne
<1>9. CASE Driver(AllocDriverRegion) \/ Driver(CreateDriverClass)
  <2>1. UNCHANGED <<nodes, cdevs, pcd, dev, work, at, setup, exited, mistaken>>
        /\ drv \in {"out", "region"}
    BY <1>9 DEF Driver, AllocDriverRegion, CreateDriverClass, bus, loops, books
  <2>2. driver = "no" \/ exited
    BY <2>1 DEF IInv, TypeOK, DriverOK
  <2>3. CASE exited
    BY <2>1, <2>3 DEF NodesOK
  <2>4. CASE driver = "no"
    BY <2>1, <2>4, ServedSame, NodesNoDriver
  <2>5. QED BY <2>2, <2>3, <2>4
<1>10. CASE Driver(RegisterDriver) \/ Driver(pcd_platform_driver_exit)
  <2>1. ASSUME NEW visiting, NEW after, Register(visiting, after), drv \in {"class", "live"},
               exited => exited', UNCHANGED pcd
        PROVE  NodesOK'
    <3>1. work["driver"].pc = "none" /\ at'["setup"] = at["setup"]
      BY <1>3, <1>5, <2>1 DEF Register, TypeOK, Threads
    <3>2. UNCHANGED <<nodes, cdevs, pcd, device_number_base, mistaken, work, dev, setup>>
      BY <2>1 DEF Register, registry
    <3>3. QED BY <1>1, <2>1, <3>1, <3>2 DEF Threads
  <2>2. QED BY <1>2, <1>10, <2>1 DEF Driver, RegisterDriver, pcd_platform_driver_exit
<1>11. CASE Driver(DestroyClass) \/ Driver(AllVisited)
  BY <1>1, <1>11 DEF Driver, DestroyClass, AllVisited, registry, bus, loops, books
<1>12. CASE Driver(DriverGone)
  BY <1>12 DEF Driver, DriverGone, books, IInv, DriverOK, NodesOK
<1>13. ASSUME NEW f \in Files, NEW no \in Numbers, pcd_open(f, no)
       PROVE  NodesOK'
  BY <1>1, <1>2, <1>13 DEF pcd_open, Opens, mod, loops, bus
<1>14. ASSUME NEW f \in Files, pcd_release(f)
       PROVE  NodesOK'
  BY <1>1, <1>2, <1>14 DEF pcd_release, drivervars, mod, loops, bus, books
<1>15. CASE UNCHANGED vars
  BY <1>1, <1>15 DEF vars, registry, drivervars, mod, loops, bus, books
<1>16. QED BY <1>6, <1>7, <1>8, <1>9, <1>10, <1>11, <1>12, <1>13, <1>14, <1>15,
              NodesOfSingle, NodesOfProbing, NodesOfUnregister DEF Next
-----------------------------------------------------------------------------
(* Open files.                                                             *)

\* What is asked of a file, before the exit.
FileOK(f) ==
  /\ file[f].by = "single" => single = "live" /\ file[f].no = device_number
  /\ file[f].by = "driver" /\ setup = "exit" => cut
  /\ file[f] # Closed /\ ~file[f].live => cut \/ mistaken # {}
  /\ file[f].by = "driver" /\ file[f].live /\ mistaken = {} =>
       \E i \in Devs : file[f].no = Number(i) /\ (i \in Bound \/ Made(i))

LEMMA FilesAre == FilesOK <=> (~exited => \A f \in Files : FileOK(f))
BY DEF FilesOK, FileOK

\* Devices whose file is there stay so.
LEMMA FilesSame ==
  ASSUME IInv, UNCHANGED <<file, single, device_number>>,
         setup' = "exit" => setup = "exit",
         cut => cut', exited => exited', mistaken \subseteq mistaken',
         mistaken' = {} => \A i \in Devs : (i \in Bound \/ Made(i)) =>
                             i \in Bound' \/ Made(i)' \/ driver = "no",
         driver # "no" => device_number_base' = device_number_base
  PROVE  FilesOK'
<1> SUFFICES ASSUME ~exited', NEW f \in Files PROVE FileOK(f)'
  BY DEF FilesOK, FileOK
<1>1. ~exited /\ FileOK(f) /\ (mistaken' = {} => mistaken = {})
  BY FilesAre DEF IInv
<1>2. ASSUME file[f].by = "driver", file[f].live, mistaken' = {}
      PROVE  \E i \in Devs : file[f].no = Number(i)' /\ (i \in Bound' \/ Made(i)')
  <2>1. PICK i \in Devs : file[f].no = Number(i) /\ (i \in Bound \/ Made(i))
    BY <1>1, <1>2 DEF FileOK
  <2>2. driver # "no"
    <3>1. CASE i \in Bound
      BY <3>1 DEF IInv, DevicesOK
    <3>2. CASE Made(i)
      BY <3>2 DEF Made, IInv, LoopsOK, ThreadOK
    <3>3. QED BY <2>1, <3>1, <3>2
  <2>3. Number(i)' = Number(i)
    BY <2>2 DEF Number
  <2>4. QED BY <1>2, <2>1, <2>2, <2>3
<1>3. QED BY <1>1, <1>2 DEF FileOK

\* And they do where the threads in a probe or remove, and the devices, stay.
LEMMA FilesStay ==
  ASSUME IInv, UNCHANGED <<file, single, device_number, mistaken, work, dev>>,
         setup' = "exit" => setup = "exit",
         cut => cut', exited => exited',
         \A t \in Threads : work[t].pc # "none" => at'[t] = at[t],
         driver # "no" => device_number_base' = device_number_base
  PROVE  FilesOK'
<1>1. \A i \in Devs : Made(i) => Made(i)'
  BY DEF Made, IInv, LoopsOK, ThreadOK
<1>2. Bound' = Bound
  BY DEF Bound
<1>3. QED BY <1>1, <1>2, FilesSame

\* An open finds the cdev of the single module only while that is there.
LEMMA FoundSingle ==
  ASSUME IInv, ~exited, NEW no, NodeExists(no), Found(no) = "single"
  PROVE  single = "live" /\ no = device_number
<1> DEFINE Hit == [no |-> no, by |-> "single"]
<1>1. Hit \in cdevs
  BY DEF Found
<1>2. \A i \in Served : Node(i).by = "driver"
  BY DEF Node
<1>3. Mine.no = device_number
  BY DEF Mine
<1>4. \A i \in Served : Hit # Node(i)
  BY <1>2
<1>5. Hit = Mine /\ single \in {"cdev", "class", "live"}
  BY <1>1, <1>4 DEF IInv, NodesOK
<1>6. no = device_number
  BY <1>3, <1>5
<1>7. PICK n \in nodes : n.no = no
  BY DEF NodeExists
<1>8. ASSUME single # "live" PROVE FALSE
  <2>1. PICK i \in Devs : n = Node(i)
    BY <1>7, <1>8 DEF IInv, NodesOK
  <2>2. Number(i) = device_number
    BY <1>6, <1>7, <2>1, NodesDiffer
  <2>3. \A m \in nodes : \E j \in Devs : m = Node(j)
    BY <1>8 DEF IInv, NodesOK
  <2>4. driver # "no"
    <3>1. CASE i \in mistaken
      BY <3>1 DEF IInv, DriverOK
    <3>2. CASE i \notin mistaken
      <4>1. i \in Filed
        BY <1>7, <2>1, <3>2, NodeThere
      <4>2. QED BY <4>1, ServedDriver
    <3>3. QED BY <3>1, <3>2
  <2>5. QED BY <1>5, <2>2, <2>4, Apart
<1>9. QED BY <1>6, <1>8

\* A node of a device, when no probe was mistaken, is that of one with a file; and one
\* that is found by it has a cdev.
LEMMA NodeOfDevice ==
  ASSUME IInv, ~exited, mistaken = {}, NEW n \in nodes, n # Mine \/ single # "live"
  PROVE  \E i \in Filed : n = Node(i)
<1>1. PICK i \in Devs : n = Node(i)
  BY DEF IInv, NodesOK
<1>2. QED BY <1>1, NodeThere

LEMMA FoundDriver ==
  ASSUME IInv, ~exited, mistaken = {}, NEW no, NodeExists(no), Found(no) = "driver"
  PROVE  \E i \in Devs : no = Number(i) /\ (i \in Bound \/ Made(i))
<1>1. PICK n \in nodes : n.no = no
  BY DEF NodeExists
<1>2. [no |-> no, by |-> "driver"] \in cdevs /\ [no |-> no, by |-> "single"] \notin cdevs
  BY DEF Found, Modules
<1>3. ~(n = Mine /\ single = "live")
  <2> SUFFICES ASSUME n = Mine, single = "live" PROVE FALSE
    OBVIOUS
  <2>1. Mine \in cdevs
    BY DEF IInv, NodesOK
  <2>2. Mine = [no |-> no, by |-> "single"]
    BY <1>1 DEF Mine
  <2>3. QED BY <1>2, <2>1, <2>2
<1>4. PICK i \in Filed : n = Node(i)
  BY <1>3, NodeOfDevice
<1>5. QED BY <1>1, <1>4, NodesDiffer DEF Filed

\* No node leads to a cdev in freed memory.
LEMMA FoundFreed ==
  ASSUME IInv, NEW no, NodeExists(no), Found(no) = "freed"
  PROVE  exited \/ mistaken # {}
<1> SUFFICES ASSUME ~exited, mistaken = {} PROVE FALSE
  OBVIOUS
<1>1. PICK n \in nodes : n.no = no
  BY DEF NodeExists
<1>2. \A by \in Modules : [no |-> no, by |-> by] \notin cdevs
  BY DEF Found
<1>3. CASE n = Mine /\ single = "live"
  <2>1. Mine \in cdevs
    BY <1>3 DEF IInv, NodesOK
  <2>2. Mine = [no |-> no, by |-> "single"]
    BY <1>1, <1>3 DEF Mine
  <2>3. QED BY <1>2, <2>1, <2>2 DEF Modules
<1>4. CASE n # Mine \/ single # "live"
  <2>1. PICK i \in Filed : n = Node(i)
    BY <1>4, NodeOfDevice
  <2>2. Node(i) \in cdevs
    BY <2>1, FiledServed, NodeThere DEF Served
  <2>3. Node(i) = [no |-> no, by |-> "driver"]
    BY <1>1, <2>1 DEF Node
  <2>4. QED BY <1>2, <2>2, <2>3 DEF Modules
<1>5. QED BY <1>3, <1>4

LEMMA FilesOfOpens ==
  ASSUME IInv, NEW f \in Files, NEW no \in Numbers, NEW by \in Modules, Opens(f, no, by),
         by = "single" /\ ~exited => single = "live" /\ no = device_number,
         by = "driver" /\ ~exited /\ mistaken = {} =>
           \E i \in Devs : no = Number(i) /\ (i \in Bound \/ Made(i))
  PROVE  FilesOK'
<1> SUFFICES ASSUME ~exited', NEW g \in Files PROVE FileOK(g)'
  BY DEF FilesOK, FileOK
<1>1. /\ ~exited /\ UNCHANGED <<single, device_number, setup, mistaken>>
      /\ cut' = (cut \/ (by = "driver" /\ setup = "exit")) /\ FileOK(g)
  BY FilesAre DEF Opens, pcd, mod, IInv
<1>2. /\ Bound' = Bound /\ \A i : Number(i)' = Number(i) /\ (Made(i)' <=> Made(i))
  BY DEF Opens, mod, bus, loops, Bound, Number, Made
<1>3. file'[g] = IF g = f THEN [no |-> no, by |-> by, live |-> TRUE] ELSE file[g]
  BY DEF Opens, IInv, TypeOK
<1>4. CASE g = f
  <2>1. file'[g].by = by /\ file'[g].no = no /\ file'[g].live
    BY <1>3, <1>4
  <2>2. QED BY <1>1, <1>2, <2>1 DEF FileOK
<1>5. CASE g # f
  BY <1>1, <1>2, <1>3, <1>5 DEF FileOK
<1>6. QED BY <1>4, <1>5

\* The memory of device i goes: its files are dead.
LEMMA FilesOfMemory ==
  ASSUME IInv, NEW i \in Devs, file' = FilesWithout(i),
         UNCHANGED <<pcd, setup, cut, exited, device_number_base>>,
         mistaken \subseteq mistaken',
         cut \/ mistaken' # {} \/ setup = "exit" \/ ~(i \in Bound \/ Made(i)),
         \A j \in Devs : j # i /\ (j \in Bound \/ Made(j)) => j \in Bound' \/ Made(j)'
  PROVE  FilesOK'
<1> SUFFICES ASSUME ~exited', NEW f \in Files PROVE FileOK(f)'
  BY DEF FilesOK, FileOK
<1>1. /\ ~exited /\ FileOK(f) /\ (mistaken' = {} => mistaken = {})
      /\ single' = single /\ device_number' = device_number
      /\ \A j : Number(j)' = Number(j)
  BY FilesAre DEF IInv, pcd, Number
<1>2. file'[f] = IF file[f].no = Number(i) /\ file[f].by = "driver"
                 THEN Dead(file[f]) ELSE file[f]
  BY DEF FilesWithout
<1>3. CASE file[f].no = Number(i) /\ file[f].by = "driver"
  <2>1. file'[f].by = "driver" /\ ~file'[f].live
    BY <1>2, <1>3 DEF Dead
  <2>2. setup = "exit" => cut
    BY <1>1, <1>3 DEF FileOK
  <2>3. cut \/ mistaken' # {}
    <3>1. file[f] # Closed
      BY <1>3 DEF Closed
    <3>2. CASE ~file[f].live
      BY <1>1, <3>1, <3>2 DEF FileOK
    <3>3. CASE file[f].live /\ mistaken' = {}
      <4>1. PICK j \in Devs : file[f].no = Number(j) /\ (j \in Bound \/ Made(j))
        BY <1>1, <1>3, <3>3 DEF FileOK
      <4>2. j = i
        BY <1>3, <4>1, NodesDiffer
      <4>3. QED BY <2>2, <3>3, <4>1, <4>2
    <3>4. QED BY <3>2, <3>3
  <2>4. QED BY <2>1, <2>2, <2>3 DEF FileOK
<1>4. CASE ~(file[f].no = Number(i) /\ file[f].by = "driver")
  <2>1. file'[f] = file[f]
    BY <1>2, <1>4
  <2>2. ASSUME file[f].by = "driver", file[f].live, mistaken' = {}
        PROVE  \E j \in Devs : file[f].no = Number(j)' /\ (j \in Bound' \/ Made(j)')
    <3>1. PICK j \in Devs : file[f].no = Number(j) /\ (j \in Bound \/ Made(j))
      BY <1>1, <2>2 DEF FileOK
    <3>2. j # i
      BY <1>4, <2>2, <3>1
    <3>3. QED BY <1>1, <3>1, <3>2
  <2>3. QED BY <1>1, <2>1, <2>2 DEF FileOK
<1>5. QED BY <1>3, <1>4

\* The files of the other devices.
LEMMA MadeThere ==
  ASSUME IInv, NEW t \in Threads, at[t] \in Devs,
         \A u \in Threads \ {t} : /\ work[u].pc = "none" \/ at[u] # at[t]
                                  /\ at'[u] = at[u] /\ work'[u] = work[u],
         \A j \in Devs : j # at[t] => dev'[j] = dev[j]
  PROVE  /\ \A j \in Devs : j # at[t] /\ (j \in Bound \/ Made(j)) => j \in Bound' \/ Made(j)'
         /\ Made(at[t]) <=> work[t].made
         /\ at[t] \in Bound <=> dev[at[t]] = "bound"
         /\ at[t] \in Bound' <=> dev'[at[t]] = "bound"
<1>1. \A u \in Threads : work[u].made => work[u].pc # "none"
  BY DEF IInv, LoopsOK, ThreadOK
<1>2. QED BY <1>1 DEF Made, Bound

LEMMA FilesOfProbing ==
  ASSUME IInv, NEW t \in Threads, Driver(Probing(t))
  PROVE  FilesOK'
<1>1. /\ at[t] \in Devs /\ TypeOK /\ LoopsOK /\ UNCHANGED pcd
      /\ UNCHANGED <<single, device_number>>
  BY ProbingIs DEF IInv, pcd
<1>2. CASE Fault("text")
  BY <1>1, <1>2, FilesStay DEF Fault, registry, mod, loops, bus, books
<1>3. CASE ~Fault("text")
  <2>1. UNCHANGED <<setup, cut, exited, device_number_base>>
    BY <1>3, ProbingIs DEF Passes, Begins, Refused, Creates, Goes, Fails, Loads, Counts,
           Discounts, mod, books
  <2>2. \A u \in Threads \ {t} : work[u].pc = "none" \/ at[u] # at[t]
    <3>1. CASE work[t].pc # "none"
      BY <3>1, BusyApart
    <3>2. CASE Passes(t) \/ Begins(t) \/ Refused(t)
      BY <3>2, FoundApart DEF Passes, Begins, Refused, Finds, Looking
    <3>3. QED BY <1>3, <3>1, <3>2, ProbingIs DEF Creates, Goes, Fails, Loads, Counts, Discounts
  <2>3. work[t].pc \in {"none", "create"} => ~work[t].made
    BY <1>1 DEF LoopsOK, ThreadOK
  <2>4. ASSUME Leave(t) \/ \E w : Goto(t, w), \A j \in Devs : j # at[t] => dev'[j] = dev[j]
        PROVE  /\ \A j \in Devs : j # at[t] /\ (j \in Bound \/ Made(j)) => j \in Bound' \/ Made(j)'
               /\ Made(at[t]) <=> work[t].made
               /\ at[t] \in Bound <=> dev[at[t]] = "bound"
               /\ at[t] \in Bound' <=> dev'[at[t]] = "bound"
    <3>1. \A u \in Threads \ {t} : at'[u] = at[u] /\ work'[u] = work[u]
      BY <1>1, <2>4, GotoIs, LeaveIs
    <3>2. QED BY <1>1, <2>2, <2>4, <3>1, MadeThere
  <2>5. work[t].pc # "none" => dev[at[t]] = IF Change(t) = 1 THEN "unbound" ELSE "bound"
    BY <1>1 DEF LoopsOK, ThreadOK
  <2>6. CASE Passes(t) \/ Refused(t)
    <3>1. Leave(t) /\ UNCHANGED <<file, dev, mistaken>> /\ work[t].pc = "none"
      BY <2>6 DEF Passes, Refused, Finds, Looking, registry, bus, books
    <3>2. QED BY <1>1, <2>1, <2>3, <2>4, <3>1, FilesSame
  <2>7. CASE Begins(t)
    <3>1. /\ \E w : Goto(t, w)
          /\ UNCHANGED <<file, dev, mistaken>> /\ work[t].pc = "none"
      BY <2>7 DEF Begins, Finds, Looking, bus, books
    <3>2. QED BY <1>1, <2>1, <2>3, <2>4, <3>1, FilesSame
  <2>8. ASSUME NEW ok \in BOOLEAN, Creates(t, ok) PROVE FilesOK'
    <3>1. /\ \E w : Goto(t, w)
          /\ UNCHANGED <<file, dev, mistaken>> /\ work[t].pc = "create"
      BY <2>8 DEF Creates, bus, books
    <3>2. QED BY <1>1, <2>1, <2>3, <2>4, <3>1, FilesSame
  <2>9. CASE Goes(t) \/ Loads(t)
    <3>1. PICK w : Goto(t, w) /\ w.made = work[t].made
      <4>1. /\ [work[t] EXCEPT !.pc = "load"].made = work[t].made
            /\ [work[t] EXCEPT !.pc = "store", !.sum = total_devices].made = work[t].made
        BY <1>1 DEF TypeOK
      <4>2. QED BY <2>9, <4>1 DEF Goes, Loads
    <3>2. UNCHANGED <<file, dev>> /\ mistaken \subseteq mistaken'
      BY <2>9 DEF Goes, Loads, registry, bus, books
    <3>3. at' = at /\ work'[t] = w
      BY <1>1, <3>1, GotoIs
    <3>4. \A j \in Devs : j = at[t] /\ (j \in Bound \/ Made(j)) => j \in Bound' \/ Made(j)'
      <4>1. ASSUME NEW j \in Devs, j = at[t], Made(j) PROVE Made(j)'
        <5>1. work'[t].made /\ at'[t] = j
          BY <2>4, <3>1, <3>2, <3>3, <4>1
        <5>2. QED BY <5>1 DEF Made
      <4>2. Bound' = Bound
        BY <3>2 DEF Bound
      <4>3. QED BY <4>1, <4>2
    <3>5. \A j \in Devs : (j \in Bound \/ Made(j)) => j \in Bound' \/ Made(j)'
      <4>1. \A j \in Devs : j # at[t] /\ (j \in Bound \/ Made(j)) => j \in Bound' \/ Made(j)'
        BY <2>4, <3>1, <3>2
      <4>2. QED BY <3>4, <4>1
    <3>6. QED BY <1>1, <2>1, <3>2, <3>5, FilesSame
  <2>10. CASE Counts(t)
    <3>1. /\ Leave(t) /\ UNCHANGED <<file, mistaken>>
          /\ dev' = [dev EXCEPT ![at[t]] = "bound"]
      BY <2>10 DEF Counts, registry
    <3>2. dev'[at[t]] = "bound" /\ \A j \in Devs : j # at[t] => dev'[j] = dev[j]
      BY <1>1, <3>1 DEF TypeOK
    <3>3. QED BY <1>1, <2>1, <2>4, <3>1, <3>2, FilesSame
  <2>11. CASE Fails(t)
    <3>1. /\ Leave(t) /\ dev' = dev /\ file' = FilesWithout(at[t]) /\ work[t].pc = "test"
          /\ mistaken' = mistaken \cup (IF work[t].made THEN {at[t]} ELSE {})
      BY <2>11 DEF Fails, Fail, bus
    <3>2. dev[at[t]] = "unbound"
      <4>1. Change(t) = 1
        BY <1>1, <3>1 DEF LoopsOK, Change
      <4>2. QED BY <2>5, <3>1, <4>1
    <3>3. mistaken' # {} \/ ~(at[t] \in Bound \/ Made(at[t]))
      BY <2>4, <3>1, <3>2
    <3>4. QED BY <1>1, <2>1, <2>4, <3>1, <3>3, FilesOfMemory
  <2>12. CASE t = "setup" /\ Discounts
    <3>1. /\ Leave(t) /\ file' = FilesWithout(at[t]) /\ mistaken' = mistaken /\ setup = "exit"
          /\ dev' = [dev EXCEPT ![at[t]] = "absent"]
      BY <2>12 DEF Discounts
    <3>2. \A j \in Devs : j # at[t] => dev'[j] = dev[j]
      BY <1>1, <3>1 DEF TypeOK
    <3>3. QED BY <1>1, <2>1, <2>4, <3>1, <3>2, FilesOfMemory
  <2>13. QED BY <1>3, <2>6, <2>7, <2>8, <2>9, <2>10, <2>11, <2>12, ProbingIs
<1>4. QED BY <1>2, <1>3

\* Those of the setup module's loop.
LEMMA FilesOfSetup ==
  ASSUME IInv, Driver(RegisterDevice) \/ Driver(UnregisterDevice)
  PROVE  FilesOK'
<1> DEFINE i == at["setup"]
<1>1. /\ i \in Devs /\ TypeOK /\ LoopsOK /\ UNCHANGED pcd /\ "setup" \in Threads
      /\ UNCHANGED <<single, device_number>>
  BY UnregisterIs, PositionDevice DEF IInv, Threads, Driver, RegisterDevice, pcd
<1>2. CASE Fault("text") \/ Fault("absent")
  BY <1>1, <1>2, FilesStay DEF Fault, registry, mod, loops, bus, books
<1>3. ASSUME UNCHANGED <<file, setup, cut, exited, mistaken, device_number_base>>,
             work["setup"].pc = "none", Leave("setup") \/ (\E w : Goto("setup", w)) \/ UNCHANGED loops,
             Unlocked(i, "setup") \/ dev[i] = "absent",
             NEW v, dev' = [dev EXCEPT ![i] = v], dev[i] = "bound" => v = "bound"
      PROVE  FilesOK'
  <2>1. \A u \in Threads \ {"setup"} : work[u].pc = "none" \/ at[u] # i
    BY <1>1, <1>3, FoundApart
  <2>2. \A u \in Threads \ {"setup"} : at'[u] = at[u] /\ work'[u] = work[u]
    BY <1>1, <1>3, GotoIs, LeaveIs DEF loops
  <2>3. dev'[i] = v /\ \A j \in Devs : j # i => dev'[j] = dev[j]
    BY <1>1, <1>3 DEF TypeOK
  <2>4. ~work["setup"].made
    BY <1>1, <1>3 DEF LoopsOK, ThreadOK
  <2>5. /\ \A j \in Devs : j # i /\ (j \in Bound \/ Made(j)) => j \in Bound' \/ Made(j)'
        /\ Made(i) <=> work["setup"].made
        /\ i \in Bound <=> dev[i] = "bound"
        /\ i \in Bound' <=> dev'[i] = "bound"
    BY <1>1, <2>1, <2>2, <2>3, MadeThere
  <2> HIDE DEF i
  <2>6. \A j \in Devs : (j \in Bound \/ Made(j)) => j \in Bound' \/ Made(j)'
    BY <1>3, <2>3, <2>4, <2>5
  <2>7. QED BY <1>1, <1>3, <2>6, FilesSame
<1>4. CASE Driver(RegisterDevice)
  <2>1. /\ UNCHANGED <<file, setup, cut, exited, mistaken, device_number_base>>
        /\ dev[i] = "absent" /\ setup = "in"
        /\ \/ Leave("setup") /\ dev' = dev
           \/ dev' = [dev EXCEPT ![i] = "unbound"] /\ UNCHANGED loops
    BY <1>4 DEF Driver, RegisterDevice, registry, mod, books
  <2>2. work["setup"].pc = "none"
    BY <1>1, <2>1 DEF LoopsOK, ThreadOK, Change, Removing
  <2>3. dev' = [dev EXCEPT ![i] = "absent"] \/ dev' = [dev EXCEPT ![i] = "unbound"]
    BY <1>1, <2>1 DEF TypeOK
  <2>4. QED BY <1>3, <2>1, <2>2, <2>3
<1>5. CASE Strikes
  <2>1. /\ UNCHANGED <<file, setup, cut, exited, mistaken, device_number_base>>
        /\ work["setup"].pc = "none" /\ (\E w : Goto("setup", w)) /\ Unlocked(i, "setup")
        /\ dev' = dev /\ dev[i] = "bound"
    BY <1>5 DEF Strikes, mod, bus, books
  <2>2. dev' = [dev EXCEPT ![i] = "bound"]
    BY <1>1, <2>1 DEF TypeOK
  <2>3. QED BY <1>3, <2>1, <2>2
<1>6. CASE TakesOff
  <2>1. /\ UNCHANGED <<file, setup, cut, exited, mistaken, device_number_base>>
        /\ work["setup"].pc = "none" /\ Leave("setup") /\ Unlocked(i, "setup")
        /\ dev' = [dev EXCEPT ![i] = "absent"] /\ dev[i] = "unbound"
    BY <1>6 DEF TakesOff, registry, mod, books
  <2>2. QED BY <1>3, <2>1
<1>7. QED BY <1>2, <1>4, <1>5, <1>6, UnregisterIs

LEMMA FilesStep ==
  ASSUME IInv, [Next]_vars
  PROVE  FilesOK'
<1>1. ASSUME NEW cause, Fault(cause), UNCHANGED pcd
      PROVE  FilesOK'
  BY <1>1, FilesStay DEF Fault, registry, mod, loops, bus, books, pcd
<1>2. CASE \/ Single(AllocRegion) \/ Single(AddCdev) \/ Single(CreateClass)
           \/ Single(CreateDevice) \/ Single(pcd_exit)
  <2>1. UNCHANGED <<file, setup, cut, exited, mistaken, bus, loops, device_number_base>>
    BY <1>2 DEF Single, AllocRegion, AddCdev, CreateClass, CreateDevice, pcd_exit,
                drivervars, mod, books
  <2>2. ~exited => \A f \in Files : file[f].by = "single" =>
          single' = "live" /\ device_number' = device_number
    <3>1. CASE Single(pcd_exit)
      BY <3>1 DEF Single, pcd_exit, OpenOn
    <3>2. CASE ~Single(pcd_exit)
      <4>1. single # "live"
        BY <1>2, <3>2 DEF Single, AllocRegion, AddCdev, CreateClass, CreateDevice
      <4>2. QED BY <4>1 DEF IInv, FilesOK
    <3>3. QED BY <3>1, <3>2
  <2>3. Bound' = Bound /\ \A i : Number(i)' = Number(i) /\ (Made(i)' <=> Made(i))
    BY <2>1 DEF bus, loops, Bound, Number, Made
  <2>4. QED BY <2>1, <2>2, <2>3 DEF IInv, FilesOK
<1>3. work["driver"].pc # "none" => drv \in {"attach", "again"} /\ at["driver"] < NDEV
  BY WorkedOn DEF IInv, LoopsOK, ThreadOK, Threads
<1>4. work["setup"].pc # "none" => setup \in {"in", "exit"} /\ at["setup"] < NDEV
  BY WorkedOn DEF IInv, LoopsOK, ThreadOK, Threads
<1>5. NDEV \in Int /\ TypeOK /\ "setup" \in Threads
  BY CharAssumption DEF IInv, Threads
<1>6. CASE Driver(pcdev_platform_init)
  <2>1. work["setup"].pc = "none" /\ at'["driver"] = at["driver"] /\ setup' # "exit"
    BY <1>4, <1>5, <1>6 DEF Driver, pcdev_platform_init, TypeOK, Threads
  <2>2. UNCHANGED <<file, single, device_number, mistaken, work, dev, cut, exited,
                    device_number_base>>
    BY <1>6 DEF Driver, pcdev_platform_init, registry, bus, pcd
  <2>3. QED BY <2>1, <2>2, FilesStay DEF Threads
<1>7. CASE Driver(pcdev_platform_exit)
  <2>1. work["setup"].pc = "none" /\ at'["driver"] = at["driver"]
    BY <1>4, <1>5, <1>7 DEF Driver, pcdev_platform_exit, TypeOK, Threads
  <2>2. /\ UNCHANGED <<file, single, device_number, mistaken, work, dev, exited,
                       device_number_base>>
        /\ cut' = (cut \/ OpenOn("driver") # {})
    BY <1>7 DEF Driver, pcdev_platform_exit, registry, bus, pcd
  <2>3. \A i : Number(i)' = Number(i) /\ (Made(i) => Made(i)')
    BY <2>1, <2>2 DEF Number, Made, IInv, LoopsOK, ThreadOK, Threads
  <2>4. Bound' = Bound
    BY <2>2 DEF Bound
  <2>5. QED BY <2>2, <2>3, <2>4 DEF IInv, FilesOK, OpenOn
<1>8. CASE Driver(SetupReturns) \/ Driver(SetupGone)
  BY <1>8, FilesStay DEF Driver, SetupReturns, SetupGone, registry, bus, loops, books, pcd
<1>9. CASE Driver(AllocDriverRegion) \/ Driver(CreateDriverClass)
  <2>1. UNCHANGED <<file, single, device_number, dev, work, at, setup, cut, exited, mistaken>>
        /\ drv \in {"out", "region"}
    BY <1>9 DEF Driver, AllocDriverRegion, CreateDriverClass, bus, loops, books, pcd
  <2>2. driver = "no" \/ exited
    BY <2>1 DEF IInv, TypeOK, DriverOK
  <2>3. CASE exited
    BY <2>1, <2>3 DEF FilesOK
  <2>4. CASE driver = "no"
    BY <2>1, <2>4, FilesStay
  <2>5. QED BY <2>2, <2>3, <2>4
<1>10. CASE Driver(RegisterDriver) \/ Driver(pcd_platform_driver_exit)
  <2>1. ASSUME NEW visiting, NEW after, Register(visiting, after), drv \in {"class", "live"},
               exited => exited', UNCHANGED pcd
        PROVE  FilesOK'
    <3>1. work["driver"].pc = "none" /\ at'["setup"] = at["setup"]
      BY <1>3, <1>5, <2>1 DEF Register, TypeOK, Threads
    <3>2. UNCHANGED <<file, single, device_number, device_number_base, mistaken, work, dev,
                      setup, cut>>
      BY <2>1 DEF Register, registry, pcd
    <3>3. QED BY <2>1, <3>1, <3>2, FilesStay DEF Threads
  <2>2. QED BY <1>1, <1>10, <2>1 DEF Driver, RegisterDriver, pcd_platform_driver_exit
<1>11. CASE Driver(DestroyClass) \/ Driver(AllVisited)
  BY <1>11, FilesStay DEF Driver, DestroyClass, AllVisited, registry, bus, loops, books, pcd
<1>12. CASE Driver(DriverGone)
  BY <1>12 DEF Driver, DriverGone, books, IInv, DriverOK, FilesOK
<1>13. ASSUME NEW f \in Files, NEW no \in Numbers, pcd_open(f, no)
       PROVE  FilesOK'
  <2>1. NodeExists(no)
    BY <1>13 DEF pcd_open
  <2>2. CASE Found(no) = "single" /\ Opens(f, no, "single")
    BY <2>1, <2>2, FoundSingle, FilesOfOpens DEF Modules
  <2>3. CASE Found(no) = "driver" /\ Opens(f, no, "driver")
    BY <2>1, <2>3, FoundDriver, FilesOfOpens DEF Modules
  <2>4. QED BY <1>1, <1>13, <2>2, <2>3 DEF pcd_open
<1>14. ASSUME NEW f \in Files, pcd_release(f)
       PROVE  FilesOK'
  <2>1. CASE /\ file' = [file EXCEPT ![f] = Closed]
             /\ UNCHANGED <<pcd, drivervars>>
    <3>1. /\ UNCHANGED <<single, device_number, setup, cut, exited, mistaken>>
          /\ Bound' = Bound /\ \A i : Number(i)' = Number(i) /\ (Made(i)' <=> Made(i))
      BY <2>1 DEF pcd, drivervars, mod, books, bus, loops, Bound, Number, Made
    <3>2. \A g \in Files : file'[g] \in {Closed, file[g]}
      BY <2>1 DEF IInv, TypeOK
    <3>3. Closed.by = "none"
      BY DEF Closed
    <3>4. QED BY <3>1, <3>2, <3>3 DEF IInv, FilesOK
  <2>2. QED BY <1>1, <1>14, <2>1 DEF pcd_release
<1>15. CASE UNCHANGED vars
  BY <1>15, FilesStay DEF vars, registry, pcd, drivervars, mod, loops, bus, books
<1>16. QED BY <1>2, <1>6, <1>7, <1>8, <1>9, <1>10, <1>11, <1>12, <1>13, <1>14, <1>15,
              FilesOfProbing, FilesOfSetup DEF Next
-----------------------------------------------------------------------------
(* What brings the kernel down.                                            *)
LEMMA FaultSame ==
  ASSUME IInv, fault' \in {"none", fault}, exited => exited', cut => cut',
         unregistered \subseteq unregistered', mistaken \subseteq mistaken'
  PROVE  FaultHasACause'
BY DEF IInv, FaultHasACause

LEMMA FaultNew ==
  ASSUME IInv, NEW cause, Fault(cause),
         exited \/ cut \/ unregistered # {} \/ mistaken # {}
  PROVE  FaultHasACause'
BY DEF Fault, books, FaultHasACause

LEMMA OpenFault ==
  ASSUME IInv, NEW f \in Files, NEW no \in Numbers, pcd_open(f, no)
  PROVE  FaultHasACause'
<1>1. CASE driver = "stale" /\ Fault("text")
  BY <1>1, FaultNew DEF IInv, DriverOK
<1>2. ASSUME NEW by, Opens(f, no, by)
      PROVE  FaultHasACause'
  BY <1>2, FaultSame DEF Opens
<1>3. CASE Found(no) = "freed" /\ NodeExists(no) /\ Fault("freed")
  BY <1>3, FoundFreed, FaultNew
<1>4. QED BY <1>1, <1>2, <1>3 DEF pcd_open

LEMMA ReleaseFault ==
  ASSUME IInv, NEW f \in Files, pcd_release(f)
  PROVE  FaultHasACause'
<1>1. CASE ~file[f].live /\ Fault("freed")
  <2>1. exited \/ cut \/ mistaken # {}
    BY <1>1 DEF pcd_release, IInv, FilesOK
  <2>2. QED BY <1>1, <2>1, FaultNew
<1>2. CASE UNCHANGED drivervars
  BY <1>2, FaultSame DEF drivervars, books
<1>3. QED BY <1>1, <1>2 DEF pcd_release

LEMMA FaultStep ==
  ASSUME IInv, [Next]_vars
  PROVE  FaultHasACause'
<1>1. CASE \/ Single(AllocRegion) \/ Single(AddCdev) \/ Single(CreateClass)
           \/ Single(CreateDevice) \/ Single(pcd_exit)
  BY <1>1, FaultSame DEF Single, drivervars, books
<1>2. CASE Driver(pcdev_platform_init)
  BY <1>2 DEF Driver, Up, pcdev_platform_init, FaultHasACause
<1>3. CASE Driver(RegisterDevice)
  BY <1>3, FaultSame DEF Driver, RegisterDevice, books
<1>4. CASE Driver(UnregisterDevice)
  <2>1. CASE exited /\ Fault("text")
    BY <2>1, FaultNew
  <2>2. CASE dev[at["setup"]] = "absent" /\ Fault("absent")
    <3>1. setup = "exit" /\ at["setup"] \in Devs
      BY <1>4, UnregisterIs
    <3>2. Reached(at["setup"])
      BY <3>1, CharAssumption DEF Reached, Devs
    <3>3. at["setup"] \in unregistered
      BY <2>2, <3>1, <3>2 DEF IInv, DevicesOK
    <3>4. QED BY <2>2, <3>3, FaultNew
  <2>3. CASE Strikes \/ TakesOff
    <3>1. UNCHANGED <<fault, exited, cut, unregistered, mistaken>>
      BY <2>3 DEF Strikes, TakesOff, books
    <3>2. QED BY <3>1, FaultSame
  <2>4. QED BY <1>4, <2>1, <2>2, <2>3, UnregisterIs
<1>5. ASSUME NEW t \in Threads, Driver(Probing(t)) PROVE FaultHasACause'
  <2>1. CASE exited /\ Fault("text")
    BY <2>1, FaultNew
  <2>2. CASE ~Fault("text")
    BY <1>5, <2>2, ProbingIs, FaultSame
       DEF Passes, Begins, Refused, Creates, Goes, Fails, Loads, Counts, Discounts, books
  <2>3. QED BY <1>5, <2>1, <2>2, ProbingIs, FaultSame
       DEF Passes, Begins, Refused, Creates, Goes, Fails, Loads, Counts, Discounts, books
<1>6. CASE Driver(SetupReturns) \/ Driver(SetupGone) \/ Driver(pcdev_platform_exit)
  <2>1. CASE Driver(SetupReturns) \/ Driver(SetupGone)
    BY <2>1, FaultSame DEF Driver, SetupReturns, SetupGone, books
  <2>2. CASE Driver(pcdev_platform_exit)
    BY <2>2 DEF Driver, Up, pcdev_platform_exit, FaultHasACause
  <2>3. QED BY <1>6, <2>1, <2>2
<1>7. CASE \/ Driver(AllocDriverRegion) \/ Driver(CreateDriverClass) \/ Driver(AllVisited)
           \/ Driver(pcd_platform_driver_exit) \/ Driver(DestroyClass) \/ Driver(DriverGone)
  BY <1>7, FaultSame
     DEF Driver, AllocDriverRegion, CreateDriverClass, AllVisited, Register,
         pcd_platform_driver_exit, DestroyClass, DriverGone, books
<1>8. CASE Driver(RegisterDriver)
  <2>1. CASE driver = "stale" /\ Fault("text")
    BY <2>1, FaultNew DEF IInv, DriverOK
  <2>2. CASE Register("attach", "live") /\ UNCHANGED exited
    BY <2>2, FaultSame DEF Register
  <2>3. QED BY <1>8, <2>1, <2>2 DEF Driver, RegisterDriver
<1>9. CASE UNCHANGED vars
  BY <1>9, FaultSame DEF vars, drivervars, books
<1>10. QED BY <1>1, <1>2, <1>3, <1>4, <1>5, <1>6, <1>7, <1>8, <1>9, OpenFault, ReleaseFault
           DEF Next
-----------------------------------------------------------------------------
LEMMA InitHolds ==
  ASSUME Init
  PROVE  IInv
<1> USE DEF Init, CharInit, SingleInit, DriverInit
<1>1. 0 \in 0..NDEV
  BY CharAssumption
<1>2. Rest \in [pc : {"none", "create", "test", "load", "store"}, made : BOOLEAN, sum : Int]
      /\ Rest.pc = "none" /\ ~Rest.made
  BY DEF Rest, Doing
<1>3. TypeOK
  <2>1. /\ at \in [Threads -> 0..NDEV]
        /\ work \in [Threads -> [pc : {"none", "create", "test", "load", "store"},
                                 made : BOOLEAN, sum : Int]]
    BY <1>1, <1>2
  <2>2. file \in [Files -> {Closed} \cup [no : Numbers, by : Modules, live : BOOLEAN]]
        /\ dev \in [Devs -> {"absent", "unbound", "bound"}]
    OBVIOUS
  <2>3. device_pcd \in BOOLEAN /\ cut \in BOOLEAN /\ exited \in BOOLEAN /\ lost \in BOOLEAN
    BY Zenon
  <2>4. /\ pcd_class \in Modules \cup {"none"} /\ device_number \in Numbers \cup {NoNumber}
        /\ regions = {} /\ cdevs = {} /\ nodes = {} /\ freed = {} /\ mistaken = {}
        /\ unregistered = {} /\ unprobed = {} /\ device_number_base = NoMajor
        /\ total_devices \in Int /\ single = "out" /\ setup = "out" /\ drv = "out" /\ driver = "no" /\ fault = "none"
    OBVIOUS
  <2> HIDE DEF Init, CharInit, SingleInit, DriverInit
  <2>5. QED BY <2>1, <2>2, <2>3, <2>4 DEF TypeOK
<1>4. Bound = {}
  BY DEF Bound
<1>5. CountOK
  BY <1>4, FS_EmptySet DEF CountOK
<1>6. LoopsOK /\ \A t \in Threads : work[t].pc = "none" /\ ~work[t].made
  BY <1>2 DEF LoopsOK, ThreadOK, Threads, Removing
<1>7. Served = {} /\ Filed = {}
  BY <1>4, <1>6 DEF Served, Filed, InProbe, Made
<1>8. NodesOK
  BY <1>7 DEF NodesOK
<1>9. FilesOK
  BY DEF FilesOK, Closed
<1>10. DevicesOK
  BY <1>4 DEF DevicesOK, Reached
<1>11. QED BY <1>3, <1>5, <1>6, <1>8, <1>9, <1>10
          DEF IInv, DriverOK, ClassOK, RegionsOK, FaultHasACause

\* The strengthened invariant is inductive.
THEOREM Invariance == Spec => []IInv
<1>1. Init => IInv
  BY InitHolds
<1>2. IInv /\ [Next]_vars => IInv'
  <2> SUFFICES ASSUME IInv, [Next]_vars PROVE IInv'
    OBVIOUS
  <2>1. QED BY TypeStep, ControlStep, LoopsStep, DevicesStep, NodesStep, FilesStep, FaultStep
            DEF IInv
<1>3. QED BY <1>1, <1>2, PTL DEF Spec

\* Every variable keeps its type, for any number of devices, major numbers and files: the
\* loops over the devices end with them, and what is registered has a number of a module.
THEOREM TypeCorrect == Spec => []TypeOK
<1>1. IInv => TypeOK
  BY DEF IInv
<1>2. QED BY <1>1, Invariance, PTL

\* Whatever fails in a load or a probe, and however the probes of two devices overlap,
\* major numbers, the class name, the cdevs and the nodes are accounted for
\* (pcd.c:199-262, pcd_platform_driver.c:76-255); what the unlocked updates of device_pcd
\* and total_devices can spoil is named in the property.
THEOREM Balanced == Spec => []RegistryBalanced
<1>1. IInv => RegistryBalanced
  <2> SUFFICES ASSUME IInv PROVE RegistryBalanced
    OBVIOUS
  <2>1. pcd_class = CASE single \in {"class", "live"} -> "single"
                      [] drv \notin {"out", "region", "ending"} -> "driver"
                      [] OTHER -> "none"
    BY DEF IInv, TypeOK, ClassOK, Modules
  <2>2. Served = {j \in Devs : InProbe(j) \/ (j \in Bound /\ ~InRemove(j))}
        /\ \A i \in Devs : i \in Filed <=> Made(i) \/ (i \in Bound /\ ~InRemove(i))
    BY DEF Served, Filed
  <2>3. QED BY <2>1, <2>2 DEF RegistryBalanced, IInv, RegionsOK, NodesOK, CountOK
<1>2. QED BY <1>1, Invariance, PTL

\* In whichever order the two modules are loaded, or at the same time, every device that
\* was registered and whose probe went well is bound to the driver.
THEOREM DevicesBound == Spec => []AllDevicesBound
<1>1. IInv => AllDevicesBound
  <2> SUFFICES ASSUME IInv, setup = "live", drv = "live", driver = "yes", NEW i \in Devs \ Bound
               PROVE  i \in unregistered \cup unprobed
    BY DEF AllDevicesBound
  <2>1. dev[i] \in {"absent", "unbound"}
    BY DEF IInv, TypeOK, Bound
  <2>2. QED BY <2>1 DEF IInv, DevicesOK, Reached
<1>2. QED BY <1>1, Invariance, PTL

\* The kernel goes down only after the driver's exit (pcd_platform_driver.c:248), an unload
\* of the setup module with a file open, a registration that failed unnoticed, or a probe
\* that took another's error for its own (pcd_platform_driver.c:174-179).
THEOREM FaultsHaveACause == Spec => []FaultHasACause
<1>1. IInv => FaultHasACause
  BY DEF IInv
<1>2. QED BY <1>1, Invariance, PTL
=============================================================================
