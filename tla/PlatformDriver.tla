--------------------------- MODULE PlatformDriver ---------------------------
(***************************************************************************)
(* Platform_device: pcd_platform_setup.c, a module that registers the      *)
(* platform devices, and pcd_platform_driver.c, the module of their        *)
(* driver.  The two are loaded and unloaded in any order, also at the same  *)
(* time; the kernel calls probe and remove from whichever registration     *)
(* brings device and driver together or apart.  Neither module looks at    *)
(* the result of a registration.                                           *)
(***************************************************************************)
EXTENDS CharDev

CONSTANTS NDEV       \* number of platform devices; ids 0..NDEV-1

\* The two that make the kernel probe and remove: the task that loads or unloads the
\* setup module, and the one that loads or unloads the driver.
Threads == {"setup", "driver"}

VARIABLES
  setup, drv,        \* where the two modules are
  at,                \* per thread: the device its loop is at
  dev,               \* per device: absent from the bus, unbound, or bound to the driver
  driver,            \* on the bus: not, registered, or registered in freed memory
  work,              \* per thread: the probe or remove under way, or Rest
  device_number_base, total_devices,
  device_pcd,        \* pcd_drv_data.device_pcd: a device, or an error
  fault,             \* what has brought the kernel down
  \* bookkeeping: devices not registered, or last not probed with success; device files
  \* open in the course of an unload of the setup module; the driver's exit was called;
  \* devices whose probe ever took another's device_pcd for its own; an update of
  \* total_devices was overwritten
  unregistered, unprobed, cut, exited, mistaken, lost

bus   == <<dev, driver>>
data  == <<total_devices, device_pcd>>
mod   == <<setup, drv, device_number_base>>
loops == <<at, work>>
books == <<unregistered, unprobed, cut, exited, mistaken, lost>>
drivervars == <<mod, loops, bus, data, fault, books>>

Devs      == 0..(NDEV - 1)
\* Mutant: the ids are taken to start at 1.
NumberFrom1(i) == <<device_number_base, i + 1>>
Number(i) == <<device_number_base, i>>            \* device_number_base + pdev->id
Node(i)   == [no |-> Number(i), by |-> "driver"]
Bound     == {i \in Devs : dev[i] = "bound"}

\* Mutant: the table lacks the last device.
ShortTable == 0..(NDEV - 2)
IdTable    == Devs                                \* pcdevs_ids

\* A probe goes through create, test, load and store, a remove through the last two.
\* made: the device file is there; sum: the value of total_devices that was loaded.
Doing(pc, made) == [pc |-> pc, made |-> made, sum |-> 0]
Rest            == Doing("none", FALSE)

DriverInit ==
  /\ setup = "out" /\ drv = "out" /\ at = [t \in Threads |-> 0]
  /\ work = [t \in Threads |-> Rest]
  /\ dev = [i \in Devs |-> "absent"] /\ driver = "no"
  /\ device_number_base = NoMajor /\ total_devices = 0 /\ device_pcd = FALSE
  /\ fault = "none"
  /\ unregistered = {} /\ unprobed = {} /\ cut = FALSE /\ exited = FALSE
  /\ mistaken = {} /\ lost = FALSE

\* A call into memory that is not the module's, or the class's, any more.
Fault(cause) ==
  /\ fault' = cause
  /\ UNCHANGED <<registry, mod, loops, bus, data, books>>

\* The thread goes on to the next device, or into the next part of the call.
Leave(t) ==
  /\ at' = [at EXCEPT ![t] = @ + 1]
  /\ work' = [work EXCEPT ![t] = Rest]
Goto(t, w) == work' = [work EXCEPT ![t] = w] /\ UNCHANGED at

\* device_lock: a probe or remove of the device by the other thread is waited for.
Unlocked(i, t) == \A u \in Threads \ {t} : work[u].pc = "none" \/ at[u] # i

\* The files that have found the device's cdev, when its memory goes.
FilesWithout(i) ==
  [f \in Files |-> IF file[f].no = Number(i) /\ file[f].by = "driver"
                   THEN Dead(file[f]) ELSE file[f]]

-----------------------------------------------------------------------------
(* pcd_platform_driver_probe and _remove.  Both threads may be in one, for *)
(* different devices, and they share pcd_drv_data.                         *)

\* The driver on the bus cannot be called: it is gone, or its class is.
Unusable == driver = "stale" \/ (driver = "yes" /\ pcd_class # "driver")

\* Up to cdev_add, which may fail like the kzallocs before it.
Begin(t) ==
  /\ UNCHANGED <<regions, pcd_class, nodes, freed, file, mod, bus, data, fault,
                 unregistered, cut, exited, mistaken, lost>>
  /\ \/ cdevs' = cdevs \cup {Node(at[t])} /\ Goto(t, Doing("create", FALSE))
        /\ UNCHANGED unprobed
     \/ Leave(t) /\ unprobed' = unprobed \cup {at[t]} /\ UNCHANGED cdevs

\* device_create, and the store of what it returns.  It fails if a device of the same
\* number is there.
CreateNode(t) ==
  /\ work[t].pc = "create"
  /\ \/ Unusable /\ Fault("text")
     \/ /\ ~Unusable
        /\ \E ok \in BOOLEAN :
             /\ ok => ~NodeExists(Number(at[t]))
             /\ nodes' = nodes \cup (IF ok THEN {Node(at[t])} ELSE {})
             /\ device_pcd' = ok
             /\ Goto(t, Doing("test", ok))
        /\ UNCHANGED <<regions, pcd_class, cdevs, freed, file, mod, bus, total_devices, fault,
                       books>>

\* The probe ends with an error: the memory of the device is freed, its cdev with it, and
\* nothing is undone.
Fail(t) ==
  /\ Leave(t)
  /\ freed' = freed \cup {Number(at[t])}
  /\ cdevs' = cdevs \ {Node(at[t])} /\ file' = FilesWithout(at[t])
  /\ unprobed' = unprobed \cup {at[t]}

\* IS_ERR(pcd_drv_data.device_pcd), which the other thread may have stored to since.
TestNode(t) ==
  /\ work[t].pc = "test"
  /\ \/ driver = "stale" /\ Fault("text")
     \/ /\ driver # "stale"
        /\ mistaken' = mistaken \cup (IF device_pcd = work[t].made THEN {} ELSE {at[t]})
        /\ \/ /\ device_pcd /\ Goto(t, [work[t] EXCEPT !.pc = "load"])
              /\ UNCHANGED <<cdevs, freed, file, unprobed>>
           \/ ~device_pcd /\ Fail(t)
        /\ UNCHANGED <<regions, pcd_class, nodes, mod, bus, data, fault, unregistered, cut,
                       exited, lost>>

\* total_devices++ and total_devices--.
Removing == setup = "exit" /\ work["setup"].pc # "none"
Change(t) == IF t = "setup" /\ Removing THEN -1 ELSE 1

LoadTotal(t) ==
  /\ work[t].pc = "load"
  /\ \/ driver = "stale" /\ Fault("text")
     \/ /\ driver # "stale"
        /\ Goto(t, [work[t] EXCEPT !.pc = "store", !.sum = total_devices])
        /\ UNCHANGED <<registry, mod, bus, data, fault, books>>

\* With the store the probe or remove is done; the memory of a removed device is freed,
\* whoever has opened it.
StoreTotal(t) ==
  /\ work[t].pc = "store"
  /\ \/ driver = "stale" /\ Fault("text")
     \/ /\ driver # "stale"
        /\ total_devices' = work[t].sum + Change(t)
        /\ lost' = (lost \/ work[t].sum # total_devices)
        /\ Leave(t)
        /\ IF Change(t) = 1
           THEN /\ dev' = [dev EXCEPT ![at[t]] = "bound"] /\ unprobed' = unprobed \ {at[t]}
                /\ UNCHANGED file
           ELSE /\ dev' = [dev EXCEPT ![at[t]] = "absent"] /\ file' = FilesWithout(at[t])
                /\ UNCHANGED unprobed
        /\ UNCHANGED <<regions, pcd_class, cdevs, nodes, freed, mod, driver, device_pcd, fault,
                       unregistered, cut, exited, mistaken>>

\* Mutant: the node stays in /dev.
DestroyCdev(i) == cdevs' = cdevs \ {Node(i)} /\ UNCHANGED nodes
\* device_destroy and cdev_del.
Destroy(i)     == cdevs' = cdevs \ {Node(i)} /\ nodes' = nodes \ {Node(i)}

\* A thread looks for a driver of the device it has registered, or visits the devices on
\* the bus: a device that is not bound is probed.
Looking(t) ==
  /\ work[t].pc = "none" /\ at[t] < NDEV
  /\ \/ t = "setup" /\ setup = "in" /\ dev[at[t]] # "absent"
     \/ t = "driver" /\ drv \in {"attach", "again"}

Meet(t) ==
  /\ Looking(t) /\ Unlocked(at[t], t)
  /\ LET unbound == dev[at[t]] = "unbound" /\ driver # "no"
     IN  \/ unbound /\ Unusable /\ Fault("text")
         \/ unbound /\ ~Unusable /\ at[t] \in IdTable /\ Begin(t)
         \/ /\ unbound => ~Unusable /\ at[t] \notin IdTable
            /\ Leave(t)
            /\ UNCHANGED <<registry, mod, bus, data, fault, books>>

Probing(t) == Meet(t) \/ CreateNode(t) \/ TestNode(t) \/ LoadTotal(t) \/ StoreTotal(t)

-----------------------------------------------------------------------------
(* The setup module.                                                       *)
pcdev_platform_init ==
  /\ setup = "out"
  /\ setup' = "in" /\ at' = [at EXCEPT !["setup"] = 0] /\ unregistered' = {} /\ unprobed' = {}
  /\ UNCHANGED <<registry, drv, device_number_base, work, bus, data, fault, cut, exited,
                 mistaken, lost>>

\* platform_device_register, which may fail, up to the device's place on the bus.
RegisterDevice ==
  /\ setup = "in" /\ at["setup"] < NDEV
  /\ dev[at["setup"]] = "absent"
  /\ \/ /\ unregistered' = unregistered \cup {at["setup"]} /\ Leave("setup")
        /\ UNCHANGED <<dev, unprobed, cut, exited, mistaken, lost>>
     \/ /\ dev' = [dev EXCEPT ![at["setup"]] = "unbound"]
        /\ UNCHANGED <<loops, books>>
  /\ UNCHANGED <<registry, mod, driver, data, fault>>

SetupReturns ==
  /\ setup = "in" /\ at["setup"] = NDEV
  /\ setup' = "live"
  /\ UNCHANGED <<registry, drv, device_number_base, loops, bus, data, fault, books>>

pcdev_platform_exit ==
  /\ setup = "live"
  /\ setup' = "exit" /\ at' = [at EXCEPT !["setup"] = 0]
  /\ cut' = (cut \/ OpenOn("driver") # {})
  /\ UNCHANGED <<registry, drv, device_number_base, work, bus, data, fault, unregistered,
                 unprobed, exited, mistaken, lost>>

\* platform_device_unregister, of a device that may never have been added.
UnregisterDevice ==
  LET i == at["setup"]
  IN  /\ setup = "exit" /\ i < NDEV /\ work["setup"].pc = "none" /\ Unlocked(i, "setup")
      /\ \/ dev[i] = "absent" /\ Fault("absent")
         \/ dev[i] = "bound" /\ Unusable /\ Fault("text")
         \/ /\ dev[i] = "bound" /\ ~Unusable
            /\ Destroy(i) /\ Goto("setup", Doing("load", FALSE))
            /\ UNCHANGED <<regions, pcd_class, freed, file, mod, bus, data, fault, books>>
         \/ /\ dev[i] = "unbound"
            /\ dev' = [dev EXCEPT ![i] = "absent"] /\ Leave("setup")
            /\ UNCHANGED <<registry, mod, driver, data, fault, books>>

SetupGone ==
  /\ setup = "exit" /\ at["setup"] = NDEV
  /\ setup' = "out"
  /\ UNCHANGED <<registry, drv, device_number_base, loops, bus, data, fault, books>>

-----------------------------------------------------------------------------
(* The driver module.                                                      *)
AllocDriverRegion ==
  /\ drv = "out"
  /\ \E m \in Majors \ regions :
       regions' = regions \cup {m} /\ device_number_base' = m
  /\ drv' = "region"
  /\ UNCHANGED <<pcd_class, cdevs, nodes, freed, file, setup, loops, bus, data, fault, books>>

\* Mutant: a failing class_create does not end the init.
CreateClassAnyway ==
  /\ drv = "region" /\ drv' = "class"
  /\ pcd_class' = IF pcd_class = "none" THEN "driver" ELSE pcd_class
  /\ UNCHANGED <<regions, cdevs, nodes, freed, file, setup, device_number_base, loops, bus,
                 data, fault, books>>

CreateDriverClass ==
  /\ drv = "region"
  /\ UNCHANGED <<cdevs, nodes, freed, file, setup, loops, bus, data, fault, books>>
  /\ \/ /\ pcd_class = "none" /\ pcd_class' = "driver" /\ drv' = "class"
        /\ UNCHANGED <<regions, device_number_base>>
     \/ /\ drv' = "out" /\ device_number_base' = NoMajor
        /\ regions' = regions \ {device_number_base}
        /\ UNCHANGED pcd_class

\* platform_driver_register.  The bus looks for a driver of the same name first: it
\* finds the one of an earlier load, in memory that is gone, or the module's own, and
\* then refuses.  Otherwise it may fail, or it visits all devices in their order.
Register(visiting, after) ==
  /\ driver # "stale"
  /\ \/ drv' = after /\ UNCHANGED <<at, driver>>
     \/ /\ driver = "no" /\ driver' = "yes" /\ drv' = visiting
        /\ at' = [at EXCEPT !["driver"] = 0]
  /\ UNCHANGED <<registry, setup, device_number_base, work, dev, data, fault, unregistered,
                 unprobed, cut, mistaken, lost>>

RegisterDriver ==
  /\ drv = "class"
  /\ \/ driver = "stale" /\ Fault("text")
     \/ Register("attach", "live") /\ UNCHANGED exited

AllVisited ==
  /\ drv \in {"attach", "again"} /\ at["driver"] = NDEV
  /\ drv' = IF drv = "attach" THEN "live" ELSE "exit"
  /\ UNCHANGED <<registry, setup, device_number_base, loops, bus, data, fault, books>>

\* The exit registers the driver, where it should unregister it.  The kernel calls it
\* when no file of the module is open.
pcd_platform_driver_exit ==
  /\ drv = "live" /\ OpenOn("driver") = {}
  /\ exited' = TRUE
  /\ Register("again", "exit")

\* class_destroy and unregister_chrdev_region.
DestroyClass ==
  /\ drv = "exit"
  /\ pcd_class' = "none" /\ regions' = regions \ {device_number_base}
  /\ drv' = "ending"
  /\ UNCHANGED <<cdevs, nodes, freed, file, setup, device_number_base, loops, bus, data,
                 fault, books>>

\* The kernel frees the module, registered or not.
DriverGone ==
  /\ drv = "ending"
  /\ drv' = "out" /\ device_number_base' = NoMajor
  /\ driver' = IF driver = "yes" THEN "stale" ELSE driver
  /\ UNCHANGED <<registry, setup, loops, dev, data, fault, books>>
=============================================================================
