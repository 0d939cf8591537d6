---------------------------- MODULE CharModules -----------------------------
(***************************************************************************)
(* PcdSingle, PlatformDriver and its setup module in one kernel, and the   *)
(* tasks that open their device files.                                     *)
(***************************************************************************)
EXTENDS PcdSingle, PlatformDriver

ASSUME CharAssumption ==
  /\ NDEV \in Nat \ {0}
  /\ NoMajor \notin Majors

vars == <<registry, pcd, drivervars>>

Numbers == Majors \X Devs

TypeOK ==
  /\ regions \subseteq Majors
  /\ pcd_class \in Modules \cup {"none"}
  /\ cdevs \subseteq [no : Numbers, by : Modules]
  /\ nodes \subseteq [no : Numbers, by : Modules]
  /\ freed \subseteq Numbers
  /\ file \in [Files -> {Closed} \cup [no : Numbers, by : Modules, live : BOOLEAN]]
  /\ single \in {"out", "region", "cdev", "class", "live"}
  /\ device_number \in Numbers \cup {NoNumber}
  /\ setup \in {"out", "in", "live", "exit"}
  /\ drv \in {"out", "region", "class", "attach", "live", "again", "exit", "ending"}
  /\ at \in [Threads -> 0..NDEV]
  /\ work \in [Threads -> [pc : {"none", "create", "test", "load", "store"},
                           made : BOOLEAN, sum : Int]]
  /\ dev \in [Devs -> {"absent", "unbound", "bound"}]
  /\ driver \in {"no", "yes", "stale"}
  /\ device_number_base \in Majors \cup {NoMajor}
  /\ total_devices \in Int /\ device_pcd \in BOOLEAN
  /\ fault \in {"none", "text", "absent", "freed"}
  /\ unregistered \subseteq Devs /\ unprobed \subseteq Devs /\ mistaken \subseteq Devs
  /\ cut \in BOOLEAN /\ exited \in BOOLEAN /\ lost \in BOOLEAN

Init == CharInit /\ SingleInit /\ DriverInit

Opens(f, no, by) ==
  /\ file' = [file EXCEPT ![f] = [no |-> no, by |-> by, live |-> TRUE]]
  /\ cut' = (cut \/ (by = "driver" /\ setup = "exit"))
  /\ UNCHANGED <<regions, pcd_class, cdevs, nodes, freed, pcd, mod, loops, bus, data, fault,
                 unregistered, unprobed, exited, mistaken, lost>>

\* The open functions of both modules accept.  A module whose exit has begun cannot be
\* opened; the cdevs of one that is gone are still found, and those in freed memory.
pcd_open(f, no) ==
  /\ file[f] = Closed /\ NodeExists(no)
  /\ \/ Found(no) = "single" /\ Opens(f, no, "single")
     \/ Found(no) = "freed" /\ Fault("freed") /\ UNCHANGED pcd
     \/ Found(no) = "driver" /\ driver = "stale" /\ Fault("text") /\ UNCHANGED pcd
     \/ /\ Found(no) = "driver" /\ driver # "stale" /\ drv \notin {"again", "exit", "ending"}
        /\ Opens(f, no, "driver")

\* The last close puts the cdev the open has found.
pcd_release(f) ==
  /\ file[f] # Closed
  /\ IF file[f].live
     THEN /\ file' = [file EXCEPT ![f] = Closed]
          /\ UNCHANGED <<regions, pcd_class, cdevs, nodes, freed, pcd, drivervars>>
     ELSE Fault("freed") /\ UNCHANGED pcd

Up == fault = "none"
Single(action) == Up /\ action /\ UNCHANGED drivervars
Driver(action) == Up /\ action /\ UNCHANGED pcd

Next ==
  \/ Single(AllocRegion) \/ Single(AddCdev) \/ Single(CreateClass)
  \/ Single(CreateDevice) \/ Single(pcd_exit)
  \/ \E t \in Threads : Driver(Probing(t))
  \/ Driver(pcdev_platform_init) \/ Driver(RegisterDevice) \/ Driver(SetupReturns)
  \/ Driver(pcdev_platform_exit) \/ Driver(UnregisterDevice) \/ Driver(SetupGone)
  \/ Driver(AllocDriverRegion) \/ Driver(CreateDriverClass) \/ Driver(RegisterDriver)
  \/ Driver(AllVisited) \/ Driver(pcd_platform_driver_exit) \/ Driver(DestroyClass)
  \/ Driver(DriverGone)
  \/ \E f \in Files : Up /\ ((\E no \in Numbers : pcd_open(f, no)) \/ pcd_release(f))

Spec == Init /\ [][Next]_vars
-----------------------------------------------------------------------------
\* Device i is in the hands of a probe, of one that has created its device file, or of
\* its remove.
InProbe(i)  == \E t \in Threads : at[t] = i /\ work[t].pc # "none" /\ Change(t) = 1
Made(i)     == \E t \in Threads : at[t] = i /\ work[t].made
InRemove(i) == Removing /\ at["setup"] = i

\* What is registered is accounted for, whichever call of a load or probe failed before
\* and however the probes of the two threads overlap: major numbers and the class name
\* are held by a module that is in memory (pcd.c:204-210, 218-221,
\* pcd_platform_driver.c:235, 250-252).  As long as the driver's exit has not run, the
\* cdevs that open can find alive are those of bound devices, of probes under way and of
\* the single module; so are the nodes in /dev, except for devices whose probe has once
\* read another's result (line 176); and total_devices counts the bound devices unless
\* one update overwrote another (lines 182, 199).
RegistryBalanced ==
  /\ regions = (IF single = "out" THEN {} ELSE {device_number[1]})
               \cup (IF drv \in {"out", "ending"} THEN {} ELSE {device_number_base})
  /\ pcd_class = CASE single \in {"class", "live"} -> "single"
                   [] drv \notin {"out", "region", "ending"} -> "driver"
                   [] OTHER -> "none"
  /\ ~exited =>
       /\ cdevs = {Node(i) : i \in {j \in Devs : InProbe(j) \/ (j \in Bound /\ ~InRemove(j))}}
                  \cup (IF single \in {"cdev", "class", "live"} THEN {Mine} ELSE {})
       /\ nodes \subseteq {Node(i) : i \in Devs} \cup (IF single = "live" THEN {Mine} ELSE {})
       /\ single = "live" => Mine \in nodes
       /\ \A i \in Devs \ mistaken :
            Node(i) \in nodes <=> Made(i) \/ (i \in Bound /\ ~InRemove(i))
       /\ ~lost => total_devices = Cardinality(Bound)

\* Whichever module is loaded first, and with both loads under way at a time: once
\* both are there, every device is bound whose registration and probe went well.
AllDevicesBound ==
  setup = "live" /\ drv = "live" /\ driver = "yes" =>
    Devs \ Bound \subseteq unregistered \cup unprobed

\* The kernel goes down only after the exit that registers (pcd_platform_driver.c:248),
\* after an unload of the setup module with a device file open, whose cdev is freed
\* with the device (line 136), after a registration that failed unnoticed
\* (pcd_platform_setup.c:76-79), or after a probe that took another's error for its own
\* (line 176) and left a node behind whose cdev is freed.  A probe that fails on its own
\* account leaves a freed cdev in the map, but no node to find it by.
FaultHasACause == fault # "none" => exited \/ cut \/ unregistered # {} \/ mistaken # {}
=============================================================================
