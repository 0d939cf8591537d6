------------------------------ MODULE CharDev -------------------------------
(***************************************************************************)
(* What the kernel keeps of character devices for PCD/pcd.c and            *)
(* Platform_device/pcd_platform_driver.c, as far as the two modules meet   *)
(* in it: the dynamic major numbers, the one class name "pcd_class" both   *)
(* ask for, the map from device numbers to cdevs, the nodes in /dev, and   *)
(* the files that are open.  A device number is a pair <<major, minor>>.   *)
(***************************************************************************)
EXTENDS Integers, FiniteSets

CONSTANTS Majors, NoMajor, Files

VARIABLES
  regions,      \* major numbers in use
  pcd_class,    \* the module that holds the name "pcd_class", or "none"
  cdevs, nodes, \* records [no, by] of a device number and the module it is of
  freed,        \* the device numbers under which the map still has a cdev in freed memory
  file          \* per file: Closed, or the cdev found by its open

registry == <<regions, pcd_class, cdevs, nodes, freed, file>>

Modules == {"single", "driver"}
Closed  == [no |-> <<NoMajor, 0>>, by |-> "none", live |-> FALSE]

CharInit ==
  /\ regions = {} /\ pcd_class = "none" /\ cdevs = {} /\ nodes = {} /\ freed = {}
  /\ file = [f \in Files |-> Closed]

\* A file whose cdev has been freed.
Dead(r) == [no |-> r.no, by |-> r.by, live |-> FALSE]

NodeExists(no) == \E n \in nodes : n.no = no
OpenOn(by)     == {f \in Files : file[f].by = by}

\* The cdev that an open of a number finds is the one added last, which hides one left
\* behind under the same number.  cdev_del takes that one out too.
Found(no) ==
  IF \E by \in Modules : [no |-> no, by |-> by] \in cdevs
  THEN IF [no |-> no, by |-> "single"] \in cdevs THEN "single" ELSE "driver"
  ELSE IF no \in freed THEN "freed" ELSE "none"
=============================================================================
