----------------------------- MODULE PcdSingle ------------------------------
(***************************************************************************)
(* PCD/pcd.c, the module with one device: pcd_init one kernel call at a    *)
(* time, with the labels it jumps to when a call fails, and pcd_exit.  Its *)
(* file operations are those of Pcd.                                       *)
(***************************************************************************)
EXTENDS CharDev

VARIABLES single, device_number

pcd == <<single, device_number>>

NoNumber == <<NoMajor, 0>>
Mine     == [no |-> device_number, by |-> "single"]

SingleInit == single = "out" /\ device_number = NoNumber

\* alloc_fail: nothing is undone.
alloc_fail == single' = "out" /\ device_number' = NoNumber

unregister_chrdev ==
  /\ regions' = regions \ {device_number[1]}
  /\ alloc_fail

\* Mutant: the cdev is not deleted.
cdev_stays == unregister_chrdev /\ UNCHANGED cdevs
cdev_del   == unregister_chrdev /\ cdevs' = cdevs \ {Mine}

class_del ==
  /\ pcd_class' = "none" /\ nodes' = nodes \ {Mine}
  /\ cdev_del

\* A failing alloc_chrdev_region changes nothing.
AllocRegion ==
  /\ single = "out"
  /\ \E m \in Majors \ regions :
       regions' = regions \cup {m} /\ device_number' = <<m, 0>>
  /\ single' = "region"
  /\ UNCHANGED <<pcd_class, cdevs, nodes, freed, file>>

AddCdev ==
  /\ single = "region"
  /\ UNCHANGED <<pcd_class, nodes, freed, file>>
  /\ \/ cdevs' = cdevs \cup {Mine} /\ single' = "cdev" /\ UNCHANGED <<regions, device_number>>
     \/ unregister_chrdev /\ UNCHANGED cdevs

\* It fails if the name is taken.
CreateClass ==
  /\ single = "cdev"
  /\ UNCHANGED <<nodes, freed, file>>
  /\ \/ /\ pcd_class = "none" /\ pcd_class' = "single" /\ single' = "class"
        /\ UNCHANGED <<regions, cdevs, device_number>>
     \/ cdev_del /\ UNCHANGED pcd_class

\* It fails if a device of the same number is there.
CreateDevice ==
  /\ single = "class"
  /\ UNCHANGED <<freed, file>>
  /\ \/ /\ ~NodeExists(device_number)
        /\ nodes' = nodes \cup {Mine} /\ single' = "live"
        /\ UNCHANGED <<regions, pcd_class, cdevs, device_number>>
     \/ class_del

\* device_destroy, class_destroy, cdev_del, unregister_chrdev_region; the kernel calls
\* it when no file of the module is open.
pcd_exit ==
  /\ single = "live" /\ OpenOn("single") = {}
  /\ class_del
  /\ UNCHANGED <<freed, file>>
=============================================================================
