-------------------------------- MODULE Pcd ---------------------------------
(***************************************************************************)
(* PCD_multiple_devices/pcd_mul_devs.c: a module that registers            *)
(* MAX_DEVICES pseudo character devices with the kernel, one step of its   *)
(* init function at a time, and serves the files opened on them.  Tasks    *)
(* call read, write and lseek at the same time, also on one file: the      *)
(* driver has no lock, and the kernel serialises the calls on a file only  *)
(* for regular files.  So a call is two steps, the computation from the    *)
(* position it finds and the store of the new one.  What is in a device's  *)
(* memory, and what check_permission returns, which pcd_open only prints,  *)
(* are left out.                                                           *)
(***************************************************************************)
EXTENDS Integers, Sequences, FiniteSets

CONSTANTS MAX_DEVICES,
          Size,           \* dev_data[i].size
          Majors,         \* the dynamic major numbers of the kernel
          NoMajor,
          Files, Tasks,
          MaxCount,       \* bound on the bytes asked for and on seek offsets
          MaxLoads        \* bound on the times the module is loaded

Devs  == 0..(MAX_DEVICES - 1)

ASSUME PcdAssumption ==
  /\ MAX_DEVICES \in Nat \ {0}
  /\ Size \in [Devs -> Nat]
  /\ NoMajor \notin Majors
  /\ MaxCount \in Nat /\ MaxLoads \in Nat

VARIABLES
  \* the module and what it holds in the kernel
  state, index, device_number, regions, class_pcd, cdevs, nodes,
  \* open files, calls under way
  file, call,
  \* bookkeeping: how the loads so far ended, files open when one of them failed
  ended, orphans

kernel == <<index, device_number, regions, class_pcd, cdevs, nodes>>
books  == <<ended, orphans>>
vars   == <<state, kernel, file, call, books>>

\* out: not loaded; region, class: init has got so far; live: init has returned.
States == {"out", "region", "class", "live"}
Ends   == {"class", "add", "create", "exit"}   \* what failed, or the module was unloaded
Modes  == {"r", "w", "rw"}            \* FMODE_READ, FMODE_WRITE of f_mode
Closed == [dev |-> 0, mode |-> "-", f_pos |-> 0]
Opened == [dev : Devs, mode : Modes, f_pos : Nat]
Idle   == [op |-> "-", pos |-> 0, count |-> 0]
Calls  == [op : {"read", "write", "lseek"}, filp : Files, pos : Nat, count : Nat]

TypeOK ==
  /\ state \in States
  /\ index \in 0..MAX_DEVICES
  /\ device_number \in Majors \cup {NoMajor}
  /\ regions \subseteq Majors
  /\ class_pcd \in BOOLEAN
  /\ cdevs \subseteq Nat \X (Majors \X Devs)   \* <<load, <<major, index>>>>
  /\ nodes \subseteq Majors \X Devs
  /\ file \in [Files -> Opened \cup {Closed}]
  /\ call \in [Tasks -> Calls \cup {Idle}]
  /\ ended \in Seq(Ends)
  /\ orphans \subseteq Files

Init ==
  /\ state = "out" /\ index = 0 /\ device_number = NoMajor
  /\ regions = {} /\ class_pcd = FALSE /\ cdevs = {} /\ nodes = {}
  /\ file = [f \in Files |-> Closed]
  /\ call = [t \in Tasks |-> Idle]
  /\ ended = <<>> /\ orphans = {}

OpenFiles == {f \in Files : file[f] # Closed}
Busy(f)   == \E t \in Tasks : call[t] # Idle /\ call[t].filp = f

\* The load under way or done, and its device numbers.
This      == Len(ended) + 1
MyNumbers == {device_number} \X Devs

\* The kernel's map of cdevs: a cdev left by an earlier load under the same number is
\* hidden by a newer one, and cdev_del removes by number, the newest.
Newest(number) ==
  {c \in cdevs : c[2] = number /\ \A e \in cdevs : e[2] = number => e[1] <= c[1]}

\* What is left when the loop over cdev_del has met n cdevs that have a number; the
\* numbers of the others are 0, of no cdev.
cdev_del(n) == cdevs \ UNION {Newest(<<device_number, d>>) : d \in 0..(n - 1)}

-----------------------------------------------------------------------------
(* pcd_init.  alloc_chrdev_region fails when no major number is free:      *)
(* nothing has changed then.                                               *)
AllocRegion ==
  /\ state = "out" /\ Len(ended) < MaxLoads
  /\ \E m \in Majors \ regions :
       /\ regions' = regions \cup {m}
       /\ device_number' = m
  /\ state' = "region"
  /\ UNCHANGED <<index, class_pcd, cdevs, nodes, file, call, books>>

\* The load has failed: the image goes, whoever has opened a device already.
Gone(left, cause) ==
  /\ state' = "out" /\ device_number' = NoMajor /\ index' = 0
  /\ nodes' = nodes \ MyNumbers
  /\ class_pcd' = FALSE
  /\ cdevs' = left
  /\ ended' = Append(ended, cause)
  /\ orphans' = orphans \cup OpenFiles
  /\ file' = [f \in Files |-> Closed]
  /\ call' = [t \in Tasks |-> Idle]

\* Mutant: the label alloc_fail is taken, past unregister_chrdev_region.
GoneWithRegion(left, cause) == Gone(left, cause) /\ UNCHANGED regions
\* Label class_del and what follows it.
ClassDel(left, cause) == Gone(left, cause) /\ regions' = regions \ {device_number}

CreateClass ==
  /\ state = "region"
  /\ \/ /\ class_pcd' = TRUE
        /\ state' = "class" /\ index' = 0
        /\ UNCHANGED <<device_number, regions, cdevs, nodes, file, call, books>>
     \/ ClassDel(cdevs, "class")

\* One pass of the loop.  A failing cdev_add goes to cdev_del, with the number set in
\* the cdev that has not been mapped: there it removes a cdev that an earlier load has
\* left.  A failing device_create goes to class_del, past cdev_del.
AddDevice ==
  LET number == <<device_number, index>>
  IN  /\ state = "class" /\ index < MAX_DEVICES
      /\ \/ /\ cdevs' = cdevs \cup {<<This, number>>}
            /\ nodes' = nodes \cup {number}
            /\ index' = index + 1
            /\ UNCHANGED <<state, device_number, regions, class_pcd, file, call, books>>
         \/ ClassDel(cdev_del(index + 1), "add")
         \/ ClassDel(cdevs \cup {<<This, number>>}, "create")

InitReturns ==
  /\ state = "class" /\ index = MAX_DEVICES
  /\ state' = "live"
  /\ UNCHANGED <<kernel, file, call, books>>

Unload ==
  /\ state = "live"
  /\ state' = "out" /\ device_number' = NoMajor /\ index' = 0
  /\ nodes' = nodes \ MyNumbers
  /\ class_pcd' = FALSE
  /\ cdevs' = cdev_del(MAX_DEVICES)
  /\ ended' = Append(ended, "exit")
  /\ UNCHANGED <<regions, file, call, orphans>>

\* Mutant: neither cdev.owner nor the owner of pcd_fops is set, so that an open file
\* does not hold the module.
UnownedExit == Unload

\* The kernel runs it only when no file is open.  The region that is
\* unregistered starts at device_number + index, where index is MAX_DEVICES:
\* it is none of the module's.
pcd_exit == Unload /\ OpenFiles = {}

-----------------------------------------------------------------------------
(* File operations.                                                        *)
\* Whatever check_permission says, 0 is returned.
pcd_open(f, d, mode) ==
  /\ file[f] = Closed /\ f \notin orphans
  /\ <<device_number, d>> \in nodes
  /\ file' = [file EXCEPT ![f] = [dev |-> d, mode |-> mode, f_pos |-> 0]]
  /\ UNCHANGED <<state, kernel, call, books>>

\* The last close of a file; a call under way keeps it open.
pcd_release(f) ==
  /\ file[f] # Closed /\ ~Busy(f)
  /\ file' = [file EXCEPT ![f] = Closed]
  /\ UNCHANGED <<state, kernel, call, books>>

\* Mutant: only the count is compared with the size.
Unclamped(pos, count, maxsize) == IF count > maxsize THEN maxsize - pos ELSE count
Clamped(pos, count, maxsize) == IF pos + count > maxsize THEN maxsize - pos ELSE count

Enter(t, c) ==
  /\ call' = [call EXCEPT ![t] = c]
  /\ UNCHANGED <<state, kernel, file, books>>

\* A read or write of count bytes at the file's position, up to the copy; a write
\* of none is refused at once.
Transfer(t, f, op, count) ==
  LET n == Clamped(file[f].f_pos, count, Size[file[f].dev])
  IN  /\ call[t] = Idle /\ file[f] # Closed
      /\ op = "write" => n # 0
      /\ Enter(t, [op |-> op, filp |-> f, pos |-> file[f].f_pos, count |-> n])

pcd_read(t, f, count)  == file[f].mode # "w" /\ Transfer(t, f, "read", count)
pcd_write(t, f, count) == file[f].mode # "r" /\ Transfer(t, f, "write", count)

Whence(f, offset, whence) ==
  CASE whence = "SEEK_SET" -> offset
    [] whence = "SEEK_CUR" -> file[f].f_pos + offset
    [] whence = "SEEK_END" -> Size[file[f].dev] - offset

Seek(t, f, offset, whence) ==
  /\ call[t] = Idle /\ file[f] # Closed
  /\ Enter(t, [op |-> "lseek", filp |-> f, pos |-> Whence(f, offset, whence), count |-> 0])

\* Mutant: only the upper bound is compared with.
SeekBelow(t, f, offset, whence) ==
  Seek(t, f, offset, whence) /\ Whence(f, offset, whence) <= Size[file[f].dev]

\* A position outside of the device is refused.
pcd_lseek(t, f, offset, whence) ==
  Seek(t, f, offset, whence) /\ Whence(f, offset, whence) \in 0..Size[file[f].dev]

\* The bytes are copied; if not all can be, the position stays.
Return(t) ==
  /\ call[t] # Idle
  /\ LET c == call[t]
     IN  \/ file' = [file EXCEPT ![c.filp].f_pos = c.pos + c.count]
         \/ c.op # "lseek" /\ UNCHANGED file
  /\ call' = [call EXCEPT ![t] = Idle]
  /\ UNCHANGED <<state, kernel, books>>

Load == AllocRegion \/ CreateClass \/ AddDevice \/ InitReturns

Operation(t, f) ==
  \/ \E n \in 0..MaxCount : pcd_read(t, f, n) \/ pcd_write(t, f, n)
  \/ \E o \in (-MaxCount)..MaxCount, w \in {"SEEK_SET", "SEEK_CUR", "SEEK_END"} :
       pcd_lseek(t, f, o, w)

Next ==
  \/ Load \/ pcd_exit
  \/ \E f \in Files :
       \/ \E d \in Devs, mode \in Modes : pcd_open(f, d, mode)
       \/ pcd_release(f)
       \/ \E t \in Tasks : Operation(t, f)
  \/ \E t \in Tasks : Return(t)

Spec == Init /\ [][Next]_vars
-----------------------------------------------------------------------------
\* No call reads or writes outside of its device's memory, and no position gets
\* there, although another task may move the position of the file between the
\* computation of a count and the copy (pcd_mul_devs.c:139-154, 173-183).
InBounds ==
  /\ \A t \in Tasks : call[t] # Idle =>
       /\ file[call[t].filp] # Closed
       /\ call[t].pos + call[t].count <= Size[file[call[t].filp].dev]
  /\ \A f \in OpenFiles : file[f].f_pos \in 0..Size[file[f].dev]

\* "Initialize owner for cdev, to prevent the module from being unloaded while the
\* structure in use" (line 296): a file is open only on a device whose module is
\* in memory and has registered it.  (A load that fails does not wait for the
\* files opened while it was under way; those are orphans.)
FilesHoldModule ==
  \A f \in OpenFiles :
    LET number == <<device_number, file[f].dev>>
    IN  state \in {"class", "live"} /\ <<This, number>> \in cdevs /\ number \in nodes

LoadsEnded(cause) == {l \in DOMAIN ended : ended[l] = cause}
Stale == {c[1] : c \in cdevs}
\* Loads in which device_create has failed and of which no cdev is left.
Lost  == LoadsEnded("create") \ Stale

\* What is in the kernel when the module is not: no node in /dev and no class; cdevs
\* only of loads in which device_create failed (line 311 jumps past cdev_del), and of
\* all of these but the ones whose last cdev a later failing cdev_add has removed in
\* place of its own (lines 300-320), at most one for each such failure; and a major
\* number for every load that went well, because pcd_exit unregisters numbers that
\* are not its own (line 347).
LeftBehind ==
  state = "out" =>
    /\ nodes = {} /\ ~class_pcd
    /\ Stale \subseteq LoadsEnded("create")
    /\ \A l \in Lost : \E a \in LoadsEnded("add") : l < a
    /\ Cardinality(Lost) <= Cardinality(LoadsEnded("add"))
    /\ Cardinality(regions) = Cardinality(LoadsEnded("exit"))
=============================================================================
