----------------------------- MODULE Pcd_proofs -----------------------------
(***************************************************************************)
(* Any number of devices, files and tasks: the driver's calls stay inside  *)
(* its devices' memory, and a file that is open holds the module.          *)
(***************************************************************************)
EXTENDS Pcd, FiniteSetTheorems, SequenceTheorems, TLAPS

\* The nodes in /dev are of the load under way, or of the one done, ...
NodesOwn ==
  /\ nodes \subseteq MyNumbers
  /\ state \in {"out", "region"} => nodes = {}

\* ... and behind each of them there is a cdev: pcd_init adds it first.
NodesBacked ==
  \A d \in Devs : <<device_number, d>> \in nodes => <<This, <<device_number, d>>>> \in cdevs

\* A module in memory has its number.
Numbered == state # "out" => device_number \in Majors

IInv ==
  TypeOK /\ InBounds /\ FilesHoldModule /\ NodesOwn /\ NodesBacked /\ Numbered

-----------------------------------------------------------------------------
\* A transfer that fits: what is left of the device, or what was asked for.
LEMMA ClampedFits ==
  ASSUME NEW pos \in Nat, NEW count \in Nat, NEW size \in Nat, pos <= size
  PROVE  /\ Clamped(pos, count, size) \in Nat
         /\ pos + Clamped(pos, count, size) <= size
BY DEF Clamped

\* A closed file and an idle task are told from an open one and a busy one.
LEMMA Distinct == Closed \notin Opened /\ Idle \notin Calls
BY DEF Closed, Opened, Modes, Idle, Calls

LEMMA InitHolds == Init => IInv
<1> SUFFICES ASSUME Init PROVE IInv
  OBVIOUS
<1> USE DEF Init
<1>1. TypeOK
  <2>1. index \in 0..MAX_DEVICES
    BY PcdAssumption
  <2>2. ended \in Seq(Ends)
    OBVIOUS
  <2>3. QED BY <2>1, <2>2 DEF TypeOK, States
<1>2. InBounds /\ FilesHoldModule
  BY DEF InBounds, FilesHoldModule, OpenFiles
<1>3. NodesOwn /\ NodesBacked /\ Numbered
  BY DEF NodesOwn, NodesBacked, Numbered, Numbered
<1>4. QED BY <1>1, <1>2, <1>3 DEF IInv

\* A load that has failed leaves no file open and no call under way.
LEMMA GoneStep ==
  ASSUME IInv, NEW left \in SUBSET (Nat \X (Majors \X Devs)), NEW cause \in Ends,
         ClassDel(left, cause)
  PROVE  IInv'
<1> USE DEF IInv, TypeOK, ClassDel, Gone
<1>1. TypeOK'
  <2>1. index' \in 0..MAX_DEVICES
    BY PcdAssumption
  <2>2. ended' \in Seq(Ends)
    OBVIOUS
  <2>3. orphans' \subseteq Files
    BY DEF OpenFiles
  <2>4. QED BY <2>1, <2>2, <2>3 DEF States
<1>2. nodes' = {}
  BY DEF NodesOwn
<1>3. InBounds' /\ FilesHoldModule'
  BY DEF InBounds, FilesHoldModule, OpenFiles
<1>4. NodesOwn' /\ NodesBacked' /\ Numbered'
  BY <1>2 DEF NodesOwn, NodesBacked, Numbered, MyNumbers
<1>5. QED BY <1>1, <1>3, <1>4

\* Removing cdevs from the map adds none.
LEMMA DelLeaves == \A n : cdev_del(n) \subseteq cdevs
BY DEF cdev_del

LEMMA LoadStep == ASSUME IInv, Load PROVE IInv'
<1> USE DEF IInv
<1>1. This \in Nat
  BY DEF TypeOK, This
<1>2. CASE AllocRegion
  <2>1. TypeOK'
    BY <1>2 DEF AllocRegion, TypeOK, books, States
  <2>2. OpenFiles = {} /\ nodes = {}
    BY <1>2 DEF AllocRegion, FilesHoldModule, NodesOwn
  <2>3. QED BY <2>1, <2>2, <1>2
         DEF AllocRegion, InBounds, FilesHoldModule, NodesOwn, NodesBacked, Numbered, OpenFiles,
             MyNumbers, books
<1>3. CASE CreateClass
  <2>1. CASE ClassDel(cdevs, "class")
    BY <2>1, GoneStep DEF TypeOK, Ends
  <2>2. CASE /\ class_pcd' = TRUE
             /\ state' = "class" /\ index' = 0
             /\ UNCHANGED <<device_number, regions, cdevs, nodes, file, call, books>>
    <3>1. TypeOK'
      <4>1. index' \in 0..MAX_DEVICES
        BY <2>2, PcdAssumption
      <4>2. QED BY <2>2, <4>1 DEF TypeOK, books, States
    <3>2. nodes = {} /\ OpenFiles = {}
      BY <1>3 DEF CreateClass, NodesOwn, FilesHoldModule
    <3>3. InBounds' /\ FilesHoldModule'
      BY <2>2, <3>2 DEF InBounds, FilesHoldModule, OpenFiles
    <3>4. NodesOwn' /\ NodesBacked' /\ Numbered'
      BY <1>3, <2>2, <3>2 DEF CreateClass, NodesOwn, NodesBacked, Numbered
    <3>5. QED BY <3>1, <3>3, <3>4
  <2>3. QED BY <1>3, <2>1, <2>2 DEF CreateClass
<1>4. CASE AddDevice
  <2>1. index \in Devs
    BY <1>4, PcdAssumption DEF AddDevice, TypeOK, Devs
  <2> DEFINE number == <<device_number, index>>
  <2>6. number \in Majors \X Devs
    BY <1>4, <2>1 DEF AddDevice, Numbered
  <2>2. CASE ClassDel(cdev_del(index + 1), "add")
    <3>1. cdev_del(index + 1) \in SUBSET (Nat \X (Majors \X Devs))
      BY DelLeaves DEF TypeOK
    <3>2. "add" \in Ends
      BY DEF Ends
    <3>3. QED BY <2>2, <3>1, <3>2, GoneStep
  <2>3. CASE ClassDel(cdevs \cup {<<This, number>>}, "create")
    <3>1. cdevs \cup {<<This, number>>} \in SUBSET (Nat \X (Majors \X Devs))
      BY <2>6, <1>1 DEF TypeOK
    <3>2. "create" \in Ends
      BY DEF Ends
    <3>3. QED BY <2>3, <3>1, <3>2, GoneStep
  <2>4. CASE /\ cdevs' = cdevs \cup {<<This, number>>}
             /\ nodes' = nodes \cup {number}
             /\ index' = index + 1
             /\ UNCHANGED <<state, device_number, regions, class_pcd, file, call, books>>
    <3>1. TypeOK'
      <4>1. index' \in 0..MAX_DEVICES
        BY <2>4, <1>4, PcdAssumption DEF AddDevice, TypeOK
      <4>2. QED BY <2>4, <4>1, <2>6, <1>1 DEF TypeOK, books
    <3>2. This' = This
      BY <2>4 DEF This, books
    <3>3. InBounds' /\ FilesHoldModule'
      BY <2>4, <3>2 DEF InBounds, FilesHoldModule, OpenFiles
    <3>4. NodesOwn'
      BY <2>4, <2>1, <1>4 DEF AddDevice, NodesOwn, MyNumbers
    <3>5. NodesBacked'
      BY <2>4, <3>2, <2>1 DEF NodesBacked
    <3>6. Numbered'
      BY <2>4 DEF Numbered
    <3>7. QED BY <3>1, <3>3, <3>4, <3>5, <3>6
  <2>5. QED BY <1>4, <2>2, <2>3, <2>4 DEF AddDevice
<1>5. CASE InitReturns
  <2>1. TypeOK'
    BY <1>5 DEF InitReturns, TypeOK, kernel, books, States
  <2>2. QED BY <2>1, <1>5
         DEF InitReturns, InBounds, FilesHoldModule, NodesOwn, NodesBacked, Numbered, OpenFiles,
             MyNumbers, This, kernel, books
<1>6. QED BY <1>2, <1>3, <1>4, <1>5 DEF Load

LEMMA ExitStep == ASSUME IInv, pcd_exit PROVE IInv'
<1> USE DEF IInv, pcd_exit, Unload
<1>1. TypeOK'
  <2>1. index' \in 0..MAX_DEVICES
    BY PcdAssumption
  <2>2. ended' \in Seq(Ends)
    BY DEF TypeOK, Ends
  <2>3. cdevs' \subseteq cdevs
    BY DelLeaves
  <2>4. QED BY <2>1, <2>2, <2>3 DEF TypeOK, States
<1>2. nodes' = {}
  BY DEF NodesOwn
<1>3. InBounds' /\ FilesHoldModule'
  BY DEF InBounds, FilesHoldModule, OpenFiles
<1>4. NodesOwn' /\ NodesBacked' /\ Numbered'
  BY <1>2 DEF NodesOwn, NodesBacked, Numbered
<1>5. QED BY <1>1, <1>3, <1>4

LEMMA OpenStep ==
  ASSUME IInv, NEW f \in Files, NEW d \in Devs, NEW mode \in Modes, pcd_open(f, d, mode)
  PROVE  IInv'
<1> USE DEF IInv, pcd_open
<1>1. TypeOK'
  BY DEF TypeOK, Opened, kernel, books
<1>2. InBounds'
  <2>1. file[f] = Closed /\ file'[f] = [dev |-> d, mode |-> mode, f_pos |-> 0]
    BY DEF TypeOK
  <2>2. \A g \in Files : g # f => file'[g] = file[g]
    BY DEF TypeOK
  <2>3. \A t \in Tasks : call[t] # Idle => call[t].filp \in Files \ {f}
    BY <2>1 DEF TypeOK, InBounds, Calls
  <2>4. 0 \in 0..Size[d]
    BY PcdAssumption
  <2>5. QED BY <2>1, <2>2, <2>3, <2>4 DEF InBounds, OpenFiles
<1>3. FilesHoldModule'
  <2>1. <<This, <<device_number, d>>>> \in cdevs
    BY DEF NodesBacked
  <2>2. state \in {"class", "live"}
    BY DEF NodesOwn, TypeOK, States
  <2>3. QED BY <2>1, <2>2 DEF FilesHoldModule, OpenFiles, TypeOK, This, kernel, books
<1>4. NodesOwn' /\ NodesBacked' /\ Numbered'
  BY DEF NodesOwn, NodesBacked, Numbered, MyNumbers, This, kernel, books
<1>5. QED BY <1>1, <1>2, <1>3, <1>4

LEMMA ReleaseStep == ASSUME IInv, NEW f \in Files, pcd_release(f) PROVE IInv'
<1> USE DEF IInv, pcd_release
<1>1. TypeOK'
  BY DEF TypeOK, kernel, books
<1>2. \A t \in Tasks : call[t] # Idle => call[t].filp \in Files \ {f}
  BY DEF TypeOK, Calls, Busy
<1>3. \A g \in Files : g # f => file'[g] = file[g]
  BY DEF TypeOK
<1>4. file'[f] = Closed
  BY DEF TypeOK
<1>5. InBounds'
  BY <1>2, <1>3, <1>4 DEF InBounds, OpenFiles
<1>6. FilesHoldModule'
  BY <1>3, <1>4 DEF FilesHoldModule, OpenFiles, This, kernel, books
<1>7. NodesOwn' /\ NodesBacked' /\ Numbered'
  BY DEF NodesOwn, NodesBacked, Numbered, MyNumbers, This, kernel, books
<1>8. QED BY <1>1, <1>5, <1>6, <1>7

\* A task enters a call that stays in the device's memory.
LEMMA EnterStep ==
  ASSUME IInv, NEW t \in Tasks, NEW c \in Calls, file[c.filp] # Closed,
         c.pos + c.count <= Size[file[c.filp].dev], Enter(t, c)
  PROVE  IInv'
<1> USE DEF IInv, Enter
<1>1. TypeOK'
  BY DEF TypeOK, kernel, books
<1>2. InBounds'
  <2>1. call'[t] = c /\ \A u \in Tasks : u # t => call'[u] = call[u]
    BY DEF TypeOK
  <2>2. QED BY <2>1 DEF InBounds, OpenFiles
<1>3. FilesHoldModule' /\ NodesOwn' /\ NodesBacked' /\ Numbered'
  BY DEF FilesHoldModule, OpenFiles, NodesOwn, NodesBacked, Numbered, MyNumbers, This,
         kernel, books
<1>4. QED BY <1>1, <1>2, <1>3

LEMMA OperationStep ==
  ASSUME IInv, NEW t \in Tasks, NEW f \in Files, Operation(t, f)
  PROVE  IInv'
<1>1. ASSUME file[f] # Closed
      PROVE  /\ file[f] \in Opened
             /\ Size[file[f].dev] \in Nat
             /\ file[f].f_pos \in 0..Size[file[f].dev]
  BY <1>1, PcdAssumption DEF IInv, TypeOK, InBounds, OpenFiles, Opened
<1>2. ASSUME NEW n \in 0..MaxCount, NEW op \in {"read", "write"}, Transfer(t, f, op, n)
      PROVE  IInv'
  <2>1. file[f] # Closed
    BY <1>2 DEF Transfer
  <2> DEFINE k == Clamped(file[f].f_pos, n, Size[file[f].dev])
             c == [op |-> op, filp |-> f, pos |-> file[f].f_pos, count |-> k]
  <2>2. k \in Nat /\ file[f].f_pos + k <= Size[file[f].dev]
    <3>1. n \in Nat /\ file[f].f_pos \in Nat /\ file[f].f_pos <= Size[file[f].dev]
      BY <1>1, <2>1, PcdAssumption
    <3>2. QED BY <1>1, <2>1, <3>1, ClampedFits
  <2>3. c \in Calls
    BY <1>1, <2>1, <2>2 DEF Calls, Opened
  <2>4. Enter(t, c)
    BY <1>2 DEF Transfer
  <2>5. QED BY <2>1, <2>2, <2>3, <2>4, EnterStep
<1>3. ASSUME NEW o, NEW w, pcd_lseek(t, f, o, w)
      PROVE  IInv'
  <2>1. file[f] # Closed
    BY <1>3 DEF pcd_lseek, Seek
  <2> DEFINE p == Whence(f, o, w)
             c == [op |-> "lseek", filp |-> f, pos |-> p, count |-> 0]
  <2>2. p \in Nat /\ p + 0 <= Size[file[f].dev]
    <3>1. p \in 0..Size[file[f].dev]
      BY <1>3 DEF pcd_lseek
    <3> HIDE DEF p
    <3>2. QED BY <1>1, <2>1, <3>1
  <2>3. Enter(t, c)
    BY <1>3 DEF pcd_lseek, Seek
  <2> HIDE DEF p
  <2>4. c \in Calls
    BY <2>2 DEF Calls
  <2>5. QED BY <2>1, <2>2, <2>3, <2>4, EnterStep
<1>4. QED BY <1>2, <1>3 DEF Operation, pcd_read, pcd_write

\* A call returns; its file is open, and the position it stores lies in the device.
LEMMA ReturnStep == ASSUME IInv, NEW t \in Tasks, Return(t) PROVE IInv'
<1> USE DEF IInv
<1> DEFINE c == call[t]
           f == c.filp
           p == c.pos + c.count
<1>1. /\ call[t] \in Calls
      /\ f \in Files /\ file[f] \in Opened
      /\ p \in 0..Size[file[f].dev]
  <2>1. call[t] \in Calls
    BY DEF Return, TypeOK
  <2>2. f \in Files /\ file[f] # Closed /\ p <= Size[file[f].dev]
    BY <2>1 DEF Return, InBounds, Calls
  <2>3. file[f] \in Opened
    BY <2>2 DEF TypeOK
  <2>4. Size[file[f].dev] \in Nat /\ p \in Nat
    BY <2>1, <2>3, PcdAssumption DEF Opened, Calls
  <2>5. QED BY <2>1, <2>2, <2>3, <2>4
<1>2. /\ call' = [call EXCEPT ![t] = Idle]
      /\ UNCHANGED <<state, kernel, books>>
  BY DEF Return
<1>3. file' = [file EXCEPT ![f].f_pos = p] \/ file' = file
  BY DEF Return
<1> HIDE DEF p
\* A file stays open or closed, on its device.
<1>5. \A g \in Files :
        /\ file[g] = Closed => file'[g] = Closed
        /\ file[g] # Closed => /\ file'[g] \in Opened /\ file'[g].dev = file[g].dev
                               /\ file'[g].f_pos \in 0..Size[file[g].dev]
  <2> SUFFICES ASSUME NEW g \in Files
               PROVE  /\ file[g] = Closed => file'[g] = Closed
                      /\ file[g] # Closed => /\ file'[g] \in Opened
                                             /\ file'[g].dev = file[g].dev
                                             /\ file'[g].f_pos \in 0..Size[file[g].dev]
    OBVIOUS
  <2>1. CASE file'[g] = file[g]
    BY <2>1 DEF TypeOK, InBounds, OpenFiles
  <2>2. CASE g = f /\ file' = [file EXCEPT ![f].f_pos = p]
    <3>1. file'[f] = [dev |-> file[f].dev, mode |-> file[f].mode, f_pos |-> p]
      BY <2>2, <1>1 DEF TypeOK, Opened
    <3>2. p \in Nat
      BY <1>1, PcdAssumption DEF Opened
    <3>3. QED BY <2>2, <3>1, <3>2, <1>1, Distinct DEF Opened
  <2>3. QED BY <2>1, <2>2, <1>3, <1>1 DEF TypeOK
<1>6. TypeOK'
  <2>1. file' \in [Files -> Opened \cup {Closed}]
    <3>1. DOMAIN file' = Files /\ file' = [g \in Files |-> file'[g]]
      BY <1>3 DEF TypeOK
    <3>2. QED BY <1>5, <3>1
  <2>2. QED BY <2>1, <1>2 DEF TypeOK, kernel, books
<1>7. InBounds'
  <2>1. \A u \in Tasks : call'[u] # Idle => call'[u] = call[u] /\ call[u] \in Calls
    BY <1>2 DEF TypeOK
  <2>2. \A u \in Tasks : call'[u] # Idle =>
          /\ call[u].filp \in Files
          /\ file[call[u].filp] # Closed
          /\ call[u].pos + call[u].count <= Size[file[call[u].filp].dev]
    BY <2>1 DEF InBounds, Calls
  <2>3. \A g \in Files : file'[g] # Closed => file'[g].f_pos \in 0..Size[file'[g].dev]
    BY <1>5
  <2>4. QED BY <1>5, <2>1, <2>2, <2>3, Distinct DEF InBounds, OpenFiles
<1>8. FilesHoldModule'
  <2>1. This' = This /\ state' = state /\ cdevs' = cdevs /\ nodes' = nodes
          /\ device_number' = device_number
    BY <1>2 DEF This, kernel, books
  <2>2. \A g \in Files : file'[g] # Closed =>
          file[g] # Closed /\ file'[g].dev = file[g].dev
    BY <1>5
  <2>3. QED BY <2>1, <2>2 DEF FilesHoldModule, OpenFiles
<1>9. NodesOwn' /\ NodesBacked' /\ Numbered'
  BY <1>2 DEF NodesOwn, NodesBacked, Numbered, MyNumbers, This, kernel, books
<1>10. QED BY <1>6, <1>7, <1>8, <1>9

LEMMA StepKeeps == IInv /\ [Next]_vars => IInv'
<1> SUFFICES ASSUME IInv, [Next]_vars PROVE IInv'
  OBVIOUS
<1>1. CASE UNCHANGED vars
  BY <1>1 DEF IInv, TypeOK, InBounds, FilesHoldModule, NodesOwn, NodesBacked, Numbered, OpenFiles,
              MyNumbers, This, vars, kernel, books
<1>2. CASE Next
  BY <1>2, LoadStep, ExitStep, OpenStep, ReleaseStep, OperationStep, ReturnStep DEF Next
<1>3. QED BY <1>1, <1>2

\* Loading, unloading and the file operations keep the strengthened invariant.
THEOREM Invariance == Spec => []IInv
BY InitHolds, StepKeeps, PTL DEF Spec

\* The state of pcd_mul_devs.c keeps its type: in particular no call has a negative
\* count or position (lines 138-147, 206-243).
THEOREM TypeCorrect == Spec => []TypeOK
<1>1. IInv => TypeOK
  BY DEF IInv
<1>2. QED BY <1>1, Invariance, PTL

\* No read, write or seek leaves its device's memory, in whatever order the tasks
\* that share a file compute their counts and store their positions.
THEOREM CallsInBounds == Spec => []InBounds
<1>1. IInv => InBounds
  BY DEF IInv
<1>2. QED BY <1>1, Invariance, PTL

\* An open file is on a device that the loaded module has registered (line 296).
THEOREM OpenFilesHoldModule == Spec => []FilesHoldModule
<1>1. IInv => FilesHoldModule
  BY DEF IInv
<1>2. QED BY <1>1, Invariance, PTL
-----------------------------------------------------------------------------
(* What loads leave in the kernel.                                         *)

\* The cdevs that the load under way has mapped.
Mapped ==
  IF state \in {"class", "live"} THEN {This} \X ({device_number} \X (0..(index - 1))) ELSE {}

\* Each cdev is of the load under way, which has all it has mapped, or of one in which
\* device_create failed.
CdevsOK ==
  /\ Mapped \subseteq cdevs
  /\ \A c \in cdevs : c \in Mapped \/ c[1] \in LoadsEnded("create")
  /\ state = "live" => index = MAX_DEVICES

\* A load that has left no cdev lost its last one to a later failing cdev_add.
LostOK ==
  /\ \A l \in Lost : \E a \in LoadsEnded("add") : l < a
  /\ IsFiniteSet(Lost) /\ Cardinality(Lost) <= Cardinality(LoadsEnded("add"))

\* Each major number in use is of a load that went well, or of the one under way.
RegionsOK ==
  /\ IsFiniteSet(regions)
  /\ Cardinality(regions) = Cardinality(LoadsEnded("exit")) + (IF state = "out" THEN 0 ELSE 1)
  /\ state # "out" => device_number \in regions
  /\ state \in {"out", "region"} => ~class_pcd

Accounted == CdevsOK /\ LostOK /\ RegionsOK

\* The loads that ended in one way are numbers up to Len(ended), finitely many.
LEMMA LoadsFinite ==
  ASSUME TypeOK, NEW cause
  PROVE  /\ IsFiniteSet(LoadsEnded(cause)) /\ Cardinality(LoadsEnded(cause)) \in Nat
         /\ This \in Nat
         /\ \A l \in LoadsEnded(cause) : l \in Nat /\ l < This
<1>1. Len(ended) \in Nat /\ DOMAIN ended = 1..Len(ended)
  BY DEF TypeOK
<1>2. LoadsEnded(cause) \in SUBSET (1..Len(ended))
  BY <1>1 DEF LoadsEnded
<1>3. IsFiniteSet(1..Len(ended))
  BY <1>1, FS_Interval
<1>4. IsFiniteSet(LoadsEnded(cause)) /\ Cardinality(LoadsEnded(cause)) \in Nat
  BY <1>2, <1>3, FS_Subset, FS_CardinalityType
<1>5. This \in Nat /\ \A l \in LoadsEnded(cause) : l \in Nat /\ l < This
  BY <1>1, <1>2 DEF This
<1>6. QED BY <1>4, <1>5

\* A load that ends is one more of its kind.
LEMMA OneMore ==
  ASSUME TypeOK, NEW how \in Ends, ended' = Append(ended, how)
  PROVE  /\ LoadsEnded(how)' = LoadsEnded(how) \cup {This}
         /\ \A cause \in Ends \ {how} : LoadsEnded(cause)' = LoadsEnded(cause)
<1>1. Len(ended) \in Nat /\ DOMAIN ended = 1..Len(ended) /\ ended \in Seq(Ends)
  BY DEF TypeOK
<1>2. /\ DOMAIN ended' = 1..(Len(ended) + 1) /\ ended'[Len(ended) + 1] = how
      /\ \A l \in 1..Len(ended) : ended'[l] = ended[l]
  BY <1>1, AppendProperties
<1>3. \A l : l \in DOMAIN ended' <=> l \in DOMAIN ended \/ l = This
  BY <1>1, <1>2 DEF This
<1>4. QED BY <1>1, <1>2, <1>3 DEF LoadsEnded, This

\* And its kind counts one more.
LEMMA OneMoreCounts ==
  ASSUME TypeOK, NEW how \in Ends, ended' = Append(ended, how)
  PROVE  Cardinality(LoadsEnded(how)') = Cardinality(LoadsEnded(how)) + 1
<1>1. This \notin LoadsEnded(how) /\ IsFiniteSet(LoadsEnded(how))
  BY LoadsFinite
<1>2. Cardinality(LoadsEnded(how) \cup {This}) = Cardinality(LoadsEnded(how)) + 1
  BY <1>1, FS_AddElement
<1>3. QED BY <1>2, OneMore

\* No cdev is of a later load, and none of an earlier load is among the present one's.
LEMMA CdevLoads ==
  ASSUME IInv, CdevsOK, NEW c \in cdevs
  PROVE  /\ c = <<c[1], c[2]>> /\ c[1] \in Nat /\ c[1] <= This /\ This \in Nat
         /\ c[1] = This <=> c \in Mapped
<1>1. c \in Nat \X (Majors \X Devs)
  BY DEF IInv, TypeOK
<1>2. c \in Mapped => c[1] = This
  BY DEF Mapped
<1>3. This \in Nat /\ \A l \in LoadsEnded("create") : l < This
  BY LoadsFinite DEF IInv
<1>4. c \in Mapped \/ c[1] \in LoadsEnded("create")
  BY DEF CdevsOK
<1>5. QED BY <1>1, <1>2, <1>3, <1>4

\* The cdev the kernel finds for a number of the present load that is mapped is that load's.
LEMMA OwnIsNewest ==
  ASSUME IInv, CdevsOK, NEW d, <<This, <<device_number, d>>>> \in Mapped
  PROVE  Newest(<<device_number, d>>) = {<<This, <<device_number, d>>>>}
<1> DEFINE number == <<device_number, d>>
           own    == <<This, number>>
<1>1. own \in cdevs /\ own[1] = This /\ own[2] = number
  BY DEF CdevsOK
<1>2. \A e \in cdevs : e = <<e[1], e[2]>> /\ e[1] \in Nat /\ e[1] <= This /\ This \in Nat
  BY CdevLoads
<1> HIDE DEF own, number
<1>3. own \in Newest(number)
  BY <1>1, <1>2 DEF Newest
<1>4. ASSUME NEW c \in Newest(number)
      PROVE  c = own
  <2>1. c \in cdevs /\ c[2] = number /\ own[1] <= c[1]
    BY <1>1 DEF Newest
  <2>2. c[1] = This
    BY <2>1, <1>1, <1>2
  <2>3. own = <<This, number>>
    BY DEF own
  <2>4. QED BY <2>1, <2>2, <2>3, <1>2
<1>5. Newest(number) = {own}
  BY <1>3, <1>4
<1>6. QED BY <1>5 DEF own, number

\* What the loop over cdev_del removes, up to the last index mapped: the load's cdevs.
LEMMA DelOwn ==
  ASSUME IInv, CdevsOK, state \in {"class", "live"}
  PROVE  cdev_del(index) = cdevs \ Mapped
<1>1. \A d \in 0..(index - 1) : <<This, <<device_number, d>>>> \in Mapped
  BY DEF Mapped
<1>2. \A d \in 0..(index - 1) : Newest(<<device_number, d>>) = {<<This, <<device_number, d>>>>}
  BY <1>1, OwnIsNewest
<1>3. UNION {Newest(<<device_number, d>>) : d \in 0..(index - 1)} = Mapped
  <2>1. Mapped = {This} \X ({device_number} \X (0..(index - 1)))
    BY DEF Mapped
  <2>2. ASSUME NEW c
        PROVE  c \in Mapped <=> \E d \in 0..(index - 1) : c = <<This, <<device_number, d>>>>
    BY <2>1
  <2>3. ASSUME NEW c
        PROVE  c \in UNION {Newest(<<device_number, d>>) : d \in 0..(index - 1)}
                 <=> \E d \in 0..(index - 1) : c \in Newest(<<device_number, d>>)
    OBVIOUS
  <2>4. ASSUME NEW c
        PROVE  c \in UNION {Newest(<<device_number, d>>) : d \in 0..(index - 1)} <=> c \in Mapped
    <3> DEFINE N(d) == Newest(<<device_number, d>>)
               own(d) == <<This, <<device_number, d>>>>
    <3>1. \A d \in 0..(index - 1) : N(d) = {own(d)}
      BY <1>2
    <3>2. (\E d \in 0..(index - 1) : c \in N(d)) <=> c \in Mapped
      <4>1. c \in Mapped <=> \E d \in 0..(index - 1) : c = own(d)
        BY <2>2
      <4> HIDE DEF N, own
      <4>2. QED BY <3>1, <4>1
    <3>3. QED BY <2>3, <3>2
  <2>5. QED BY <2>4
<1>4. QED BY <1>3 DEF cdev_del

\* One index further it is also the cdev an earlier load has left there, at most one.
LEMMA DelOneMore ==
  ASSUME IInv, CdevsOK, state = "class"
  PROVE  /\ cdev_del(index + 1) = (cdevs \ Mapped) \ Newest(<<device_number, index>>)
         /\ \A c, e \in Newest(<<device_number, index>>) : c = e
<1>1. index \in Nat
  BY PcdAssumption DEF IInv, TypeOK
<1>2. 0..(index + 1 - 1) = (0..(index - 1)) \cup {index}
  BY <1>1
<1>3. cdev_del(index + 1) = cdev_del(index) \ Newest(<<device_number, index>>)
  BY <1>2 DEF cdev_del
<1>4. ASSUME NEW c \in Newest(<<device_number, index>>), NEW e \in Newest(<<device_number, index>>)
      PROVE  c = e
  <2>1. c \in cdevs /\ e \in cdevs /\ c[2] = e[2] /\ c[1] <= e[1] /\ e[1] <= c[1]
    BY DEF Newest
  <2>2. c = <<c[1], c[2]>> /\ e = <<e[1], e[2]>> /\ c[1] \in Nat /\ e[1] \in Nat
    BY <2>1, CdevLoads
  <2>3. c[1] = e[1]
    BY <2>1, <2>2
  <2>4. QED BY <2>1, <2>2, <2>3
<1>5. QED BY <1>3, <1>4, DelOwn

\* A load that fails gives its major number back.
LEMMA RegionsFailure ==
  ASSUME IInv, RegionsOK, state # "out", NEW left, NEW cause \in Ends \ {"exit"},
         ClassDel(left, cause)
  PROVE  RegionsOK'
<1>1. /\ state' = "out" /\ ~class_pcd'
      /\ ended' = Append(ended, cause) /\ regions' = regions \ {device_number}
  BY DEF ClassDel, Gone
<1>2. LoadsEnded("exit")' = LoadsEnded("exit")
  BY <1>1, OneMore DEF IInv, Ends
<1>3. Cardinality(LoadsEnded("exit")) \in Nat
  BY LoadsFinite DEF IInv
<1>4. IsFiniteSet(regions') /\ Cardinality(regions') = Cardinality(regions) - 1
  BY <1>1, FS_RemoveElement DEF RegionsOK
<1>5. QED BY <1>1, <1>2, <1>3, <1>4 DEF RegionsOK

\* A failing class_create leaves no cdev, and takes none away.
LEMMA ClassFails ==
  ASSUME IInv, Accounted, state = "region", ClassDel(cdevs, "class")
  PROVE  Accounted'
<1>1. state' = "out" /\ cdevs' = cdevs /\ ended' = Append(ended, "class")
  BY DEF ClassDel, Gone
<1>2. /\ LoadsEnded("create")' = LoadsEnded("create")
      /\ LoadsEnded("add")' = LoadsEnded("add")
  BY <1>1, OneMore DEF IInv, Ends
<1>3. CdevsOK'
  BY <1>1, <1>2 DEF Accounted, CdevsOK, Mapped
<1>4. Lost' = Lost
  BY <1>1, <1>2 DEF Lost, Stale
<1>5. LostOK'
  BY <1>2, <1>4 DEF Accounted, LostOK
<1>6. RegionsOK'
  BY RegionsFailure DEF Accounted, Ends
<1>7. QED BY <1>3, <1>5, <1>6 DEF Accounted

\* A failing device_create leaves the cdevs of its load.
LEMMA CreateFails ==
  ASSUME IInv, Accounted, state = "class",
         ClassDel(cdevs \cup {<<This, <<device_number, index>>>>}, "create")
  PROVE  Accounted'
<1> DEFINE own == <<This, <<device_number, index>>>>
<1>1. state' = "out" /\ cdevs' = cdevs \cup {own} /\ ended' = Append(ended, "create")
  BY DEF ClassDel, Gone
<1>2. /\ LoadsEnded("create")' = LoadsEnded("create") \cup {This}
      /\ LoadsEnded("add")' = LoadsEnded("add")
  BY <1>1, OneMore DEF IInv, Ends
<1>3. CdevsOK'
  <2>1. \A c \in cdevs : c[1] = This \/ c[1] \in LoadsEnded("create")
    BY CdevLoads DEF Accounted, CdevsOK
  <2>2. own[1] = This
    OBVIOUS
  <2>3. QED BY <1>1, <1>2, <2>1, <2>2 DEF CdevsOK, Mapped
<1>4. Lost' \subseteq Lost
  <2>1. This \in Stale' /\ Stale \subseteq Stale'
    <3>1. own[1] = This /\ own \in cdevs'
      BY <1>1
    <3>2. QED BY <1>1, <3>1 DEF Stale
  <2>2. QED BY <1>2, <2>1 DEF Lost
<1>5. LostOK'
  <2>1. IsFiniteSet(Lost') /\ Cardinality(Lost') <= Cardinality(Lost)
    BY <1>4, FS_Subset DEF Accounted, LostOK
  <2>2. Cardinality(Lost') \in Nat /\ Cardinality(Lost) \in Nat
        /\ Cardinality(LoadsEnded("add")) \in Nat
    BY <2>1, LoadsFinite, FS_CardinalityType DEF Accounted, LostOK, IInv
  <2>3. QED BY <1>2, <1>4, <2>1, <2>2 DEF Accounted, LostOK
<1>6. RegionsOK'
  BY RegionsFailure DEF Accounted, Ends
<1>7. QED BY <1>3, <1>5, <1>6 DEF Accounted

\* A failing cdev_add takes its load's cdevs away, and at most one of an earlier load.
LEMMA AddFails ==
  ASSUME IInv, Accounted, state = "class", ClassDel(cdev_del(index + 1), "add")
  PROVE  Accounted'
<1> DEFINE there == Newest(<<device_number, index>>)
<1>1. state' = "out" /\ cdevs' = cdev_del(index + 1) /\ ended' = Append(ended, "add")
  BY DEF ClassDel, Gone
<1>2. cdevs' = (cdevs \ Mapped) \ there /\ \A c, e \in there : c = e
  BY <1>1, DelOneMore DEF Accounted
<1>3. /\ LoadsEnded("add")' = LoadsEnded("add") \cup {This}
      /\ LoadsEnded("create")' = LoadsEnded("create")
      /\ Cardinality(LoadsEnded("add")') = Cardinality(LoadsEnded("add")) + 1
  BY <1>1, OneMore, OneMoreCounts DEF IInv, Ends
<1>4. CdevsOK'
  BY <1>1, <1>2, <1>3 DEF Accounted, CdevsOK, Mapped
<1>5. This \in Nat /\ \A l \in LoadsEnded("create") : l \in Nat /\ l < This
  BY LoadsFinite DEF IInv
\* The loads that have lost their last cdev here: none but the one found under the number.
<1>6. \E l : Lost' \subseteq Lost \cup {l}
  <2>1. ASSUME NEW l \in Lost', l \notin Lost
        PROVE  \E c \in there : c[1] = l
    <3>1. l \in LoadsEnded("create") /\ l < This
      BY <2>1, <1>3, <1>5 DEF Lost
    <3>2. PICK c \in cdevs : c[1] = l
      BY <2>1, <3>1 DEF Lost, Stale
    <3>3. c \notin Mapped
      BY <3>1, <3>2, <1>5, CdevLoads DEF Accounted
    <3>4. c \notin cdevs'
      BY <2>1, <3>2 DEF Lost, Stale
    <3>5. c \in there
      BY <3>3, <3>4, <1>2
    <3>6. QED BY <3>2, <3>5
  <2>2. CASE there = {}
    BY <2>1, <2>2
  <2>3. CASE there # {}
    <3>1. PICK c \in there : TRUE
      BY <2>3
    <3>2. \A e \in there : e = c
      BY <1>2
    <3>3. Lost' \subseteq Lost \cup {c[1]}
      BY <2>1, <3>2
    <3>4. QED BY <3>3
  <2>4. QED BY <2>2, <2>3
<1>7. LostOK'
  <2>1. PICK l : Lost' \subseteq Lost \cup {l}
    BY <1>6
  <2>2. IsFiniteSet(Lost) /\ Cardinality(Lost) \in Nat /\ Cardinality(LoadsEnded("add")) \in Nat
    BY LoadsFinite, FS_CardinalityType DEF Accounted, LostOK, IInv
  <2>3. IsFiniteSet(Lost \cup {l}) /\ Cardinality(Lost \cup {l}) <= Cardinality(Lost) + 1
    <3>1. CASE l \in Lost
      <4>1. Lost \cup {l} = Lost
        BY <3>1
      <4>2. QED BY <2>2, <4>1
    <3>2. CASE l \notin Lost
      <4>1. IsFiniteSet(Lost \cup {l}) /\ Cardinality(Lost \cup {l}) = Cardinality(Lost) + 1
        BY <2>2, <3>2, FS_AddElement
      <4>2. QED BY <2>2, <4>1
    <3>3. QED BY <3>1, <3>2
  <2>4. IsFiniteSet(Lost') /\ Cardinality(Lost') <= Cardinality(Lost \cup {l})
    BY <2>1, <2>3, FS_Subset
  <2>5. Cardinality(Lost') \in Nat /\ Cardinality(Lost \cup {l}) \in Nat
    BY <2>3, <2>4, FS_CardinalityType
  <2>6. Cardinality(Lost') <= Cardinality(LoadsEnded("add")')
    BY <1>3, <2>2, <2>3, <2>4, <2>5 DEF Accounted, LostOK
  <2>7. \A k \in Lost' : \E a \in LoadsEnded("add")' : k < a
    BY <1>3, <1>5 DEF Lost
  <2>8. QED BY <2>4, <2>6, <2>7 DEF LostOK
<1>8. RegionsOK'
  BY RegionsFailure DEF Accounted, Ends
<1>9. QED BY <1>4, <1>7, <1>8 DEF Accounted

\* Steps between loads that end leave the books of the loads alone.
LEMMA BooksStay ==
  ASSUME UNCHANGED ended
  PROVE  This' = This /\ \A cause : LoadsEnded(cause)' = LoadsEnded(cause)
BY DEF This, LoadsEnded

\* A pass of the loop maps one more cdev.
LEMMA AddSucceeds ==
  ASSUME IInv, Accounted, state = "class",
         cdevs' = cdevs \cup {<<This, <<device_number, index>>>>}, index' = index + 1,
         UNCHANGED <<state, device_number, regions, class_pcd, ended>>
  PROVE  Accounted'
<1> DEFINE own == <<This, <<device_number, index>>>>
<1>1. This' = This /\ \A cause : LoadsEnded(cause)' = LoadsEnded(cause)
  BY BooksStay
<1>2. Mapped' = Mapped \cup {own}
  <2>1. index \in Nat
    BY PcdAssumption DEF IInv, TypeOK
  <2>2. 0..(index' - 1) = (0..(index - 1)) \cup {index}
    BY <2>1
  <2>3. QED BY <1>1, <2>2 DEF Mapped
<1>3. CdevsOK'
  <2>1. \A c \in cdevs' : c \in cdevs \/ c = own
    OBVIOUS
  <2>2. \A c \in cdevs' : c \in Mapped' \/ c[1] \in LoadsEnded("create")'
    BY <1>1, <1>2, <2>1 DEF Accounted, CdevsOK
  <2>3. QED BY <1>2, <2>2 DEF Accounted, CdevsOK
<1>4. Lost' = Lost
  <2>1. Stale' = Stale \cup {This}
    <3>1. \A c \in cdevs' : c \in cdevs \/ c = own
      OBVIOUS
    <3>2. own \in cdevs' /\ own[1] = This
      OBVIOUS
    <3>3. QED BY <3>1, <3>2 DEF Stale
  <2>2. This \notin LoadsEnded("create")
    BY LoadsFinite DEF IInv
  <2>3. QED BY <1>1, <2>1, <2>2 DEF Lost
<1>5. LostOK' /\ RegionsOK'
  BY <1>1, <1>4 DEF Accounted, LostOK, RegionsOK
<1>6. QED BY <1>3, <1>5 DEF Accounted

LEMMA AccountedLoad ==
  ASSUME IInv, Accounted, Load
  PROVE  Accounted'
<1>1. CASE AllocRegion
  <2>1. PICK m \in Majors \ regions : regions' = regions \cup {m} /\ device_number' = m
    BY <1>1 DEF AllocRegion
  <2>2. /\ state = "out" /\ state' = "region" /\ UNCHANGED <<class_pcd, cdevs, ended>>
    BY <1>1 DEF AllocRegion, books
  <2>3. \A cause : LoadsEnded(cause)' = LoadsEnded(cause)
    BY <2>2, BooksStay
  <2>4. IsFiniteSet(regions') /\ Cardinality(regions') = Cardinality(regions) + 1
    BY <2>1, FS_AddElement DEF Accounted, RegionsOK
  <2>5. Cardinality(LoadsEnded("exit")) \in Nat
    BY LoadsFinite DEF IInv
  <2>6. RegionsOK'
    BY <2>1, <2>2, <2>3, <2>4, <2>5 DEF Accounted, RegionsOK
  <2>7. CdevsOK' /\ LostOK'
    BY <2>2, <2>3 DEF Accounted, CdevsOK, LostOK, Mapped, Lost, Stale
  <2>8. QED BY <2>6, <2>7 DEF Accounted
<1>2. CASE CreateClass
  <2>1. CASE ClassDel(cdevs, "class")
    BY <1>2, <2>1, ClassFails DEF CreateClass
  <2>2. CASE state' = "class" /\ index' = 0 /\ UNCHANGED <<device_number, regions, cdevs, books>>
    <3>1. state = "region" /\ \A cause : LoadsEnded(cause)' = LoadsEnded(cause)
      BY <1>2, <2>2, BooksStay DEF CreateClass, books
    <3>2. Mapped' = {} /\ Mapped = {}
      BY <2>2, <3>1 DEF Mapped
    <3>3. CdevsOK' /\ LostOK'
      BY <2>2, <3>1, <3>2 DEF Accounted, CdevsOK, LostOK, Lost, Stale
    <3>4. RegionsOK'
      BY <2>2, <3>1 DEF Accounted, RegionsOK
    <3>5. QED BY <3>3, <3>4 DEF Accounted
  <2>3. QED BY <1>2, <2>1, <2>2 DEF CreateClass
<1>3. CASE AddDevice
  <2>1. state = "class"
    BY <1>3 DEF AddDevice
  <2>2. QED BY <1>3, <2>1, AddFails, CreateFails, AddSucceeds DEF AddDevice, books
<1>4. CASE InitReturns
  <2>1. /\ state = "class" /\ state' = "live" /\ index = MAX_DEVICES
        /\ UNCHANGED <<index, device_number, regions, class_pcd, cdevs, ended>>
    BY <1>4 DEF InitReturns, kernel, books
  <2>2. This' = This /\ \A cause : LoadsEnded(cause)' = LoadsEnded(cause)
    BY <2>1, BooksStay
  <2>3. Mapped' = Mapped
    BY <2>1, <2>2 DEF Mapped
  <2>4. QED BY <2>1, <2>2, <2>3
         DEF Accounted, CdevsOK, LostOK, RegionsOK, Lost, Stale
<1>5. QED BY <1>1, <1>2, <1>3, <1>4 DEF Load

\* The exit takes its cdevs out and leaves its major number.
LEMMA AccountedExit ==
  ASSUME IInv, Accounted, pcd_exit
  PROVE  Accounted'
<1>1. /\ state = "live" /\ state' = "out" /\ ~class_pcd' /\ cdevs' = cdev_del(MAX_DEVICES)
      /\ ended' = Append(ended, "exit") /\ UNCHANGED regions
  BY DEF pcd_exit, Unload
<1>2. cdevs' = cdevs \ Mapped
  BY <1>1, DelOwn DEF Accounted, CdevsOK
<1>3. /\ LoadsEnded("create")' = LoadsEnded("create")
      /\ LoadsEnded("add")' = LoadsEnded("add")
      /\ Cardinality(LoadsEnded("exit")') = Cardinality(LoadsEnded("exit")) + 1
  BY <1>1, OneMore, OneMoreCounts DEF IInv, Ends
<1>4. CdevsOK'
  BY <1>1, <1>2, <1>3 DEF Accounted, CdevsOK, Mapped
<1>5. Lost' = Lost
  <2>1. ASSUME NEW c \in cdevs, c[1] \in LoadsEnded("create")
        PROVE  c \in cdevs'
    <3>1. c[1] # This
      BY <2>1, LoadsFinite DEF IInv
    <3>2. QED BY <3>1, <1>2, CdevLoads DEF Accounted
  <2>2. QED BY <1>2, <1>3, <2>1 DEF Lost, Stale
<1>6. LostOK'
  BY <1>3, <1>5 DEF Accounted, LostOK
<1>7. RegionsOK'
  <2>1. Cardinality(LoadsEnded("exit")) \in Nat
    BY LoadsFinite DEF IInv
  <2>2. QED BY <1>1, <1>3, <2>1 DEF Accounted, RegionsOK
<1>8. QED BY <1>4, <1>6, <1>7 DEF Accounted

\* After any number of loads, failed or not: no node and no class is left, cdevs only of
\* loads in which device_create failed (pcd_mul_devs.c:311), of all of these but at most
\* one for each later load in which cdev_add failed (lines 300-320), and one major number
\* of each load that went well (line 347).
THEOREM LeavesBehind == Spec => []LeftBehind
<1>1. Init => Accounted
  <2> SUFFICES ASSUME Init PROVE Accounted
    OBVIOUS
  <2>1. \A cause : LoadsEnded(cause) = {}
    BY DEF Init, LoadsEnded
  <2>2. IsFiniteSet(regions) /\ Cardinality(regions) = 0
    BY FS_EmptySet DEF Init
  <2>3. IsFiniteSet({}) /\ Cardinality({}) = 0
    BY FS_EmptySet
  <2>4. Lost = {}
    BY <2>1 DEF Lost
  <2>5. RegionsOK
    <3>1. Cardinality(LoadsEnded("exit")) = 0
      BY <2>1, <2>3
    <3>2. state = "out" /\ ~class_pcd
      BY DEF Init
    <3>3. QED BY <2>2, <3>1, <3>2 DEF RegionsOK
  <2>6. LostOK
    BY <2>1, <2>3, <2>4 DEF LostOK
  <2>7. CdevsOK
    BY DEF Init, CdevsOK, Mapped
  <2>8. QED BY <2>5, <2>6, <2>7 DEF Accounted
<1>2. IInv /\ Accounted /\ [Next]_vars => Accounted'
  <2> SUFFICES ASSUME IInv, Accounted, [Next]_vars PROVE Accounted'
    OBVIOUS
  <2>1. CASE Load \/ pcd_exit
    BY <2>1, AccountedLoad, AccountedExit
  <2>2. CASE UNCHANGED <<state, kernel, books>>
    <3>1. /\ UNCHANGED <<state, index, device_number, regions, class_pcd, cdevs, ended>>
      BY <2>2 DEF kernel, books
    <3>2. This' = This /\ \A cause : LoadsEnded(cause)' = LoadsEnded(cause)
      BY <3>1, BooksStay
    <3>3. Mapped' = Mapped /\ Lost' = Lost
      BY <3>1, <3>2 DEF Mapped, Lost, Stale
    <3>4. QED BY <3>1, <3>2, <3>3 DEF Accounted, CdevsOK, LostOK, RegionsOK
  <2>3. ASSUME NEW f \in Files, NEW d \in Devs, NEW mode \in Modes,
               pcd_open(f, d, mode)
        PROVE  UNCHANGED <<state, kernel, books>>
    BY <2>3 DEF pcd_open
  <2>4. ASSUME NEW f \in Files, pcd_release(f)
        PROVE  UNCHANGED <<state, kernel, books>>
    BY <2>4 DEF pcd_release
  <2>5. ASSUME NEW t \in Tasks, NEW f \in Files, Operation(t, f)
        PROVE  UNCHANGED <<state, kernel, books>>
    BY <2>5 DEF Operation, pcd_read, pcd_write, pcd_lseek, Transfer, Seek, Enter
  <2>6. ASSUME NEW t \in Tasks, Return(t)
        PROVE  UNCHANGED <<state, kernel, books>>
    BY <2>6 DEF Return
  <2>7. CASE UNCHANGED vars
    BY <2>2, <2>7 DEF vars
  <2>8. QED BY <2>1, <2>2, <2>3, <2>4, <2>5, <2>6, <2>7 DEF Next
<1>3. IInv /\ Accounted => LeftBehind
  <2> SUFFICES ASSUME IInv, Accounted, state = "out" PROVE LeftBehind
    BY DEF LeftBehind
  <2>1. Stale \subseteq LoadsEnded("create")
    BY DEF Accounted, CdevsOK, Mapped, Stale
  <2>2. nodes = {} /\ ~class_pcd
    BY DEF Accounted, RegionsOK, IInv, NodesOwn
  <2>3. Cardinality(LoadsEnded("exit")) \in Nat
    BY LoadsFinite DEF IInv
  <2>4. Cardinality(regions) = Cardinality(LoadsEnded("exit"))
    BY <2>3 DEF Accounted, RegionsOK
  <2>5. QED BY <2>1, <2>2, <2>4 DEF LeftBehind, Accounted, LostOK
<1>4. QED BY <1>1, <1>2, <1>3, Invariance, PTL DEF Spec
=============================================================================
