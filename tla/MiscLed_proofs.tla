--------------------------- MODULE MiscLed_proofs ----------------------------
(***************************************************************************)
(* Proofs about MiscLed, for any tasks, counts, and number of calls.       *)
(*                                                                         *)
(* TidyUseIsSafe is about steps that would bring the kernel down.  The     *)
(* strengthening says why none of them can be taken as long as tasks keep  *)
(* to the rules: whose turn it is finds a timer nobody has set up yet, the *)
(* one task that is between timer_setup and add_timer finds it still off,  *)
(* and no timer of a module that is gone is pending.                       *)
(***************************************************************************)
EXTENDS MiscLed, TLAPS

\* Memory that kmalloc has not handed out is raw, and stale memory is handed out.
MemoryOK ==
  /\ \A b \in Blocks : b > used => timer[b] = "raw"
  /\ stale \subseteq 1..used

\* Only tasks with the device open are inside of a call, and they hold the module; what
\* g_timer_data points to then is of this load.
LoadOK ==
  /\ \A t \in Tasks : call[t] # Idle => t \in open
  /\ open # {} => loaded
  /\ loaded => g_timer_data \notin stale
  /\ ~loaded => turn = Nobody

\* Tasks that take turns.
TurnsOK ==
  /\ turn # Nobody => g_timer_data # Null /\ timer[g_timer_data] = "raw"
  /\ \A t \in Tasks : call[t] = Adding => g_timer_data # Null /\ timer[g_timer_data] = "off"
  /\ \A t, u \in Tasks : call[t] # Idle /\ call[u] # Idle => t = u
  /\ \A b \in stale : timer[b] # "pending"
  /\ fault = "none"

IInv == TypeOK /\ MemoryOK /\ LoadOK /\ (tidy => TurnsOK)

\* The kinds of calls are told apart by their op.
LEMMA Kinds ==
  /\ Adding # Idle
  /\ \A n \in Counts : Sending(n) # Idle /\ Sending(n) # Adding /\ Sending(n).op = "ioctl"
BY DEF Adding, Idle, Sending

\* A g_timer_data that is not null is a block that has been handed out.
LEMMA HandedOut ==
  ASSUME TypeOK, g_timer_data # Null PROVE g_timer_data \in 1..used /\ g_timer_data \in Blocks
BY MiscAssumption DEF TypeOK, Null, Blocks

LEMMA InitHolds == Init => IInv
<1> SUFFICES ASSUME Init PROVE IInv
  OBVIOUS
<1>1. TypeOK
  <2>1. used \in 0..MaxBlocks /\ g_timer_data \in 0..used
    BY MiscAssumption DEF Init, Null
  <2>2. QED BY <2>1 DEF Init, TypeOK, Timers, Faults
<1>2. MemoryOK /\ LoadOK /\ TurnsOK
  BY Kinds DEF Init, MemoryOK, LoadOK, TurnsOK, Null
<1>3. QED BY <1>1, <1>2 DEF IInv
-----------------------------------------------------------------------------
\* Loading and unloading.
LEMMA LoadStep == ASSUME IInv, misc_init \/ misc_exit PROVE IInv'
<1> USE DEF IInv
<1>1. CASE misc_init
  <2>1. TypeOK'
    BY <1>1 DEF misc_init, TypeOK, gpio, books, Null
  <2>2. MemoryOK' /\ LoadOK'
    BY <1>1 DEF misc_init, TypeOK, MemoryOK, LoadOK, Null
  <2>3. ASSUME tidy' PROVE TurnsOK'
    BY <1>1, <2>3, Kinds DEF misc_init, LoadOK, TurnsOK, books
  <2>4. QED BY <2>1, <2>2, <2>3
<1>2. CASE misc_exit
  <2>1. TypeOK'
    <3>1. stale' \subseteq Blocks
      BY <1>2, MiscAssumption DEF misc_exit, TypeOK, Blocks
    <3>2. tidy' \in BOOLEAN
      BY <1>2 DEF misc_exit, TypeOK
    <3>3. QED BY <1>2, <3>1, <3>2 DEF misc_exit, TypeOK, gpio, data
  <2>2. MemoryOK' /\ LoadOK'
    BY <1>2 DEF misc_exit, TypeOK, MemoryOK, LoadOK, data
  <2>3. ASSUME tidy' PROVE TurnsOK'
    <3>1. \A t \in Tasks : call[t] = Idle
      BY <1>2 DEF misc_exit, LoadOK
    <3>2. \A b \in stale' : b \in Blocks /\ timer[b] # "pending"
      <4>1. \A b \in Blocks : timer[b] # "pending"
        BY <1>2, <2>3 DEF misc_exit
      <4>2. QED BY <2>1, <4>1 DEF TypeOK
    <3>3. QED BY <1>2, <2>3, <3>1, <3>2, Kinds DEF misc_exit, TypeOK, TurnsOK, data
  <2>4. QED BY <2>1, <2>2, <2>3
<1>3. QED BY <1>1, <1>2
\* Opening and closing, and switching off, touch no timer.
LEMMA FileStep ==
  ASSUME IInv, NEW t \in Tasks, misc_open(t) \/ misc_release(t) \/ SwitchOff(t)
  PROVE  IInv'
<1> USE DEF IInv
<1>1. /\ UNCHANGED <<loaded, data, stale, call, fault, books>>
      /\ led' \in BOOLEAN /\ requested' \in BOOLEAN
  BY DEF misc_open, misc_release, SwitchOff, gpio, TypeOK
<1>2. /\ open' \subseteq Tasks
      /\ \A u \in Tasks : call[u] # Idle => u \in open'
      /\ open' # {} => loaded
  BY DEF misc_open, misc_release, SwitchOff, TypeOK, LoadOK
<1>3. TypeOK'
  BY <1>1, <1>2 DEF TypeOK, data, books
<1>4. MemoryOK' /\ LoadOK'
  BY <1>1, <1>2 DEF MemoryOK, LoadOK, data, books
<1>5. ASSUME tidy' PROVE TurnsOK'
  BY <1>1, <1>5 DEF TurnsOK, data, books
<1>6. QED BY <1>3, <1>4, <1>5

\* An ioctl hands out a timer that has not been set up, and no call is under way beside
\* it if it is tidy.
LEMMA IoctlStep ==
  ASSUME IInv, NEW t \in Tasks,
         misc_ioctl_other(t) \/ \E n \in Counts : misc_ioctl_send(t, n)
  PROVE  IInv'
<1> USE DEF IInv
<1>1. /\ Allocate(t)
      /\ \/ UNCHANGED call /\ turn' = Nobody
         \/ \E n \in Counts : call' = [call EXCEPT ![t] = Sending(n)] /\ turn' = t
  BY DEF misc_ioctl_other, misc_ioctl_send
<1>2. /\ used' = used + 1 /\ used' \in Blocks /\ g_timer_data' = used'
      /\ used' > used /\ g_timer_data' # Null
      /\ timer[used'] = "raw" /\ used' \notin stale
  BY <1>1, MiscAssumption DEF Allocate, TypeOK, MemoryOK, Blocks, Null
<1>3. /\ UNCHANGED <<loaded, times, timer, stale, gpio, open, fault>>
      /\ t \in open /\ call[t] = Idle
      /\ tidy' = (tidy /\ Alone(t))
  BY <1>1 DEF Allocate, Calls
<1>4. TypeOK'
  <2>1. used' \in 0..MaxBlocks /\ g_timer_data' \in 0..used'
    BY <1>2, MiscAssumption DEF TypeOK, Blocks
  <2>2. call' \in [Tasks -> {Idle, Adding} \cup {Sending(m) : m \in Counts}]
    BY <1>1 DEF TypeOK
  <2>3. turn' \in Tasks \cup {Nobody} /\ tidy' \in BOOLEAN
    BY <1>1, <1>3 DEF TypeOK
  <2>4. QED BY <1>3, <2>1, <2>2, <2>3 DEF TypeOK, gpio
<1>5. MemoryOK'
  BY <1>2, <1>3 DEF MemoryOK, TypeOK, Blocks
<1>6. LoadOK'
  BY <1>1, <1>2, <1>3 DEF LoadOK, TypeOK
<1>7. ASSUME tidy' PROVE TurnsOK'
  <2>1. tidy /\ TurnsOK /\ \A u \in Tasks : call[u] = Idle
    BY <1>3, <1>7 DEF Alone
  <2>2. \A u \in Tasks : call'[u] # Idle => u = t /\ call'[u] # Adding
    BY <1>1, <2>1, Kinds DEF TypeOK
  <2>3. turn' # Nobody => timer'[g_timer_data'] = "raw"
    BY <1>2, <1>3
  <2>4. QED BY <1>2, <1>3, <2>1, <2>2, <2>3, Kinds DEF TurnsOK
<1>8. QED BY <1>4, <1>5, <1>6, <1>7

\* The copy of a count touches no timer.
LEMMA CopyStep == ASSUME IInv, NEW t \in Tasks, CopyCount(t) PROVE IInv'
<1> USE DEF IInv
<1>1. /\ UNCHANGED <<loaded, used, g_timer_data, timer, stale, gpio, open, fault, books>>
      /\ call' = [call EXCEPT ![t] = Idle]
  BY DEF CopyCount
<1>2. times' \in [Blocks -> Counts]
  <2>1. PICK n \in Counts : call[t] = Sending(n)
    BY DEF CopyCount, TypeOK, Idle, Adding
  <2>2. call[t].times \in Counts
    BY <2>1 DEF Sending
  <2>3. QED BY <2>2 DEF CopyCount, TypeOK
<1>3. TypeOK'
  BY <1>1, <1>2 DEF TypeOK, gpio, books
<1>4. \A u \in Tasks : call'[u] # Idle => call'[u] = call[u]
  BY <1>1 DEF TypeOK
<1>5. MemoryOK' /\ LoadOK'
  BY <1>1, <1>4 DEF MemoryOK, LoadOK, books
<1>6. ASSUME tidy' PROVE TurnsOK'
  <2>1. tidy /\ TurnsOK
    BY <1>1, <1>6 DEF books
  <2>2. QED BY <1>1, <1>4, <2>1, Kinds DEF TurnsOK, books
<1>7. QED BY <1>3, <1>5, <1>6

\* timer_setup in a task's turn finds memory as kmalloc has left it.
LEMMA SetupStep == ASSUME IInv, NEW t \in Tasks, SetupTimer(t) PROVE IInv'
<1> USE DEF IInv
<1>1. /\ turn' = Nobody /\ tidy' = (tidy /\ turn = t /\ Alone(t))
      /\ t \in open /\ call[t] = Idle
  BY DEF SetupTimer, Calls
<1>2. CASE Fault("null") \/ Fault("list")
  <2>1. TypeOK' /\ MemoryOK' /\ LoadOK'
    BY <1>1, <1>2 DEF Fault, TypeOK, MemoryOK, LoadOK, data, gpio, Faults
  <2>2. ASSUME tidy' PROVE FALSE
    <3>1. tidy /\ turn = t /\ TurnsOK
      BY <1>1, <2>2
    <3>2. g_timer_data # Null /\ timer[g_timer_data] = "raw" /\ fault = "none"
      BY <3>1, MiscAssumption DEF TurnsOK
    <3>3. QED BY <1>2, <3>2 DEF SetupTimer, Fault
  <2>3. QED BY <2>1, <2>2
<1>3. CASE /\ g_timer_data # Null /\ timer[g_timer_data] # "pending"
           /\ timer' = [timer EXCEPT ![g_timer_data] = "off"]
           /\ call' = [call EXCEPT ![t] = Adding]
           /\ UNCHANGED <<loaded, used, g_timer_data, times, stale, gpio, open, fault>>
  <2>1. g_timer_data \in 1..used /\ g_timer_data \in Blocks
    BY <1>3, HandedOut
  <2>2. TypeOK'
    BY <1>1, <1>3 DEF TypeOK, gpio, Timers
  <2>3. MemoryOK' /\ LoadOK'
    <3>1. \A b \in Blocks : b > used => b # g_timer_data
      BY <2>1 DEF TypeOK, Blocks
    <3>2. QED BY <1>1, <1>3, <3>1 DEF TypeOK, MemoryOK, LoadOK
  <2>4. ASSUME tidy' PROVE TurnsOK'
    <3>1. tidy /\ TurnsOK /\ \A u \in Tasks : call[u] = Idle
      BY <1>1, <2>4 DEF Alone
    <3>2. timer'[g_timer_data] = "off"
      BY <1>3, <2>1 DEF TypeOK
    <3>3. \A u \in Tasks : call'[u] # Idle => u = t
      BY <1>3, <3>1 DEF TypeOK
    <3>4. \A b \in stale : timer'[b] # "pending"
      BY <1>3, <3>1 DEF TypeOK, TurnsOK, MemoryOK
    <3>5. QED BY <1>1, <1>3, <3>1, <3>2, <3>3, <3>4 DEF TurnsOK
  <2>5. QED BY <2>2, <2>3, <2>4
<1>4. QED BY <1>2, <1>3 DEF SetupTimer

\* add_timer finds the timer that the same task has set up.
LEMMA AddStep == ASSUME IInv, NEW t \in Tasks, AddTimer(t) PROVE IInv'
<1> USE DEF IInv
<1>1. /\ turn' = turn /\ tidy' = tidy
      /\ call[t] = Adding /\ t \in open /\ loaded
  BY Kinds DEF AddTimer, books, LoadOK
<1>2. CASE Fault("raw") \/ Fault("list")
  <2>1. TypeOK' /\ MemoryOK' /\ LoadOK'
    BY <1>1, <1>2 DEF Fault, TypeOK, MemoryOK, LoadOK, data, gpio, Faults
  <2>2. ~tidy'
    BY <1>1, <1>2 DEF AddTimer, TurnsOK, Fault, TypeOK
  <2>3. QED BY <2>1, <2>2
<1>3. CASE /\ timer[g_timer_data] = "off"
           /\ timer' = [timer EXCEPT ![g_timer_data] = "pending"]
           /\ call' = [call EXCEPT ![t] = Idle]
           /\ UNCHANGED <<loaded, used, g_timer_data, times, stale, gpio, open, fault>>
  <2>1. TypeOK'
    BY <1>1, <1>3 DEF TypeOK, gpio, Timers
  <2>2. \A u \in Tasks : call'[u] # Idle => call'[u] = call[u] /\ u # t
    BY <1>3 DEF TypeOK
  <2>3. MemoryOK' /\ LoadOK'
    <3>1. \A b \in Blocks : b > used => b # g_timer_data
      BY DEF TypeOK, Blocks
    <3>2. QED BY <1>1, <1>3, <2>2, <3>1 DEF TypeOK, MemoryOK, LoadOK
  <2>4. ASSUME tidy' PROVE TurnsOK'
    <3>1. tidy /\ TurnsOK
      BY <1>1, <2>4
    <3>2. \A u \in Tasks : call'[u] = Idle
      BY <1>1, <2>2, <3>1, Kinds DEF TurnsOK
    <3>3. turn = Nobody
      BY <1>3, <3>1 DEF TurnsOK
    <3>4. \A b \in stale : timer'[b] # "pending"
      BY <1>1, <1>3, <3>1 DEF TypeOK, TurnsOK, LoadOK
    <3>5. QED BY <1>1, <1>3, <3>1, <3>2, <3>3, <3>4, Kinds DEF TurnsOK
  <2>5. QED BY <2>1, <2>3, <2>4
<1>4. QED BY <1>2, <1>3 DEF AddTimer

\* A callback leaves alone what tasks have not added yet.
LEMMA TimerStep == ASSUME IInv, NEW b \in Blocks, timer_function(b) PROVE IInv'
<1> USE DEF IInv
<1>1. timer[b] = "pending" /\ turn' = turn /\ tidy' = tidy
  BY DEF timer_function, books
<1>2. CASE b \in stale
  <2>1. Fault("text")
    BY <1>2 DEF timer_function
  <2>2. TypeOK' /\ MemoryOK' /\ LoadOK'
    BY <1>1, <2>1 DEF Fault, TypeOK, MemoryOK, LoadOK, data, gpio, Faults
  <2>3. ~tidy'
    BY <1>1, <1>2 DEF TurnsOK
  <2>4. QED BY <2>2, <2>3
<1>3. CASE b \notin stale
  <2>1. /\ led' = Level(b)
        /\ timer' = [timer EXCEPT ![b] = IF Successor(times[b]) < 20 THEN "pending" ELSE "off"]
        /\ UNCHANGED <<loaded, used, g_timer_data, times, stale, requested, open, call, fault>>
    BY <1>3 DEF timer_function
  <2>2. PICK x \in {"pending", "off"} : timer' = [timer EXCEPT ![b] = x]
    BY <2>1
  <2>3. TypeOK'
    BY <1>1, <2>1, <2>2 DEF TypeOK, Timers, Level
  <2>4. \A c \in Blocks : timer[c] # "pending" => timer'[c] = timer[c]
    BY <1>1, <2>2 DEF TypeOK
  <2>5. MemoryOK' /\ LoadOK'
    BY <1>1, <2>1, <2>4 DEF MemoryOK, LoadOK
  <2>6. ASSUME tidy' PROVE TurnsOK'
    <3>1. tidy /\ TurnsOK
      BY <1>1, <2>6
    <3>2. g_timer_data # Null => g_timer_data \in Blocks
      BY HandedOut
    <3>3. \A c \in stale : timer'[c] # "pending"
      BY <2>4, <3>1 DEF TypeOK, TurnsOK
    <3>4. QED BY <1>1, <2>1, <2>4, <3>1, <3>2, <3>3 DEF TurnsOK
  <2>7. QED BY <2>3, <2>5, <2>6
<1>4. QED BY <1>2, <1>3

LEMMA StepKeeps == IInv /\ [Next]_vars => IInv'
<1> SUFFICES ASSUME IInv, [Next]_vars PROVE IInv'
  OBVIOUS
<1>1. CASE UNCHANGED vars
  BY <1>1 DEF IInv, TypeOK, MemoryOK, LoadOK, TurnsOK, vars, data, gpio, books
<1>2. CASE Next
  BY <1>2, LoadStep, FileStep, IoctlStep, CopyStep, SetupStep, AddStep, TimerStep DEF Next
<1>3. QED BY <1>1, <1>2

\* The strengthened invariant of misc_dev.c is inductive.
THEOREM Invariance == Spec => []IInv
BY InitHolds, StepKeeps, PTL DEF Spec

\* Every variable of misc_dev.c keeps its type: g_timer_data is null or a block that was
\* allocated (lines 148, 184).
THEOREM TypeCorrect == Spec => []TypeOK
<1>1. IInv => TypeOK
  BY DEF IInv
<1>2. QED BY <1>1, Invariance, PTL

\* For any number of tasks, calls and counts, tasks that take turns and wait for the
\* timers before they unload the module never bring the kernel down (lines 131-148, 196).
THEOREM TidySafe == Spec => []TidyUseIsSafe
<1>1. IInv => TidyUseIsSafe
  BY DEF IInv, TurnsOK, TidyUseIsSafe
<1>2. QED BY <1>1, Invariance, PTL
=============================================================================
