------------------------------ MODULE MiscLed -------------------------------
(***************************************************************************)
(* Character/misc_dev.c: a misc device for one LED and a kernel timer that *)
(* is to make it blink.  Tasks that have the device open call write and    *)
(* ioctl, which have no lock: each reads g_timer_data twice, and another   *)
(* task may replace it in between.  Expired timers run in softirq context, *)
(* between any two steps of the tasks.  The driver never frees a           *)
(* timer_config, never stops a timer and never releases the GPIO, so all   *)
(* three survive the module.                                               *)
(***************************************************************************)
EXTENDS Integers

CONSTANTS Tasks, Nobody,
          Counts,            \* values of app_config.times, uninitialised ones included
          INT_MAX,
          MaxBlocks          \* bound on the calls of ioctl

ASSUME MiscAssumption ==
  /\ Nobody \notin Tasks
  /\ Counts \subseteq Int
  /\ INT_MAX \in Nat
  /\ MaxBlocks \in Nat

Blocks == 1..MaxBlocks       \* the timer_configs, in the order of their kmalloc
Null   == 0

VARIABLES
  loaded,          \* the module is in memory
  used,            \* number of timer_configs allocated
  g_timer_data,    \* Null, or the one allocated last since the module was loaded
  times,           \* app_config.times of each
  timer,           \* my_timer of each
  stale,           \* the timer_configs of loads that are over
  requested,       \* GPIO 31 is requested
  led,
  open, call,      \* the tasks that have the device open; what each is inside of
  fault,           \* what has brought the kernel down
  turn, tidy       \* bookkeeping: whose turn it is, and whether all have kept to it

data  == <<used, g_timer_data, times, timer>>
gpio  == <<requested, led>>
books == <<turn, tidy>>
vars  == <<loaded, data, stale, gpio, open, call, fault, books>>

Idle   == [op |-> "-", times |-> 0]
Adding == [op |-> "write", times |-> 0]       \* between timer_setup and add_timer
Sending(n) == [op |-> "ioctl", times |-> n]   \* between kmalloc and copy_from_user
Timers == {"raw", "off", "pending"}           \* raw: memory as kmalloc returned it
Faults == {"none", "null", "raw", "list", "text"}

TypeOK ==
  /\ loaded \in BOOLEAN
  /\ used \in 0..MaxBlocks /\ g_timer_data \in 0..used
  /\ times \in [Blocks -> Counts]
  /\ timer \in [Blocks -> Timers]
  /\ stale \subseteq Blocks
  /\ requested \in BOOLEAN /\ led \in BOOLEAN
  /\ open \subseteq Tasks
  /\ call \in [Tasks -> {Idle, Adding} \cup {Sending(n) : n \in Counts}]
  /\ fault \in Faults
  /\ turn \in Tasks \cup {Nobody} /\ tidy \in BOOLEAN

\* Mutant: g_timer_data is what memory holds.
InitUnset ==
  /\ loaded = FALSE /\ used = 0 /\ g_timer_data \in 0..MaxBlocks
  /\ times \in [Blocks -> Counts] /\ timer = [b \in Blocks |-> "raw"]
  /\ stale = {} /\ requested = FALSE /\ led = FALSE
  /\ open = {} /\ call = [t \in Tasks |-> Idle]
  /\ fault = "none" /\ turn = Nobody /\ tidy = TRUE

Init ==
  /\ loaded = FALSE /\ used = 0 /\ g_timer_data = Null
  /\ times \in [Blocks -> Counts]             \* what kmalloc will find in memory
  /\ timer = [b \in Blocks |-> "raw"]
  /\ stale = {}
  /\ requested = FALSE /\ led = FALSE
  /\ open = {} /\ call = [t \in Tasks |-> Idle]
  /\ fault = "none"
  /\ turn = Nobody /\ tidy = TRUE

Fault(cause) ==
  /\ fault' = cause
  /\ UNCHANGED <<loaded, data, stale, gpio, open, call>>

-----------------------------------------------------------------------------
(* Load and unload.                                                        *)
misc_init ==
  /\ ~loaded
  /\ loaded' = TRUE /\ g_timer_data' = Null
  /\ UNCHANGED <<used, times, timer, stale, gpio, open, call, fault, books>>

\* An open file holds the module (misc_fops.owner); a pending timer does not.
misc_exit ==
  /\ loaded /\ open = {}
  /\ loaded' = FALSE
  /\ stale' = 1..used
  /\ turn' = Nobody
  /\ tidy' = (tidy /\ \A b \in Blocks : timer[b] # "pending")
  /\ UNCHANGED <<data, gpio, open, call, fault>>

-----------------------------------------------------------------------------
(* File operations.  misc_read changes nothing.                            *)

\* The GPIO can be requested once; an open that fails to is a success all the same.
misc_open(t) ==
  /\ loaded /\ t \notin open
  /\ open' = open \cup {t}
  /\ requested' = TRUE
  /\ led' = (requested /\ led)
  /\ UNCHANGED <<loaded, data, stale, call, fault, books>>

misc_release(t) ==
  /\ t \in open /\ call[t] = Idle
  /\ open' = open \ {t}
  /\ UNCHANGED <<loaded, data, stale, gpio, call, fault, books>>

Calls(t) == t \in open /\ call[t] = Idle

Alone(t) == \A u \in Tasks \ {t} : call[u] = Idle

\* Mutant: only the first ioctl allocates.
AllocateOnce(t) ==
  /\ Calls(t) /\ used < MaxBlocks
  /\ used' = IF g_timer_data = Null THEN used + 1 ELSE used
  /\ g_timer_data' = IF g_timer_data = Null THEN used' ELSE g_timer_data
  /\ tidy' = (tidy /\ Alone(t))
  /\ UNCHANGED <<loaded, times, timer, stale, gpio, open, fault>>

\* Every ioctl allocates a new timer_config first, whatever the command.
Allocate(t) ==
  /\ Calls(t) /\ used < MaxBlocks
  /\ used' = used + 1 /\ g_timer_data' = used'
  /\ tidy' = (tidy /\ Alone(t))
  /\ UNCHANGED <<loaded, times, timer, stale, gpio, open, fault>>

\* SEND_DATA_CMD, up to the copy.
misc_ioctl_send(t, n) ==
  /\ Allocate(t)
  /\ call' = [call EXCEPT ![t] = Sending(n)]
  /\ turn' = t

\* GET_DATA_CMD, which returns what kmalloc found, and the invalid commands.
misc_ioctl_other(t) ==
  /\ Allocate(t)
  /\ turn' = Nobody
  /\ UNCHANGED call

\* copy_from_user into what g_timer_data now points to.
CopyCount(t) ==
  /\ call[t].op = "ioctl"
  /\ times' = [times EXCEPT ![g_timer_data] = call[t].times]
  /\ call' = [call EXCEPT ![t] = Idle]
  /\ UNCHANGED <<loaded, used, g_timer_data, timer, stale, gpio, open, fault, books>>

\* "1": timer_setup.  Setting up a timer that is pending cuts it out of a list it is
\* still in.
SetupTimer(t) ==
  /\ Calls(t)
  /\ turn' = Nobody
  /\ tidy' = (tidy /\ turn = t /\ Alone(t))
  /\ \/ g_timer_data = Null /\ Fault("null")
     \/ g_timer_data # Null /\ timer[g_timer_data] = "pending" /\ Fault("list")
     \/ /\ g_timer_data # Null /\ timer[g_timer_data] # "pending"
        /\ timer' = [timer EXCEPT ![g_timer_data] = "off"]
        /\ call' = [call EXCEPT ![t] = Adding]
        /\ UNCHANGED <<loaded, used, g_timer_data, times, stale, gpio, open, fault>>

\* "1": add_timer, of what g_timer_data now points to.
AddTimer(t) ==
  /\ call[t] = Adding
  /\ UNCHANGED books
  /\ \/ timer[g_timer_data] = "raw" /\ Fault("raw")
     \/ timer[g_timer_data] = "pending" /\ Fault("list")
     \/ /\ timer[g_timer_data] = "off"
        /\ timer' = [timer EXCEPT ![g_timer_data] = "pending"]
        /\ call' = [call EXCEPT ![t] = Idle]
        /\ UNCHANGED <<loaded, used, g_timer_data, times, stale, gpio, open, fault>>

\* "0": the LED is switched off; the timers go on.
SwitchOff(t) ==
  /\ Calls(t)
  /\ led' = FALSE
  /\ UNCHANGED <<loaded, data, stale, requested, open, call, fault, books>>

-----------------------------------------------------------------------------
(* The callback.                                                           *)
Level(b) == times[b] % 2 = 0

\* count++ of an int.
Successor(n) == IF n = INT_MAX THEN -INT_MAX - 1 ELSE n + 1

\* The callback of a module that is gone runs whatever is in its place.
timer_function(b) ==
  /\ timer[b] = "pending"
  /\ UNCHANGED books
  /\ IF b \in stale THEN Fault("text")
     ELSE /\ led' = Level(b)
          /\ timer' = [timer EXCEPT ![b] = IF Successor(times[b]) < 20 THEN "pending" ELSE "off"]
          /\ UNCHANGED <<loaded, used, g_timer_data, times, stale, requested, open, call, fault>>

Up == fault = "none"
Next ==
  \/ Up /\ misc_init
  \/ Up /\ misc_exit
  \/ \E t \in Tasks : Up /\ (misc_open(t) \/ misc_release(t))
  \/ \E t \in Tasks, n \in Counts : Up /\ misc_ioctl_send(t, n)
  \/ \E t \in Tasks : Up /\ misc_ioctl_other(t)
  \/ \E t \in Tasks : Up /\ CopyCount(t)
  \/ \E t \in Tasks : Up /\ SetupTimer(t)
  \/ \E t \in Tasks : Up /\ AddTimer(t)
  \/ \E t \in Tasks : Up /\ SwitchOff(t)
  \/ \E b \in Blocks : Up /\ timer_function(b)

Spec == Init /\ [][Next]_vars

\* The kernel runs each pending timer, and a call that has been entered ends.
LiveSpec ==
  /\ Spec
  /\ \A b \in Blocks : WF_vars(Up /\ timer_function(b))
  /\ \A t \in Tasks : WF_vars(Up /\ AddTimer(t)) /\ WF_vars(Up /\ CopyCount(t))
-----------------------------------------------------------------------------
\* What keeps the kernel up, since the driver has neither a lock nor a check
\* (misc_dev.c:131, 132, 148, 196): every "1" is written by the task that has just
\* sent a count, once per count, with nobody else inside of a call and no other ioctl
\* in between; and the module is unloaded only when no timer is pending.  Two app.c
\* at a time do not keep to that, nor does one app.c followed by rmmod.
TidyUseIsSafe == tidy => fault = "none"

\* "If the number of blinks is configured as 10, then the LED will blink 10 times when
\* 1 is written to the device file" (Character/README.md:22-24), of which only this much:
\* where all keep to the rules, a timer with a count of 10 is followed by the LED going on
\* and then off, once.  It does not (misc_dev.c:109): each expiry takes count from the
\* configuration again, so that the level is the same at all of them.
BlinksWhenWritten ==
  []tidy => \A b \in Blocks : timer[b] = "pending" /\ times[b] = 10 ~> led /\ <>~led
=============================================================================
