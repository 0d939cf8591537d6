-------------------------------- MODULE Fifo --------------------------------
(* A bounded buffer of numbered items: they come out in the order they were   *)
(* made, each once.                                                           *)
EXTENDS Integers, Sequences

CONSTANT Size

VARIABLES buf,   \* the items in the buffer, oldest first
          made,  \* the number of the latest item made
          taken  \* the number of the latest item taken

vars == <<buf, made, taken>>

Init == buf = <<>> /\ made = 0 /\ taken = 0

Put ==
  /\ Len(buf) < Size
  /\ made' = made + 1
  /\ buf' = Append(buf, made')
  /\ UNCHANGED taken

Get ==
  /\ buf # <<>>
  /\ taken' = Head(buf)
  /\ buf' = Tail(buf)
  /\ UNCHANGED made

Next == Put \/ Get

Spec == Init /\ [][Next]_vars
=============================================================================
