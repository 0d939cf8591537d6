------------------------------ MODULE InputLine -----------------------------
(***************************************************************************)
(* check_format_input_string of Project/Routing_Table/common.c: how a line *)
(* typed at the server's console, or the same 128 bytes received by a      *)
(* client, becomes a request.  A line is the sequence of its blank-        *)
(* separated tokens; a token is a word and whether the newline is stuck to *)
(* it (strtok splits at " " only, so the newline stays with the last       *)
(* token).  A word is known by what the checks look at: Attr[w].letter its *)
(* first character, fields the number of '.'-separated parts of its first  *)
(* 16 characters, len its length, atoi its value as a number, mac whether  *)
(* it has the form XX:XX:XX:XX:XX:XX; and by what the fields of            *)
(* data_info_t make of it: head its first 16 characters, rest the others.  *)
(*                                                                         *)
(* The fields have 16 bytes and lie next to each other, destination, mask, *)
(* gateway_ip, OIF; they are filled in that order and none is checked      *)
(* before it is copied.  A longer destination or gateway runs into the     *)
(* field behind it, which is written over it.                              *)
(*                                                                         *)
(* Reads of memory the function never wrote find what stack says:          *)
(* copy_buffer when the line stops after the opcode (the token an earlier  *)
(* call left there, or anything), the byte after mask_check (spoils: it is *)
(* a digit that makes the number larger than 32), and the bytes after      *)
(* dest_test and gateway_test (ends: those that are 0).                    *)
(***************************************************************************)
EXTENDS Integers, Sequences

CONSTANTS Words, Attr,
          Blank,   \* the empty word: a zeroed field, or a newline on its own
          Overlay(_, _)  \* the longer word with the shorter written over its start

\* Words of more than 32 characters are left out: they run past the end of msg_t.
ASSUME WordAssumption ==
  /\ {"C", Blank} \subseteq Words /\ Blank # "C" /\ Attr["C"].letter = "C"
  /\ \A w \in Words : Attr[w].len \in 0..32 /\ (Attr[w].len = 0 <=> w = Blank)
  /\ Attr[Blank].fields = 0 /\ ~Attr[Blank].mac

\* The parts of words are words, and so is what two words make together.
ASSUME PartAssumption ==
  /\ \A w \in Words :
       /\ Attr[w].head \in Words /\ Attr[w].rest \in Words
       /\ Attr[Attr[w].head].fields = Attr[w].fields
       /\ IF Attr[w].len <= 16
          THEN Attr[w].head = w /\ Attr[w].rest = Blank
          ELSE /\ Attr[Attr[w].head].len = 16
               /\ Attr[Attr[w].rest].len = Attr[w].len - 16
  /\ \A h, r \in Words :
       Attr[h].len = 16 /\ Attr[r].len <= 16 =>
         \E w \in Words : Attr[w].head = h /\ Attr[w].rest = r
  /\ \A r, o \in Words :
       Attr[o].len < Attr[r].len /\ Attr[r].len <= 16 =>
         Overlay(r, o) \in Words /\ Attr[Overlay(r, o)].len = Attr[r].len

Token == [w : Words, nl : BOOLEAN]
NoToken == [w |-> Blank, nl |-> FALSE]

\* Lines as strtok can split one up: the newline ends the line, and a token
\* without it has a character.
SplitLines == {l \in Seq(Token) : \A i \in 1..Len(l) : /\ l[i].nl => i = Len(l)
                                                       /\ l[i].w = Blank => l[i].nl}

LineKeys == [dest : Words, mask : Token]
LineVias == [gateway : Words, oif : Words]
EmptyKey == [dest |-> Blank, mask |-> NoToken]
EmptyVia == [gateway |-> Blank, oif |-> Blank]

\* The list operations and requests, with the keys and vias lines give.
INSTANCE Replica WITH Keys <- LineKeys, Vias <- LineVias, Macs <- Words,
                      NoKey <- EmptyKey, NoVia <- EmptyVia, NoMac <- Blank

strlen(t) == Attr[t.w].len + (IF t.nl THEN 1 ELSE 0)

\* Only 16 bytes are copied before strlen looks for more than 16: the length that
\* is refused is not the word's but that of whatever follows the copy.
check_desIP_valid(t, stack) ==
  Attr[t.w].fields = 4 /\ (Attr[t.w].len < 16 \/ "dest" \in stack.ends)

\* Mutant: the length is not looked at.
AnyGatewayOfFour(t, stack) == Attr[t.w].fields = 4

check_gateway_valid(t, stack) ==
  Attr[t.w].fields = 4 /\ (Attr[t.w].len < 16 \/ "gateway" \in stack.ends)
check_OIF_valid(oif)       == Attr[oif].len <= 16
check_mask_valid(t, stack) == Attr[t.w].atoi \in 0..32 /\ ~stack.spoils
\* Character 17 must be the newline.
check_format_MAC_address(t) == Attr[t.w].mac /\ t.nl

\* Mutant: the mask is copied first, and a long destination over it.
KeyMaskFirst(args) ==
  [dest |-> Attr[args[1].w].head,
   mask |-> IF Attr[args[1].w].len < 16 THEN args[2]
            ELSE [w |-> Attr[args[1].w].rest, nl |-> FALSE]]

\* The mask is copied over what a long destination left in its place.
KeyOf(args) == [dest |-> Attr[args[1].w].head, mask |-> args[2]]

\* The OIF is copied without a terminator over what a long gateway left there.
OIFOf(left, oif) == IF Attr[left].len <= Attr[oif].len THEN oif ELSE Overlay(left, oif)

ViaOf(args) == [gateway |-> Attr[args[3].w].head,
                oif     |-> OIFOf(Attr[args[3].w].rest, args[4].w)]

\* strtok gives NULL for the second argument: the line is about a MAC address,
\* the one in copy_buffer, whether this call filled it or not.
MacLine(op, args, stack) ==
  LET t == IF args = <<>> THEN stack.copy_buffer ELSE args[1]
  IN  IF check_format_MAC_address(t) THEN MacReq(op, t.w) ELSE Invalid

\* Mutant: the newline is not asked for, so that a fifth argument goes unnoticed.
RouteLineOpenEnd(op, args, stack) ==
  IF /\ Len(args) >= 4
     /\ strlen(args[2]) <= 2
     /\ check_desIP_valid(args[1], stack) /\ check_mask_valid(args[2], stack)
     /\ check_gateway_valid(args[3], stack)
     /\ check_OIF_valid(ViaOf(args).oif)
  THEN RouteReq(op, [key |-> KeyOf(args), via |-> ViaOf(args)])
  ELSE Invalid

\* case 'C' and case 'U'.
RouteLine(op, args, stack) ==
  IF /\ Len(args) >= 4
     /\ strlen(args[2]) <= 2
     /\ args[4].nl
     /\ check_desIP_valid(args[1], stack)
     /\ check_mask_valid(args[2], stack)
     /\ check_gateway_valid(args[3], stack)
     /\ check_OIF_valid(ViaOf(args).oif)
  THEN RouteReq(op, [key |-> KeyOf(args), via |-> ViaOf(args)])
  ELSE Invalid

\* case 'D': the mask is the last token, so the newline counts in its length
\* and is copied into the key.
DeleteLine(args, stack) ==
  IF /\ Len(args) = 2
     /\ strlen(args[2]) <= 2
     /\ check_desIP_valid(args[1], stack)
     /\ check_mask_valid(args[2], stack)
  THEN RouteReq("DELETE", [key |-> KeyOf(args), via |-> EmptyVia])
  ELSE Invalid

\* Arguments of S, F and Q are complained of and ignored.  Only the first
\* character of the opcode token counts.
check_format_input_string(line, stack) ==
  IF line = <<>> THEN EmptyCreate
  ELSE LET letter == Attr[line[1].w].letter
           args   == Tail(line)
       IN  CASE letter \in {"C", "U"} ->
                  LET op == IF letter = "C" THEN "CREATE" ELSE "UPDATE"
                  IN  IF Len(args) <= 1 THEN MacLine(op, args, stack)
                                        ELSE RouteLine(op, args, stack)
             [] letter = "D" ->
                  IF Len(args) <= 1 THEN MacLine("DELETE", args, stack)
                                    ELSE DeleteLine(args, stack)
             [] letter = "S" -> Plain("SHOW")
             [] letter = "F" -> Plain("FLUSH")
             [] letter = "Q" -> Plain("QUIT")
             [] OTHER        -> Invalid

\* Mutant: whether the newline was there is lost.
CopiedWord(line, before) == IF Len(line) >= 2 THEN [w |-> line[2].w] ELSE before

\* The argument a call leaves in copy_buffer.
Copied(line, before) ==
  IF Len(line) >= 2 /\ Attr[line[1].w].letter \in {"C", "U", "D"}
  THEN line[2] ELSE before

\* What %s prints of a field of 16 bytes: one without a terminator goes on into
\* what is behind it.
Printed(w, behind) ==
  IF Attr[w].len < 16 THEN w
  ELSE CHOOSE v \in Words : Attr[v].head = w /\ Attr[v].rest = behind

\* Mutant: the format lacks the newline.
RouteTextNoEol(e, behind) ==
  LET token(w) == [w |-> w, nl |-> FALSE]
  IN  <<token("C"), token(e.key.dest), e.key.mask, token(e.via.gateway), token(e.via.oif)>>

\* A field of no characters leaves only blanks in the line.
Field(w) == IF w = Blank THEN <<>> ELSE <<[w |-> w, nl |-> FALSE]>>

\* The line sprintf builds for an entry: "C dest mask gateway oif\n"; behind is
\* what follows the entry in memory.  After an empty oif the newline is a token of
\* its own.  (Of a full gateway before a full OIF only the first 32 characters are
\* kept: such a line is refused for its OIF if there are more.)
RouteText(e, behind) ==
  Field("C") \o Field(Printed(e.key.dest, e.key.mask.w)) \o Field(e.key.mask.w)
  \o Field(Printed(e.via.gateway, e.via.oif))
  \o <<[w |-> Printed(e.via.oif, behind), nl |-> TRUE]>>

MacText(m) == <<[w |-> "C", nl |-> FALSE], [w |-> m, nl |-> TRUE]>>
=============================================================================
