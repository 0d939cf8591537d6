----------------------------- MODULE MCConsole ------------------------------
(* Console with a vocabulary of sixteen words of at most 16 characters and *)
(* the longer words three of them begin.                                   *)
EXTENDS Console, SequencesExt

Dest == "122.1.1.1"
Gate == "10.1.1.1"
FullIp == "192.168.100.2000"
Oif  == "GigabitEthernet1"
Half == "12:34:56:78:9A:B"
Mac  == Half \o "C"

Short == {"", "C", "U", "D", "S", "F", "Q", "8", "32", "99", "82", "Ethernet1", Dest, Gate}
Long  == {FullIp, Oif, Half}

MCWords == Short \cup {h \o r : h \in Long, r \in Short \cup Long}

Head16(w) == IF Len(w) <= 16 THEN w ELSE SubSeq(w, 1, 16)
Rest16(w) == IF Len(w) <= 16 THEN "" ELSE SubSeq(w, 17, Len(w))

Value == ("8" :> 8) @@ ("32" :> 32) @@ ("99" :> 99) @@ ("82" :> 82) @@
         (Dest :> 122) @@ (Gate :> 10) @@ (FullIp :> 192) @@ (Half :> 12)

MCAttr ==
  [w \in MCWords |->
     LET h == Head16(w)
         r == Rest16(w)
     IN  [letter |-> IF w \in {"C", "U", "D", "S", "F", "Q"} THEN w ELSE "-",
          fields |-> IF h = "" THEN 0 ELSE IF h \in {Dest, Gate, FullIp} THEN 4 ELSE 1,
          len    |-> Len(w),
          atoi   |-> IF h \in DOMAIN Value THEN Value[h] ELSE 0,
          mac    |-> h = Half /\ r \in {"C", "D", "F", "8"},
          head   |-> h,
          rest   |-> r]]

\* "32" with "8" over its start is "82"; of the others only the length counts.
MCOverlay(left, oif) == IF <<left, oif>> = <<"32", "8">> THEN "82" ELSE left

\* Lines of one word from each of the sets ws[1], ws[2], ..., ended by the newline
\* (Entered), or with it and without it.
Token1(w) == [w |-> w, nl |-> FALSE]
Opened(ws) ==
  FoldLeft(LAMBDA acc, W : {Append(p, Token1(w)) : p \in acc, w \in W}, {<<>>}, ws)
Entered(ws) == {[l EXCEPT ![Len(l)].nl = TRUE] : l \in Opened(ws)}
LinesOf(ws) == Opened(ws) \cup Entered(ws)

\* Menu lines with two keys and two vias, and lines that miss a field, have one
\* too many, or have one out of range or out of place.
MenuLines ==
  {<<>>}
  \cup Entered(<<{"C", "S", "F", "Q", ""}>>)
  \cup Entered(<<{"C", "U", "D"}, {Mac}>>) \cup Opened(<<{"C"}, {Mac}>>)
  \cup Opened(<<{"D"}, {Dest}, {"8", "32"}>>) \cup Entered(<<{"D"}, {Dest}, {"8"}>>)
  \cup Entered(<<{"C"}, {Dest}, {"32"}, {Gate}>>)
  \cup LinesOf(<<{"C"}, {Dest}, {"8", "32"}, {Gate}, {"Ethernet1"}>>)
  \cup Entered(<<{"C"}, {Dest}, {"32"}, {Gate}, {""}>>)
  \cup Entered(<<{"C"}, {Dest}, {"99"}, {Gate}, {"Ethernet1"}>>)
  \cup Entered(<<{"U"}, {Dest}, {"32"}, {Dest}, {"Ethernet1"}>>)
  \cup Entered(<<{"U"}, {Dest}, {"32"}, {"8"}, {"Ethernet1"}>>)
  \cup Entered(<<{"C"}, {Dest}, {"Ethernet1"}, {Gate}, {"8"}>>)
  \cup Entered(<<{"C"}, {Dest}, {"8"}, {Gate}, {"8"}, {"Ethernet1"}>>)

\* Lines with addresses and interfaces that fill their fields or are too long for
\* them.
LongLines ==
  Entered(<<{"C"}, {FullIp, FullIp \o "8"}, {"32"}, {Gate}, {"8"}>>)
  \cup Entered(<<{"C"}, {Dest}, {"8"}, {FullIp, FullIp \o "32"}, {"8"}>>)
  \cup Entered(<<{"U"}, {Dest}, {"8"}, {FullIp \o "32"}, {"", "32"}>>)
  \cup Entered(<<{"C"}, {Dest}, {"8"}, {FullIp, Gate}, {Oif}>>)
  \cup Entered(<<{"C"}, {Dest}, {"8"}, {Gate}, {Oif \o "8"}>>)
  \cup Opened(<<{"D"}, {FullIp}, {"32"}>>)

MCLines == MenuLines \cup LongLines
=============================================================================
