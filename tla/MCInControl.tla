---------------------------- MODULE MCInControl ----------------------------
(* A LANCE, a SLIP line and the loopback interface; a table that starts    *)
(* with one entry, so that it is doubled twice.                            *)
EXTENDS InControl, TLC

CONSTANTS le, sl
MCNameOf == [i \in Ifs |-> IF i = le THEN "le0" ELSE IF i = sl THEN "sl0" ELSE "lo0"]
\* 10.1.2.3, 127.0.0.1, 1.0.0.127, 192.168.1.255, 224.0.0.1, 10.0.0.224,
\* 10.9.8.200, 10.9.8.150, 0.0.0.0 and 255.255.255.255.
MCQuads == {<<10, 1, 2, 3>>, <<127, 0, 0, 1>>, <<1, 0, 0, 127>>,
  <<192, 168, 1, 255>>, <<224, 0, 0, 1>>, <<10, 0, 0, 224>>, <<10, 9, 8, 200>>,
  <<10, 9, 8, 150>>, <<0, 0, 0, 0>>, <<255, 255, 255, 255>>}
\* Nothing fits, the first entry fits by a byte or not, two do or do not,
\* everything does; and a buffer whose length is negative.
MCSpaces == {-1, 0, 32, 33, 36, 48, 68, 69, 79, 81, 1024}
MCSymmetry == Permutations(Inets)
=============================================================================
