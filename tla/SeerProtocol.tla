---------------------------- MODULE SeerProtocol ----------------------------
(***************************************************************************)
(* AGVProtocol.unpack on a stream of cells.  A cell stands for the bytes   *)
(* the parser looks at together: START_BYTE, the rest of a header with a   *)
(* good version and body_len (l cells), a body, and anything else.         *)
(***************************************************************************)
EXTENDS Naturals, Sequences, FiniteSetsExt

Start == [kind |-> "start"]
Header(m, l) == [kind |-> "header", msg |-> m, length |-> l]
Body == [kind |-> "body"]
Junk == [kind |-> "junk"]

\* HEADER_SIZE in cells
HeaderSize == 2

\* pack: the header, then the body
Pack(m) == <<Start, Header(m, 1), Body>>

\* What unpack makes of what is left of buf from position i on; parse[j] is
\* what it makes of what is left from a later position j on.
ParseFrom(buf, parse, i) ==
    LET n == Len(buf)
        starts == {j \in i..n : buf[j] = Start}
        Keep(j) == [packets |-> <<>>, rest |-> SubSeq(buf, j, n)]
    IN  IF n + 1 - i < HeaderSize THEN Keep(i)
        ELSE IF starts = {} THEN Keep(n + 1)
        ELSE IF buf[i] # Start THEN parse[Min(starts)]
        ELSE IF buf[i + 1].kind # "header" THEN parse[i + 1]
        ELSE LET next == i + HeaderSize + buf[i + 1].length IN
             IF next > n + 1 THEN Keep(i)
             ELSE [packets |-> <<buf[i + 1].msg>> \o parse[next].packets,
                   rest |-> parse[next].rest]

\* the packets, in order, and the bytes it keeps for the next read
Unpack(buf) ==
    LET parse[i \in 1..(Len(buf) + 1)] == ParseFrom(buf, parse, i)
    IN parse[1]

Packets(buf) == Unpack(buf).packets

\* mutant of Kept: an incomplete packet is thrown away with the junk
KeptNothing(buf) == <<>>

Kept(buf) == Unpack(buf).rest

=============================================================================
