---------------------------- MODULE MCFruImages ----------------------------
(* Factory images of a FRU of 80 bytes, as MCPlatform uses them: a header, a board area and records. *)
EXTENDS Integers, SequencesExt

LOCAL Negated(s) == (256 - (s % 256)) % 256
\* s with the checksum of its bytes from .. from + n - 1 at byte at, which is one of them or not.
LOCAL Fixed(s, from, n, at) ==
  LET z == [s EXCEPT ![at + 1] = 0] IN [s EXCEPT ![at + 1] = Negated(FoldLeft(+, 0, SubSeq(z, from + 1, from + n)))]
LOCAL Record(type, format, data) == <<type, format, Len(data), 0, 0>> \o data
LOCAL Put(s, r) == LET p == Len(s) IN Fixed(Fixed(s \o r, p + 5, Len(r) - 5, p + 3), p, 5, p + 4)
LOCAL Header == Fixed(<<1, 0, 0, 1, 0, 4, 0, 0>>, 0, 8, 7)
LOCAL Board ==
  Fixed(<<1, 3, 0, 1, 2, 3, 194, 65, 66, 131, 41, 220, 166, 66, 18, 171, 0, 0, 193, 0, 0, 0, 0, 0>>, 0, 24, 23)
LOCAL Image(records) ==
  LET s == FoldLeft(Put, Header \o Board, records) IN [i \in 0 .. 79 |-> IF i < Len(s) THEN s[i + 1] ELSE 255]
LOCAL Address(k) == <<2, 4, 6, 8, 10, k>>

\* Types 192, 198, 199 and 200 hold addresses, 196 the power policy; formats from 128 on end the list.  Records
\* with and without the three bytes of a manufacturer, an old policy of either kind and in front of an address, no
\* room for one, and last a header across two pages.
FruImages ==
  {Image(<<Record(192, 130, Address(1))>>),
   Image(<<Record(192, 2, Address(1)), Record(196, 130, <<7>>)>>),
   Image(<<Record(192, 2, Address(1)), Record(196, 130, <<1, 2, 3, 7>>)>>),
   Image(<<Record(200, 2, <<2>> \o Address(1) \o Address(2)), Record(198, 130, <<9, 9, 9>> \o Address(3))>>),
   Image(<<Record(192, 2, Address(1)), Record(200, 2, <<2>> \o Address(1) \o Address(2)), Record(199, 130, <<9, 9, 9>> \o Address(3))>>),
   Image(<<Record(192, 2, Address(1)), Record(198, 130, Address(3))>>),
   Image(<<Record(192, 2, Address(1)), Record(196, 2, <<7>>), Record(198, 130, Address(3))>>),
   Image(<<Record(192, 2, <<9, 9, 9>> \o Address(1)), Record(198, 130, Address(3))>>)}
=============================================================================
