----------------------------- MODULE RegionText -----------------------------
(***************************************************************************)
(* The two lines draw_memmap writes for a memory region, and the functions *)
(* of framebuffer.rs that turn its size and its bounds into text in arrays *)
(* of 24 and 40 bytes.  A digit is its value and any other character a     *)
(* number above 15; the length of a text stands for pos.  An address is    *)
(* the tuple of its 16 hexadecimal digits, so that it has its 64 bits.     *)
(***************************************************************************)
EXTENDS Integers, Sequences, FiniteSetsExt

FONT_WIDTH == 8

\* The characters that are not digits.
Char == [x |-> 16, dash |-> 17, space |-> 18, B |-> 19, i |-> 20, K |-> 21, M |-> 22, G |-> 23]

\* Each byte is written after a look at pos, so that a text stops where the array does.
Put(buf, text, limit) == buf \o SubSeq(text, 1, Min({Len(text), limit - Len(buf)}))

\* The digits come off n from the right and are written from the left.
write_u64_decimal(buf, val, limit) ==
  LET n[i \in 0 .. 20] == IF i = 0 THEN val ELSE n[i - 1] \div 10
      dlen == Min({i \in 0 .. 20 : n[i] = 0})
  IN  Put(buf, IF val = 0 THEN <<0>> ELSE [d \in 1 .. dlen |-> n[dlen - d] % 10], limit)

iB(prefix) == <<Char.space, Char[prefix], Char.i, Char.B>>
Units == <<[of |-> 1024 * 1024 * 1024, suffix |-> iB("G")], [of |-> 1024 * 1024, suffix |-> iB("M")],
           [of |-> 1024, suffix |-> iB("K")], [of |-> 1, suffix |-> <<Char.space, Char.B>>]>>

Unit(s) == CHOOSE k \in 1 .. 4 : (s >= Units[k].of \/ k = 4) /\ \A j \in 1 .. k - 1 : s < Units[j].of

format_size(s) ==
  LET u == Units[Unit(s)]
  IN  Put(write_u64_decimal(<<>>, s \div u.of, 24), u.suffix, 24)

Visible(nibble, started, shift) == nibble # 0 \/ started \/ shift < 4

\* The loop over shift from 15 down; nibble k of val has shift 16 - k, and started
\* says that a digit has been written.
write_hex(buf, val, limit) ==
  LET Shows(k, digits) ==
        Visible(val[k], digits # <<>>, 16 - k) /\ Len(buf) + 2 + Len(digits) < limit
      after[k \in 0 .. 16] ==
        IF k = 0 THEN <<>>
        ELSE IF Shows(k, after[k - 1]) THEN Append(after[k - 1], val[k]) ELSE after[k - 1]
  IN  IF Len(buf) + 2 > limit THEN buf ELSE (buf \o <<0, Char.x>>) \o after[16]

RANGE_LEN == 40

format_addr_range(s, e) ==
  write_hex(Put(write_hex(<<>>, s, RANGE_LEN), <<Char.dash>>, RANGE_LEN), e, RANGE_LEN)

-----------------------------------------------------------------------------
\* The references.  The number decimal digits stand for.
Value(s) ==
  LET v[k \in 0 .. Len(s)] == IF k = 0 THEN 0 ELSE 10 * v[k - 1] + s[k]
  IN  v[Len(s)]

\* A whole number of the largest unit not above the size, rounded down.
ReadsAs(text, size) ==
  \E u \in 1 .. 4, n \in 1 .. Len(text) :
    /\ SubSeq(text, n + 1, Len(text)) = Units[u].suffix
    /\ size - Value(SubSeq(text, 1, n)) * Units[u].of \in 0 .. Units[u].of - 1
    /\ u > 1 => Value(SubSeq(text, 1, n)) < 1024
    /\ n > 1 => text[1] # 0

\* An address without the zeros in front, but with four digits.
Shortened(a) ==
  LET first == CHOOSE k \in 1 .. 13 : (a[k] # 0 \/ k = 13) /\ \A j \in 1 .. k - 1 : a[j] = 0
  IN  <<0, Char.x>> \o SubSeq(a, first, 16)
=============================================================================
