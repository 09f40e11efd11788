------------------------------ MODULE Address -------------------------------
(***************************************************************************)
(* Network addresses (util.c): the prefix operator '/' of the ACL, which   *)
(* greylisting rules use to treat the hosts of one network alike, and the  *)
(* order of addresses.                                                     *)
(*                                                                         *)
(* An address is [family, bytes].  The C code works on one word for IPv4   *)
(* and byte by byte for IPv6; the number of bytes and the bits of a byte   *)
(* are parameters.                                                         *)
(***************************************************************************)
EXTENDS Integers, Sequences, FiniteSetsExt

CONSTANTS Width4, Width6, ByteBits

Byte == 2^ByteBits
Width(a) == IF a.family = 4 THEN Width4 ELSE Width6
Bits(a) == Width(a) * ByteBits

\* ntohl: the address as one number.
Number(bytes) ==
  LET n == Len(bytes)
      Weight[i \in 0 .. n] == IF i = 0 THEN 0 ELSE Weight[i - 1] * Byte + bytes[i]
  IN  Weight[n]
Word(n, width) == [i \in 1 .. width |-> (n \div Byte^(width - i)) % Byte]

\* 1 << bits in an int as wide as an IPv4 address.  A shift by the whole width is
\* undefined: the processor shifts by nothing, the compiler may give 0.
Shifted(bits) == IF bits < Width4 * ByteBits THEN {2^bits} ELSE {1, 0}

\* hostaddr & ~(shifted - 1), in the width of the address: 0 - 1 leaves no bit.
Masked(n, shifted) == IF shifted = 0 THEN 0 ELSE n - (n % shifted)

\* The byte loop of the IPv6 case: from the last byte on, 8 host bits each time.
Cleared(bytes, bits) ==
  LET left(i) == bits - (Len(bytes) - i) * ByteBits
  IN  [i \in DOMAIN bytes |-> IF left(i) <= 0 THEN bytes[i]
                              ELSE IF left(i) > ByteBits THEN 0
                              ELSE bytes[i] - (bytes[i] % 2^left(i))]

\* Mutant of Networks: a whole byte of host bits is left alone.
NetworksByte(a, prefix) ==
  LET bits == Min({Bits(a) - prefix, Bits(a)})
  IN  IF bits <= 0 THEN {a}
      ELSE IF a.family = 4
      THEN {[a EXCEPT !.bytes = Word(Masked(Number(a.bytes), s), Width4)] : s \in Shifted(bits)}
      ELSE {[a EXCEPT !.bytes = Cleared(@, (bits \div ByteBits) * ByteBits)]}

\* util_addr_prefix: the addresses it may leave in ss.
Networks(a, prefix) ==
  LET bits == Min({Bits(a) - prefix, Bits(a)})
  IN  IF bits <= 0 THEN {a}
      ELSE IF a.family = 4
      THEN {[a EXCEPT !.bytes = Word(Masked(Number(a.bytes), s), Width4)] : s \in Shifted(bits)}
      ELSE {[a EXCEPT !.bytes = Cleared(@, bits)]}

\* util_addrcmp.
Compared(a, b) ==
  LET m == Number(a.bytes)
      n == Number(b.bytes)
      Sign(x, y) == IF x = y THEN 0 ELSE IF x < y THEN -1 ELSE 1
  IN  IF a.family # b.family THEN Sign(a.family, b.family) ELSE Sign(m, n)

\* Reference: the first prefix bits, counted from the left.
Bit(a, i) ==
  LET byte == a.bytes[((i - 1) \div ByteBits) + 1]
  IN  (byte \div 2^(ByteBits - 1 - ((i - 1) % ByteBits))) % 2
SameNetwork(a, b, prefix) ==
  /\ a.family = b.family
  /\ \A i \in 1 .. Min({prefix, Bits(a)}) : Bit(a, i) = Bit(b, i)
=============================================================================
