------------------------------- MODULE Base64 -------------------------------
(***************************************************************************)
(* The text form of a blob (base64.c, blob.c): blob_dump writes it into an *)
(* SQL statement or a dump, blob_scan reads it back from a row or from an  *)
(* ACL.                                                                    *)
(*                                                                         *)
(* A character is the number of the sextet it stands for, Pad for '=', or  *)
(* Other for a character outside the alphabet.                             *)
(***************************************************************************)
EXTENDS Integers, Sequences, FiniteSetsExt

Pad == 64
Other == 65

\* What decode gives: the length it returns, -1 for failure, and the bytes it wrote.
Decoded(len, bytes) == [len |-> len, bytes |-> bytes]
Failed == Decoded(-1, <<>>)

Octet == 0 .. (2^8 - 1)

At(s, i) == IF i \in DOMAIN s THEN s[i] ELSE 0
Shift(n, bits) == (n \div 2^bits)

EncSize(n) == 4 * ((n + 2) \div 3)

\* Three bytes as one number; missing bytes are 0.
Triple(src, k) ==
  At(src, 3 * k + 1) * 2^16 + At(src, 3 * k + 2) * 2^8 + At(src, 3 * k + 3)

\* Mutant of Pads: one byte more is taken for padding that is already there.
PadsShort(n) == n % 3

\* How many sextets at the end are overwritten by '='.
Pads(n) == IF n % 3 = 0 THEN 0 ELSE 3 - (n % 3)

\* base64_encode: three bytes to four sextets.
Encode(src) ==
  LET size == EncSize(Len(src)) IN
  [j \in 1 .. size |-> IF j > size - Pads(Len(src)) THEN Pad
                       ELSE Shift(Triple(src, (j - 1) \div 4), 18 - 6 * ((j - 1) % 4)) % 2^6]

\* The number of '=' at the end; a string of nothing else is not asked for.
Padding(s) == Len(s) - Max({0} \cup {i \in DOMAIN s : s[i] # Pad})

DecSize(s) == (Len(s) \div 4) * 3 - Min({Padding(s), 2})

\* The length without all '=' but two.
Kept(s) == Len(s) - Max({0, Padding(s) - 2})

\* A '=' in one of the last two places counts as 0.
Zero(s, i) == s[i] = Pad /\ \A j \in i .. Kept(s) : j > Kept(s) - 2 /\ s[j] = Pad
Sextet(s, i) == IF Zero(s, i) THEN 0 ELSE s[i]
Quad(s, k) ==
  Sextet(s, 4 * k + 1) * 2^18 + Sextet(s, 4 * k + 2) * 2^12
    + Sextet(s, 4 * k + 3) * 2^6 + Sextet(s, 4 * k + 4)

\* base64_decode into a buffer of base64_dec_malloc's size.  The length returned is
\* computed from the whole string, with all its '='.
Decode(s) ==
  LET written == Min({DecSize(s) + 1, (Kept(s) \div 4) * 3}) IN
  IF s = <<>> THEN Decoded(0, <<>>)
  ELSE IF Kept(s) % 4 # 0 THEN Failed
  ELSE IF \E i \in 1 .. Kept(s) : Sextet(s, i) >= 64 THEN Failed
  ELSE Decoded(DecSize(s),
               [j \in 1 .. written |->
                  Shift(Quad(s, (j - 1) \div 3), 16 - 8 * ((j - 1) % 3)) % 2^8])

\* blob_scan: the first len bytes of the buffer.
Scanned(d) == SubSeq(d.bytes, 1, d.len)
=============================================================================
