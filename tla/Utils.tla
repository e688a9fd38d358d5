-------------------------------- MODULE Utils --------------------------------
(***************************************************************************)
(* The routines of kernel/misc/utils.c that other modules call.  A string  *)
(* is a sequence of character codes; a C string ends with a 0, which       *)
(* strcmp meets unless the strings differ before.                          *)
(***************************************************************************)
EXTENDS Integers, Sequences

\* The sign of strcmp(s1, s2): 0 when the strings agree up to the first 0.
strcmp(s1, s2) ==
  LET from[i \in Nat] ==
        IF s1[i] # 0 /\ s1[i] = s2[i] THEN from[i + 1] ELSE s1[i] - s2[i]
  IN  from[1]

\* A digit as itoa and uitoa write it: '0' to '9', then 'A' and on.
Digit(r) == IF r >= 10 THEN 65 + (r - 10) ELSE 48 + r

reverse(buffer) == [k \in DOMAIN buffer |-> buffer[Len(buffer) + 1 - k]]

\* The digits in the order the loops of itoa and uitoa find them: the lowest
\* first, none for 0.
LowDigits(value, base) ==
  LET of[n \in Nat] ==
        IF n = 0 THEN <<>> ELSE <<Digit(n % base)>> \o of[n \div base]
  IN  of[value]

\* uitoa(value, buffer, base); a base that is no base leaves the buffer.
uitoa(value, buffer, base) ==
  IF base \notin 2 .. 32 THEN buffer
  ELSE IF value = 0 THEN <<48>> ELSE reverse(LowDigits(value, base))

\* What a string of digits says in a base: the reference for uitoa.
Worth(c) == IF c >= 65 THEN c - 65 + 10 ELSE c - 48

Denoted(digits, base) ==
  LET upto[k \in 0 .. Len(digits)] ==
        IF k = 0 THEN 0 ELSE upto[k - 1] * base + Worth(digits[k])
  IN  upto[Len(digits)]
=============================================================================
