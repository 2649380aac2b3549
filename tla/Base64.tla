-------------------------------- MODULE Base64 --------------------------------
(***************************************************************************)
(* The base64 encoder of base64.rs, on bytes as numbers.  A character of   *)
(* the output stands for its place in ALPHABET, which is one to one, and   *)
(* PAD for the sign "=".                                                   *)
(***************************************************************************)
EXTENDS Integers, Sequences

Byte == 0 .. 255
PAD == 64

(* Mutant: the last, partial group is not counted. *)
EncodedLenFloor(inputLen) == (inputLen \div 3) * 4

EncodedLen(inputLen) == ((inputLen + 2) \div 3) * 4

EncodeGroup(a, b, c) ==
    LET n == a * 65536 + b * 256 + c
    IN  << (n \div 262144) % 64, (n \div 4096) % 64, (n \div 64) % 64, n % 64 >>

(* The g-th group of four characters: a whole chunk, or the padded rest. *)
Quantum(input, g) ==
    LET left == Len(input) - 3 * g
        e    == EncodeGroup(input[3 * g + 1],
                            IF left >= 2 THEN input[3 * g + 2] ELSE 0,
                            IF left >= 3 THEN input[3 * g + 3] ELSE 0)
    IN  << e[1], e[2],
           IF left >= 2 THEN e[3] ELSE PAD,
           IF left >= 3 THEN e[4] ELSE PAD >>

(* as_chunks: the whole groups, and one more for a remainder. *)
Quanta(inputLen) == (inputLen \div 3) + (IF inputLen % 3 = 0 THEN 0 ELSE 1)

EncodeInto(input) ==
    [k \in 1 .. 4 * Quanta(Len(input)) |->
        Quantum(input, (k - 1) \div 4)[((k - 1) % 4) + 1]]

-------------------------------------------------------------------------------
(* The reference: decoding by RFC 4648 section 4. *)
DecodedLen(chars) ==
    LET n == Len(chars)
    IN  IF n = 0 THEN 0
        ELSE (3 * (n \div 4)) - (IF chars[n - 1] = PAD THEN 2
                                 ELSE IF chars[n] = PAD THEN 1 ELSE 0)

DecodedByte(chars, i) ==
    LET g == 4 * ((i - 1) \div 3)
        r == (i - 1) % 3
    IN  IF r = 0 THEN chars[g + 1] * 4 + (chars[g + 2] \div 16)
        ELSE IF r = 1 THEN (chars[g + 2] % 16) * 16 + (chars[g + 3] \div 4)
        ELSE (chars[g + 3] % 4) * 64 + chars[g + 4]

Decode(chars) == [i \in 1 .. DecodedLen(chars) |-> DecodedByte(chars, i)]
===============================================================================
