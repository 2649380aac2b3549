---------------------------- MODULE SaslPlainProofs ----------------------------
(***************************************************************************)
(* Proofs about the base64 encoder and the line of AUTHENTICATE PLAIN, for *)
(* user names and passwords of every length.                               *)
(***************************************************************************)
EXTENDS SaslPlain, SequenceTheorems, TLAPS

(* Four sextets that hold the three bytes a, b and c. *)
Holds3(e, a, b, c) ==
    /\ e[1] \in 0 .. 63 /\ e[2] \in 0 .. 63 /\ e[3] \in 0 .. 63 /\ e[4] \in 0 .. 63
    /\ e[1] * 4 + (e[2] \div 16) = a
    /\ (e[2] % 16) * 16 + (e[3] \div 4) = b
    /\ (e[3] % 4) * 64 + e[4] = c

(* encode_group loses nothing: its three bytes come back from its four     *)
(* sextets.                                                                *)
LEMMA GroupRoundTrip ==
    ASSUME NEW a \in Byte, NEW b \in Byte, NEW c \in Byte
    PROVE  Holds3(EncodeGroup(a, b, c), a, b, c)
<1> DEFINE e == EncodeGroup(a, b, c)
<1>1. PICK a1 \in 0 .. 63, a0 \in 0 .. 3 : a = 4 * a1 + a0
  <2>1. (a \div 4) \in 0 .. 63 /\ (a % 4) \in 0 .. 3 /\ a = 4 * (a \div 4) + (a % 4)
    BY DEF Byte
  <2> QED BY <2>1
<1>2. PICK b1 \in 0 .. 15, b0 \in 0 .. 15 : b = 16 * b1 + b0
  <2>1. (b \div 16) \in 0 .. 15 /\ (b % 16) \in 0 .. 15 /\ b = 16 * (b \div 16) + (b % 16)
    BY DEF Byte
  <2> QED BY <2>1
<1>3. PICK c1 \in 0 .. 3, c0 \in 0 .. 63 : c = 64 * c1 + c0
  <2>1. (c \div 64) \in 0 .. 3 /\ (c % 64) \in 0 .. 63 /\ c = 64 * (c \div 64) + (c % 64)
    BY DEF Byte
  <2> QED BY <2>1
<1> DEFINE n == a * 65536 + b * 256 + c
<1>4. n = 262144 * a1 + 65536 * a0 + 4096 * b1 + 256 * b0 + 64 * c1 + c0
  BY <1>1, <1>2, <1>3
<1>5. e = << (n \div 262144) % 64, (n \div 4096) % 64, (n \div 64) % 64, n % 64 >>
  BY DEF EncodeGroup
<1> HIDE DEF n, e
<1>6. (n \div 262144) % 64 = a1
  <2>1. n \div 262144 = a1
    BY <1>4
  <2> QED BY <2>1
<1>7. (n \div 4096) % 64 = 16 * a0 + b1
  <2>1. n \div 4096 = 64 * a1 + 16 * a0 + b1
    BY <1>4
  <2> QED BY <2>1
<1>8. (n \div 64) % 64 = 4 * b0 + c1
  <2>1. n \div 64 = 4096 * a1 + 1024 * a0 + 64 * b1 + 4 * b0 + c1
    BY <1>4
  <2> QED BY <2>1
<1>9. n % 64 = c0
  BY <1>4
<1>10. e = << a1, 16 * a0 + b1, 4 * b0 + c1, c0 >>
  BY <1>5, <1>6, <1>7, <1>8, <1>9
<1>11. e[1] = a1 /\ e[2] = 16 * a0 + b1 /\ e[3] = 4 * b0 + c1 /\ e[4] = c0
  BY <1>10
<1>12. (16 * a0 + b1) \div 16 = a0 /\ (16 * a0 + b1) % 16 = b1
  OBVIOUS
<1>13. (4 * b0 + c1) \div 4 = b0 /\ (4 * b0 + c1) % 4 = c1
  OBVIOUS
<1>14. Holds3(e, a, b, c)
  BY <1>1, <1>2, <1>3, <1>11, <1>12, <1>13 DEF Holds3
<1> QED
  BY <1>14 DEF e

(* The encoding is as long as encoded_len says. *)
LEMMA EncodedLength ==
    ASSUME NEW n \in Nat
    PROVE  /\ 4 * Quanta(n) = EncodedLen(n)
           /\ Quanta(n) \in Nat
           /\ n <= 3 * Quanta(n) /\ 3 * Quanta(n) <= n + 2
           /\ n = 0 <=> Quanta(n) = 0
  BY DEF Quanta, EncodedLen

(* The shape of the output: characters in groups of four. *)
LEMMA EncodeShape ==
    ASSUME NEW s \in Seq(Byte)
    PROVE  /\ Len(EncodeInto(s)) = EncodedLen(Len(s))
           /\ \A g \in 0 .. Quanta(Len(s)) - 1 :
                /\ EncodeInto(s)[4 * g + 1] = Quantum(s, g)[1]
                /\ EncodeInto(s)[4 * g + 2] = Quantum(s, g)[2]
                /\ EncodeInto(s)[4 * g + 3] = Quantum(s, g)[3]
                /\ EncodeInto(s)[4 * g + 4] = Quantum(s, g)[4]
<1> DEFINE q == Quanta(Len(s))
           Q(k) == Quantum(s, (k - 1) \div 4)[((k - 1) % 4) + 1]
<1>1. Len(s) \in Nat
  OBVIOUS
<1>2. q \in Nat /\ 4 * q = EncodedLen(Len(s))
  BY <1>1, EncodedLength
<1>3. EncodeInto(s) = [k \in 1 .. 4 * q |-> Q(k)]
  BY DEF EncodeInto
<1> HIDE DEF q
<1>4. \A k \in 1 .. 4 * q : EncodeInto(s)[k] = Q(k)
  BY <1>3
<1>5. ASSUME NEW g \in 0 .. q - 1, NEW j \in 1 .. 4
      PROVE  EncodeInto(s)[4 * g + j] = Quantum(s, g)[j]
  <2> DEFINE k == 4 * g + j
  <2>1. k \in 1 .. 4 * q
    BY <1>2
  <2>2. (k - 1) \div 4 = g /\ ((k - 1) % 4) + 1 = j
    OBVIOUS
  <2> HIDE DEF k
  <2>3. Q(k) = Quantum(s, g)[j]
    BY <2>2
  <2>4. EncodeInto(s)[k] = Quantum(s, g)[j]
    BY <1>4, <2>1, <2>3
  <2> QED BY <2>4 DEF k
<1>6. Len(EncodeInto(s)) = 4 * q
  BY <1>2, <1>3
<1> QED
  BY <1>2, <1>5, <1>6 DEF q

(* The bytes of a group come back from its four characters. *)
LEMMA QuantumDecodes ==
    ASSUME NEW s \in Seq(Byte), NEW g \in Nat, 3 * g + 1 <= Len(s),
           NEW f, f = Quantum(s, g)
    PROVE  /\ f[1] * 4 + (f[2] \div 16) = s[3 * g + 1]
           /\ 3 * g + 2 <= Len(s) => (f[2] % 16) * 16 + (f[3] \div 4) = s[3 * g + 2]
           /\ 3 * g + 3 <= Len(s) => (f[3] % 4) * 64 + f[4] = s[3 * g + 3]
           /\ f[3] = PAD <=> 3 * g + 1 = Len(s)
           /\ f[4] = PAD <=> 3 * g + 2 >= Len(s)
           /\ f[1] \in Int /\ f[2] \in Int /\ f[3] \in Int /\ f[4] \in Int
<1> DEFINE left == Len(s) - 3 * g
           b == IF left >= 2 THEN s[3 * g + 2] ELSE 0
           c == IF left >= 3 THEN s[3 * g + 3] ELSE 0
           e == EncodeGroup(s[3 * g + 1], b, c)
<1>1. Len(s) \in Nat /\ left \in Nat /\ left >= 1
  OBVIOUS
<1>2. s[3 * g + 1] \in Byte /\ b \in Byte /\ c \in Byte
  <2>1. \A k \in 1 .. Len(s) : s[k] \in Byte
    OBVIOUS
  <2>2. 0 \in Byte
    BY DEF Byte
  <2>3. 3 * g + 1 \in 1 .. Len(s)
    BY <1>1
  <2>4. left >= 2 => 3 * g + 2 \in 1 .. Len(s)
    BY <1>1
  <2>5. left >= 3 => 3 * g + 3 \in 1 .. Len(s)
    BY <1>1
  <2> HIDE DEF left
  <2> QED BY <2>1, <2>2, <2>3, <2>4, <2>5
<1>3. Holds3(e, s[3 * g + 1], b, c)
  <2>1. e = EncodeGroup(s[3 * g + 1], b, c)
    OBVIOUS
  <2> HIDE DEF b, c, e
  <2> QED BY <1>2, <2>1, GroupRoundTrip, Zenon
<1>4. f = << e[1], e[2], IF left >= 2 THEN e[3] ELSE PAD, IF left >= 3 THEN e[4] ELSE PAD >>
  BY DEF Quantum
<1> HIDE DEF e
<1>5. /\ f[1] = e[1] /\ f[2] = e[2]
      /\ f[3] = (IF left >= 2 THEN e[3] ELSE PAD)
      /\ f[4] = (IF left >= 3 THEN e[4] ELSE PAD)
  BY <1>4
<1>6. (f[3] = PAD <=> left < 2) /\ (f[4] = PAD <=> left < 3)
  <2>1. e[3] \in 0 .. 63 /\ e[4] \in 0 .. 63
    BY <1>3 DEF Holds3
  <2>2. e[3] # PAD /\ e[4] # PAD
    <3>1. \A x \in 0 .. 63 : x # PAD
      BY DEF PAD
    <3> QED BY <2>1, <3>1
  <2>3. left \in Nat
    BY <1>1
  <2> HIDE DEF left
  <2> QED BY <1>5, <2>2, <2>3
<1>7. left >= 2 => b = s[3 * g + 2] /\ f[3] = e[3]
  BY <1>5
<1>8. left >= 3 => c = s[3 * g + 3] /\ f[3] = e[3] /\ f[4] = e[4]
  BY <1>1, <1>5
<1>9. f[1] \in Int /\ f[2] \in Int /\ f[3] \in Int /\ f[4] \in Int
  <2>1. PAD \in Int
    BY DEF PAD
  <2>2. e[1] \in Int /\ e[2] \in Int /\ e[3] \in Int /\ e[4] \in Int
    <3>1. /\ e[1] \in 0 .. 63 /\ e[2] \in 0 .. 63
          /\ e[3] \in 0 .. 63 /\ e[4] \in 0 .. 63
      BY <1>3 DEF Holds3
    <3>2. \A x \in 0 .. 63 : x \in Int
      OBVIOUS
    <3> QED BY <3>1, <3>2
  <2> HIDE DEF left
  <2> QED BY <1>5, <2>1, <2>2
<1> HIDE DEF b, c
<1>10. /\ f[1] * 4 + (f[2] \div 16) = s[3 * g + 1]
       /\ 3 * g + 2 <= Len(s) => (f[2] % 16) * 16 + (f[3] \div 4) = s[3 * g + 2]
       /\ 3 * g + 3 <= Len(s) => (f[3] % 4) * 64 + f[4] = s[3 * g + 3]
       /\ f[3] = PAD <=> 3 * g + 1 = Len(s)
       /\ f[4] = PAD <=> 3 * g + 2 >= Len(s)
  BY <1>1, <1>3, <1>5, <1>6, <1>7, <1>8 DEF Holds3
<1> QED
  BY <1>9, <1>10

(* Decoding the encoding gives the bytes back, at every length: encode_into *)
(* pads each remainder so that nothing is lost or added.                    *)
THEOREM Base64RoundTrip ==
    ASSUME NEW s \in Seq(Byte)
    PROVE  Decode(EncodeInto(s)) = s
<1> DEFINE e == EncodeInto(s)
           n == Len(s)
           q == Quanta(n)
<1>1. n \in Nat
  OBVIOUS
<1>2. /\ q \in Nat /\ n <= 3 * q /\ 3 * q <= n + 2 /\ Len(e) = 4 * q
      /\ n = 0 <=> q = 0
  BY <1>1, EncodedLength, EncodeShape
<1>3. \A g \in 0 .. q - 1 :
        /\ e[4 * g + 1] = Quantum(s, g)[1] /\ e[4 * g + 2] = Quantum(s, g)[2]
        /\ e[4 * g + 3] = Quantum(s, g)[3] /\ e[4 * g + 4] = Quantum(s, g)[4]
  BY EncodeShape
<1> HIDE DEF e, q
<1>4. \A g \in 0 .. q - 1 :
        /\ e[4 * g + 1] * 4 + (e[4 * g + 2] \div 16) = s[3 * g + 1]
        /\ 3 * g + 2 <= n => (e[4 * g + 2] % 16) * 16 + (e[4 * g + 3] \div 4) = s[3 * g + 2]
        /\ 3 * g + 3 <= n => (e[4 * g + 3] % 4) * 64 + e[4 * g + 4] = s[3 * g + 3]
        /\ e[4 * g + 3] = PAD <=> 3 * g + 1 = n
        /\ e[4 * g + 4] = PAD <=> 3 * g + 2 >= n
  <2> TAKE g \in 0 .. q - 1
  <2> DEFINE f == Quantum(s, g)
  <2>1. g \in Nat /\ 3 * g + 1 <= n
    BY <1>1, <1>2
  <2>2. /\ f[1] * 4 + (f[2] \div 16) = s[3 * g + 1]
        /\ 3 * g + 2 <= n => (f[2] % 16) * 16 + (f[3] \div 4) = s[3 * g + 2]
        /\ 3 * g + 3 <= n => (f[3] % 4) * 64 + f[4] = s[3 * g + 3]
        /\ f[3] = PAD <=> 3 * g + 1 = n
        /\ f[4] = PAD <=> 3 * g + 2 >= n
    BY <2>1, QuantumDecodes
  <2>3. /\ e[4 * g + 1] = f[1] /\ e[4 * g + 2] = f[2]
        /\ e[4 * g + 3] = f[3] /\ e[4 * g + 4] = f[4]
    BY <1>3
  <2> HIDE DEF f
  <2> QED BY <2>2, <2>3
<1>5. DecodedLen(e) = n
  <2>1. CASE q = 0
    BY <1>2, <2>1 DEF DecodedLen
  <2>2. CASE q # 0
    <3>1. q - 1 \in 0 .. q - 1
      BY <1>2, <2>2
    <3>2. 4 * (q - 1) + 3 = Len(e) - 1 /\ 4 * (q - 1) + 4 = Len(e)
      BY <1>2
    <3>3. /\ e[Len(e) - 1] = PAD <=> 3 * (q - 1) + 1 = n
          /\ e[Len(e)] = PAD <=> 3 * (q - 1) + 2 >= n
      BY <1>4, <3>1, <3>2
    <3>4. Len(e) # 0 /\ Len(e) \div 4 = q
      BY <1>2, <2>2
    <3>5. DecodedLen(e) = (3 * q) - (IF e[Len(e) - 1] = PAD THEN 2
                                     ELSE IF e[Len(e)] = PAD THEN 1 ELSE 0)
      BY <3>4 DEF DecodedLen
    <3> QED BY <1>1, <1>2, <2>2, <3>3, <3>5
  <2> QED BY <2>1, <2>2
<1>6. ASSUME NEW i \in 1 .. n PROVE DecodedByte(e, i) = s[i]
  <2> DEFINE g == (i - 1) \div 3
             r == (i - 1) % 3
  <2>1. g \in 0 .. q - 1 /\ r \in 0 .. 2 /\ i = 3 * g + r + 1
    BY <1>1, <1>2
  <2>2. DecodedByte(e, i) =
          IF r = 0 THEN e[4 * g + 1] * 4 + (e[4 * g + 2] \div 16)
          ELSE IF r = 1 THEN (e[4 * g + 2] % 16) * 16 + (e[4 * g + 3] \div 4)
          ELSE (e[4 * g + 3] % 4) * 64 + e[4 * g + 4]
    BY DEF DecodedByte
  <2> HIDE DEF g, r
  <2>3. CASE r = 0
    BY <1>4, <2>1, <2>2, <2>3
  <2>4. CASE r = 1
    <3>1. i = 3 * g + 2 /\ 3 * g + 2 <= n
      BY <2>1, <2>4
    <3> QED BY <1>4, <2>1, <2>2, <2>4, <3>1
  <2>5. CASE r = 2
    <3>1. i = 3 * g + 3 /\ 3 * g + 3 <= n
      BY <2>1, <2>5
    <3> QED BY <1>4, <2>1, <2>2, <2>5, <3>1
  <2> QED BY <2>1, <2>3, <2>4, <2>5
<1>7. Decode(e) = [i \in 1 .. n |-> s[i]]
  BY <1>5, <1>6 DEF Decode
<1>8. s = [i \in 1 .. n |-> s[i]]
  OBVIOUS
<1> QED BY <1>7, <1>8 DEF e

Message(u, p) == (<<0>> \o u) \o (<<0>> \o p)

(* The elements of two sequences end to end. *)
LEMMA JoinParts ==
    ASSUME NEW a \in Seq(Byte), NEW b \in Seq(Byte)
    PROVE  /\ a \o b \in Seq(Byte) /\ Len(a \o b) = Len(a) + Len(b)
           /\ \A k \in 1 .. Len(a) : (a \o b)[k] = a[k]
           /\ \A k \in 1 .. Len(b) : (a \o b)[k + Len(a)] = b[k]
<1>1. a \o b \in Seq(Byte) /\ Len(a \o b) = Len(a) + Len(b)
  OBVIOUS
<1>2. ASSUME NEW k \in 1 .. Len(a) PROVE (a \o b)[k] = a[k]
  OBVIOUS
<1>3. ASSUME NEW k \in 1 .. Len(b) PROVE (a \o b)[k + Len(a)] = b[k]
  <2> DEFINE i == k + Len(a)
  <2>1. i \in Len(a) + 1 .. Len(a) + Len(b) /\ i - Len(a) = k
    OBVIOUS
  <2>2. \A j \in Len(a) + 1 .. Len(a) + Len(b) : (a \o b)[j] = b[j - Len(a)]
    OBVIOUS
  <2> HIDE DEF i
  <2>3. (a \o b)[i] = b[k]
    BY <2>1, <2>2
  <2> QED BY <2>3 DEF i
<1> QED BY <1>1, <1>2, <1>3

(* Where the parts of a PLAIN message are. *)
LEMMA MessageParts ==
    ASSUME NEW u \in Seq(Byte), NEW p \in Seq(Byte)
    PROVE  /\ Message(u, p) \in Seq(Byte)
           /\ Len(Message(u, p)) = 2 + Len(u) + Len(p)
           /\ Message(u, p)[1] = 0 /\ Message(u, p)[Len(u) + 2] = 0
           /\ \A k \in 1 .. Len(u) : Message(u, p)[k + 1] = u[k]
           /\ \A k \in 1 .. Len(p) : Message(u, p)[k + Len(u) + 2] = p[k]
<1> DEFINE a == <<0>> \o u
           b == <<0>> \o p
           m == Message(u, p)
<1>1. <<0>> \in Seq(Byte) /\ Len(<<0>>) = 1
  BY DEF Byte
<1>2. /\ a \in Seq(Byte) /\ Len(a) = 1 + Len(u) /\ a[1] = 0
      /\ \A k \in 1 .. Len(u) : a[k + 1] = u[k]
  BY <1>1
<1>3. /\ b \in Seq(Byte) /\ Len(b) = 1 + Len(p) /\ b[1] = 0
      /\ \A k \in 1 .. Len(p) : b[k + 1] = p[k]
  BY <1>1
<1>4. m = a \o b
  BY DEF Message
<1> HIDE DEF a, b, m
<1>5. /\ m \in Seq(Byte) /\ Len(m) = Len(a) + Len(b)
      /\ \A k \in 1 .. Len(a) : m[k] = a[k]
      /\ \A k \in 1 .. Len(b) : m[k + Len(a)] = b[k]
  BY <1>2, <1>3, <1>4, JoinParts, ZenonT(30)
<1>6. Len(u) \in Nat /\ Len(p) \in Nat
  OBVIOUS
<1>7. Len(m) = 2 + Len(u) + Len(p) /\ m[1] = 0
  BY <1>2, <1>3, <1>5, <1>6
<1>8. m[Len(u) + 2] = 0
  <2>1. m[1 + Len(a)] = b[1]
    BY <1>3, <1>5, <1>6
  <2>2. 1 + Len(a) = Len(u) + 2
    BY <1>2, <1>6
  <2> QED BY <1>3, <2>1, <2>2
<1>9. ASSUME NEW k \in 1 .. Len(u) PROVE m[k + 1] = u[k]
  BY <1>2, <1>5, <1>6
<1>10. ASSUME NEW k \in 1 .. Len(p) PROVE m[k + Len(u) + 2] = p[k]
  <2>1. k + 1 \in 1 .. Len(b) /\ (k + 1) + Len(a) = k + Len(u) + 2
    BY <1>2, <1>3, <1>6
  <2>2. m[(k + 1) + Len(a)] = b[k + 1]
    BY <1>5, <2>1
  <2> QED BY <1>3, <2>1, <2>2
<1> QED
  BY <1>5, <1>7, <1>8, <1>9, <1>10 DEF m

(* A message without other NULs is read back into its two parts. *)
LEMMA MessageReads ==
    ASSUME NEW u \in Seq(Byte), NEW p \in Seq(Byte), NulFree(u)
    PROVE  /\ Message(u, p) # <<>> /\ Message(u, p)[1] = 0
           /\ Authcid(Message(u, p)) = u /\ Passwd(Message(u, p)) = p
<1> DEFINE m == Message(u, p)
           z == Len(u) + 2
<1>1. Len(u) \in Nat /\ Len(p) \in Nat
  OBVIOUS
<1>2. /\ m \in Seq(Byte) /\ Len(m) = 2 + Len(u) + Len(p) /\ m[1] = 0 /\ m[z] = 0
      /\ \A k \in 1 .. Len(u) : m[k + 1] = u[k]
      /\ \A k \in 1 .. Len(p) : m[k + z] = p[k]
  <2>1. \A k \in 1 .. Len(p) : k + Len(u) + 2 = k + z
    BY <1>1
  <2>2. /\ m \in Seq(Byte) /\ Len(m) = 2 + Len(u) + Len(p) /\ m[1] = 0 /\ m[z] = 0
        /\ \A k \in 1 .. Len(u) : m[k + 1] = u[k]
        /\ \A k \in 1 .. Len(p) : m[k + Len(u) + 2] = p[k]
    BY MessageParts
  <2> HIDE DEF m, z
  <2> QED BY <2>1, <2>2
<1> HIDE DEF m
<1>3. \A j \in 2 .. z - 1 : m[j] # 0
  <2> TAKE j \in 2 .. z - 1
  <2>1. j - 1 \in 1 .. Len(u) /\ (j - 1) + 1 = j
    BY <1>1
  <2>2. u[j - 1] # 0
    BY <2>1 DEF NulFree
  <2> QED BY <1>2, <2>1, <2>2
<1>4. SecondNul(m) = z
  <2> DEFINE P(k) == m[k] = 0 /\ \A j \in 2 .. k - 1 : m[j] # 0
  <2>1. z \in 2 .. Len(m) /\ P(z)
    BY <1>1, <1>2, <1>3
  <2>2. ASSUME NEW k \in 2 .. Len(m), P(k) PROVE k = z
    <3>1. k \in Int /\ z \in Int /\ k >= 2 /\ z >= 2
      BY <1>1, <1>2, <2>1
    <3>2. ~ (k < z)
      BY <1>3, <2>2, <3>1
    <3>3. ~ (z < k)
      BY <1>2, <2>2, <3>1
    <3> QED BY <3>1, <3>2, <3>3
  <2>3. SecondNul(m) = CHOOSE k \in 2 .. Len(m) : P(k)
    BY DEF SecondNul
  <2> HIDE DEF P, z
  <2> QED BY <2>1, <2>2, <2>3
<1>5. SubSeq(m, 2, z - 1) = u
  <2> DEFINE x == SubSeq(m, 2, z - 1)
  <2>1. x = [k \in 1 .. Len(u) |-> m[k + 1]]
    BY <1>1, <1>2
  <2>2. u = [k \in 1 .. Len(u) |-> u[k]]
    OBVIOUS
  <2> HIDE DEF x
  <2> QED BY <1>2, <2>1, <2>2 DEF x
<1>6. SubSeq(m, z + 1, Len(m)) = p
  <2> DEFINE x == SubSeq(m, z + 1, Len(m))
  <2>1. x = [k \in 1 .. Len(p) |-> m[k + z]]
    BY <1>1, <1>2
  <2>2. p = [k \in 1 .. Len(p) |-> p[k]]
    OBVIOUS
  <2> HIDE DEF x
  <2> QED BY <1>2, <2>1, <2>2 DEF x
<1>7. m # <<>>
  BY <1>1, <1>2
<1> QED
  BY <1>2, <1>4, <1>5, <1>6, <1>7 DEF m, Authcid, Passwd

(* sasl_plain_line fills both its buffers exactly. *)
LEMMA LineFits ==
    ASSUME NEW u \in Seq(Byte), NEW p \in Seq(Byte)
    PROVE  /\ SaslMessage(u, p).grown = FALSE /\ SaslPlainLine(u, p).grown = FALSE
           /\ SaslPlainLine(u, p).data = EncodeInto(Message(u, p)) \o CRLF
           /\ EncodeInto(Message(u, p)) \in Seq(Int)
<1> DEFINE m == Message(u, p)
           e == EncodeInto(m)
           v == WithCapacity(EncodedLen(Len(m)) + Len(CRLF))
<1>1. m \in Seq(Byte) /\ Len(m) = 2 + Len(u) + Len(p) /\ Len(m) \in Nat
  BY MessageParts
<1>2. Len(e) = EncodedLen(Len(m)) /\ EncodedLen(Len(m)) \in Nat
  <2>1. Len(e) = EncodedLen(Len(m))
    BY <1>1, EncodeShape
  <2>2. Quanta(Len(m)) \in Nat /\ 4 * Quanta(Len(m)) = EncodedLen(Len(m))
    BY <1>1, EncodedLength
  <2> HIDE DEF m
  <2> QED BY <2>1, <2>2
<1>3. e \in Seq(Int)
  <2> DEFINE q == Quanta(Len(m))
             Q(k) == Quantum(m, (k - 1) \div 4)[((k - 1) % 4) + 1]
  <2>1. q \in Nat /\ 3 * q <= Len(m) + 2
    BY <1>1, EncodedLength
  <2>2. e = [k \in 1 .. 4 * q |-> Q(k)]
    BY DEF EncodeInto
  <2> HIDE DEF q, m
  <2>3. ASSUME NEW g \in 0 .. q - 1, NEW j \in 1 .. 4 PROVE Quantum(m, g)[j] \in Int
    <3>1. g \in Nat /\ 3 * g + 1 <= Len(m)
      BY <1>1, <2>1
    <3>2. /\ Quantum(m, g)[1] \in Int /\ Quantum(m, g)[2] \in Int
          /\ Quantum(m, g)[3] \in Int /\ Quantum(m, g)[4] \in Int
      BY <1>1, <3>1, QuantumDecodes
    <3>3. j = 1 \/ j = 2 \/ j = 3 \/ j = 4
      OBVIOUS
    <3> QED BY <3>2, <3>3
  <2>4. ASSUME NEW k \in 1 .. 4 * q PROVE Q(k) \in Int
    <3>1. (k - 1) \div 4 \in 0 .. q - 1 /\ ((k - 1) % 4) + 1 \in 1 .. 4
      BY <2>1
    <3> QED BY <2>3, <3>1
  <2>5. [k \in 1 .. 4 * q |-> Q(k)] \in [1 .. 4 * q -> Int]
    <3> HIDE DEF Q
    <3> QED BY <2>4
  <2> HIDE DEF e, Q
  <2>6. 4 * q \in Nat
    BY <2>1
  <2> QED BY <2>2, <2>5, <2>6, SMTT(30)
<1>4. SaslMessage(u, p).data = m
  <2>1. <<>> \o m = m
    BY <1>1
  <2> QED BY <2>1 DEF SaslMessage, Extend, WithCapacity, Message
<1>5. SaslMessage(u, p).grown = FALSE
  <2>1. Len(u) \in Nat /\ Len(p) \in Nat /\ Len(<<>>) = 0
    OBVIOUS
  <2>2. SaslMessage(u, p).grown = (FALSE \/ Len(<<>>) + Len(m) > 2 + Len(u) + Len(p))
    BY DEF SaslMessage, Extend, WithCapacity, Message
  <2> HIDE DEF m
  <2>3. ~ (Len(<<>>) + Len(m) > 2 + Len(u) + Len(p))
    BY <1>1, <2>1
  <2> QED BY <2>2, <2>3
<1>6. SaslPlainLine(u, p) = Extend(Extend(v, e), CRLF)
  BY <1>4 DEF SaslPlainLine
<1> HIDE DEF e, m
<1>7. Len(CRLF) = 2 /\ Len(<<>>) = 0 /\ <<>> \o e = e
  BY <1>3 DEF CRLF
<1>8. Extend(v, e) = [cap |-> EncodedLen(Len(m)) + 2, data |-> e, grown |-> FALSE]
  <2>1. ~ (Len(<<>>) + Len(e) > EncodedLen(Len(m)) + 2)
    BY <1>2, <1>7
  <2> QED BY <1>7, <2>1 DEF Extend, WithCapacity
<1>9. /\ Extend(Extend(v, e), CRLF).data = e \o CRLF
      /\ Extend(Extend(v, e), CRLF).grown = FALSE
  <2>1. ~ (Len(e) + Len(CRLF) > EncodedLen(Len(m)) + 2)
    BY <1>2, <1>7
  <2> HIDE DEF v
  <2> QED BY <1>8, <2>1 DEF Extend
<1> QED
  BY <1>3, <1>5, <1>6, <1>9 DEF e, m

(* What holds between the stages of a call: the checks were made, and what *)
(* is queued or written is the line of this call's credentials.            *)
Stages == {"idle", "asked", "queued", "sent", "refused", "failed"}

IInv ==
    /\ stage \in Stages
    /\ user \in Seq(Byte) /\ pass \in Seq(Byte)
    /\ grown = FALSE
    /\ stage \in {"asked", "queued", "sent"} => NulFree(user) /\ NulFree(pass)
    /\ stage = "queued" => line = SaslPlainLine(user, pass)
    /\ stage = "sent" => wire = SaslPlainLine(user, pass).data

LEMMA InitInv == Init => IInv
  BY DEF Init, IInv, Stages

LEMMA NextInv == IInv /\ [Next]_vars => IInv'
<1> SUFFICES ASSUME IInv, [Next]_vars PROVE IInv'
  OBVIOUS
<1>1. ASSUME NEW u \in Names, NEW p \in Passwords, Authenticate(u, p) PROVE IInv'
  BY <1>1, TextAssumption DEF IInv, Stages, Authenticate
<1>2. CASE Continue
  <2>1. grown' = FALSE
    BY <1>2, LineFits DEF IInv, Continue
  <2> QED BY <1>2, <2>1 DEF IInv, Stages, Continue
<1>3. CASE Write
  BY <1>3 DEF IInv, Stages, Write
<1>4. CASE GiveUp
  BY <1>4 DEF IInv, Stages, GiveUp
<1>5. CASE Lose
  BY <1>5 DEF IInv, Stages, Lose
<1>6. CASE Return
  BY <1>6 DEF IInv, Stages, Return
<1>7. CASE UNCHANGED vars
  BY <1>7 DEF IInv, vars
<1> QED
  BY <1>1, <1>2, <1>3, <1>4, <1>5, <1>6, <1>7 DEF Next

(* The invariant gives what the server reads. *)
LEMMA InvArrives == IInv => CredentialsArriveIntact
<1> SUFFICES ASSUME IInv, stage = "sent"
             PROVE  LET message == Decode(SubSeq(wire, 1, Len(wire) - 2))
                    IN  /\ SubSeq(wire, Len(wire) - 1, Len(wire)) = CRLF
                        /\ message # <<>> /\ message[1] = 0
                        /\ Authcid(message) = user /\ Passwd(message) = pass
  BY DEF CredentialsArriveIntact
<1> DEFINE m == Message(user, pass)
           e == EncodeInto(m)
<1>1. user \in Seq(Byte) /\ pass \in Seq(Byte) /\ NulFree(user)
  BY DEF IInv
<1>2. wire = e \o CRLF /\ e \in Seq(Int)
  BY <1>1, LineFits DEF IInv
<1>3. m \in Seq(Byte) /\ Decode(e) = m
  BY <1>1, MessageParts, Base64RoundTrip
<1>4. m # <<>> /\ m[1] = 0 /\ Authcid(m) = user /\ Passwd(m) = pass
  BY <1>1, MessageReads
<1> HIDE DEF e, m
<1>5. /\ Len(e) \in Nat /\ Len(wire) = Len(e) + 2 /\ wire \in Seq(Int)
      /\ \A k \in 1 .. Len(e) : wire[k] = e[k]
      /\ wire[Len(e) + 1] = 65 /\ wire[Len(e) + 2] = 66
  BY <1>2 DEF CRLF
<1>6. SubSeq(wire, 1, Len(wire) - 2) = e
  <2>1. Len(wire) - 2 = Len(e)
    BY <1>5
  <2>2. SubSeq(wire, 1, Len(e)) = [k \in 1 .. Len(e) |-> e[k]]
    BY <1>5
  <2>3. e = [k \in 1 .. Len(e) |-> e[k]]
    BY <1>2
  <2> QED BY <2>1, <2>2, <2>3
<1>7. SubSeq(wire, Len(wire) - 1, Len(wire)) = CRLF
  <2>1. Len(wire) - 1 = Len(e) + 1
    BY <1>5
  <2> DEFINE x == SubSeq(wire, Len(e) + 1, Len(e) + 2)
  <2>2. x \in Seq(Int) /\ Len(x) = 2 /\ x[1] = 65 /\ x[2] = 66
    BY <1>5
  <2> HIDE DEF x
  <2>3. x = <<65, 66>>
    BY <2>2
  <2> QED BY <1>5, <2>1, <2>3 DEF CRLF, x
<1> QED
  BY <1>3, <1>4, <1>6, <1>7

(* The credentials of AUTHENTICATE PLAIN reach the server as they were      *)
(* passed, for all names and passwords (authenticate_plain, encode_into).   *)
THEOREM CredentialsArrive == Spec => []CredentialsArriveIntact
<1>1. Spec => []IInv
  BY InitInv, NextInv, PTL DEF Spec
<1> QED BY <1>1, InvArrives, PTL

(* No buffer holding the secret is ever reallocated, whatever the lengths   *)
(* of name and password (sasl_plain_line, encoded_len).                     *)
THEOREM NoCopyLeft == Spec => []NoCopyLeftBehind
<1>1. IInv => NoCopyLeftBehind
  BY DEF IInv, NoCopyLeftBehind
<1> QED BY <1>1, InitInv, NextInv, PTL DEF Spec
===============================================================================
