------------------------------ MODULE WireProofs ------------------------------
(***************************************************************************)
(* What the request path makes trace keys of loses nothing: two processes  *)
(* without a UUID share a key only with the same host, pid and start time. *)
(***************************************************************************)
EXTENDS Wire, SequenceTheorems, TLAPS

Byte == 0..255

(* Numbers with the same lowest byte are as far apart as 256 times the rest. *)
LEMMA LowestByte ==
    ASSUME NEW m \in Int, NEW n \in Int, m % 256 = n % 256
    PROVE  /\ m \div 256 \in Int /\ n \div 256 \in Int
           /\ m - n = 256 * ((m \div 256) - (n \div 256))
OBVIOUS

(* Eight bytes tell numbers apart that are less than 2^64 apart.           *)
Bits64 == 18446744073709551616

LEMMA LeBytesInjective ==
    ASSUME NEW m \in Int, NEW n \in Int,
           m - n < Bits64, n - m < Bits64,
           LeBytes(m) = LeBytes(n)
    PROVE  m = n
<1> DEFINE Q1(x) == x \div 256
           Q2(x) == Q1(x) \div 256
           Q3(x) == Q2(x) \div 256
           Q4(x) == Q3(x) \div 256
           Q5(x) == Q4(x) \div 256
           Q6(x) == Q5(x) \div 256
           Q7(x) == Q6(x) \div 256
           Q8(x) == Q7(x) \div 256
<1>1. \A x : LeBytes(x) = <<x % 256, Q1(x) % 256, Q2(x) % 256, Q3(x) % 256,
                             Q4(x) % 256, Q5(x) % 256, Q6(x) % 256, Q7(x) % 256>>
  BY DEF LeBytes
<1>2. /\ m % 256 = n % 256 /\ Q1(m) % 256 = Q1(n) % 256
      /\ Q2(m) % 256 = Q2(n) % 256 /\ Q3(m) % 256 = Q3(n) % 256
      /\ Q4(m) % 256 = Q4(n) % 256 /\ Q5(m) % 256 = Q5(n) % 256
      /\ Q6(m) % 256 = Q6(n) % 256 /\ Q7(m) % 256 = Q7(n) % 256
  <2> HIDE DEF Q1, Q2, Q3, Q4, Q5, Q6, Q7
  <2> QED
    BY <1>1
<1>3. Q1(m) \in Int /\ Q1(n) \in Int /\ m - n = 256 * (Q1(m) - Q1(n))
  BY <1>2, LowestByte
<1> HIDE DEF Q1
<1>4. Q2(m) \in Int /\ Q2(n) \in Int /\ Q1(m) - Q1(n) = 256 * (Q2(m) - Q2(n))
  <2>1. Q1(m) % 256 = Q1(n) % 256
    BY <1>2
  <2> QED
    BY <1>3, <2>1, LowestByte
<1> HIDE DEF Q2
<1>5. Q3(m) \in Int /\ Q3(n) \in Int /\ Q2(m) - Q2(n) = 256 * (Q3(m) - Q3(n))
  <2>1. Q2(m) % 256 = Q2(n) % 256
    BY <1>2
  <2> QED
    BY <1>4, <2>1, LowestByte
<1> HIDE DEF Q3
<1>6. Q4(m) \in Int /\ Q4(n) \in Int /\ Q3(m) - Q3(n) = 256 * (Q4(m) - Q4(n))
  <2>1. Q3(m) % 256 = Q3(n) % 256
    BY <1>2
  <2> QED
    BY <1>5, <2>1, LowestByte
<1> HIDE DEF Q4
<1>7. Q5(m) \in Int /\ Q5(n) \in Int /\ Q4(m) - Q4(n) = 256 * (Q5(m) - Q5(n))
  <2>1. Q4(m) % 256 = Q4(n) % 256
    BY <1>2
  <2> QED
    BY <1>6, <2>1, LowestByte
<1> HIDE DEF Q5
<1>8. Q6(m) \in Int /\ Q6(n) \in Int /\ Q5(m) - Q5(n) = 256 * (Q6(m) - Q6(n))
  <2>1. Q5(m) % 256 = Q5(n) % 256
    BY <1>2
  <2> QED
    BY <1>7, <2>1, LowestByte
<1> HIDE DEF Q6
<1>9. Q7(m) \in Int /\ Q7(n) \in Int /\ Q6(m) - Q6(n) = 256 * (Q7(m) - Q7(n))
  <2>1. Q6(m) % 256 = Q6(n) % 256
    BY <1>2
  <2> QED
    BY <1>8, <2>1, LowestByte
<1> HIDE DEF Q7
<1>10. Q8(m) \in Int /\ Q8(n) \in Int /\ Q7(m) - Q7(n) = 256 * (Q8(m) - Q8(n))
  <2>1. Q7(m) % 256 = Q7(n) % 256
    BY <1>2
  <2> QED
    BY <1>9, <2>1, LowestByte
<1> HIDE DEF Q8
<1>11. m - n = Bits64 * (Q8(m) - Q8(n))
  BY <1>3, <1>4, <1>5, <1>6, <1>7, <1>8, <1>9, <1>10 DEF Bits64
<1> QED
  BY <1>10, <1>11 DEF Bits64

-----------------------------------------------------------------------------
(* Tails of the same length can be taken off. *)
LEMMA SameTail ==
    \A a, b, s, t \in Seq(Byte) : Len(s) = Len(t) /\ a \o s = b \o t => s = t
<1> SUFFICES ASSUME NEW a \in Seq(Byte), NEW b \in Seq(Byte),
                    NEW s \in Seq(Byte), NEW t \in Seq(Byte),
                    Len(s) = Len(t), a \o s = b \o t
             PROVE  s = t
  OBVIOUS
<1>1. /\ Len(a \o s) = Len(a) + Len(s)
      /\ \A i \in 1..Len(a) + Len(s) : (a \o s)[i] = IF i <= Len(a) THEN a[i] ELSE s[i - Len(a)]
  BY ConcatProperties
<1>2. /\ Len(b \o t) = Len(b) + Len(t)
      /\ \A i \in 1..Len(b) + Len(t) : (b \o t)[i] = IF i <= Len(b) THEN b[i] ELSE t[i - Len(b)]
  BY ConcatProperties
<1>3. Len(a) \in Nat /\ Len(b) \in Nat /\ Len(s) \in Nat /\ Len(t) \in Nat
  BY LenProperties
<1>4. Len(a) = Len(b)
  BY <1>1, <1>2, <1>3
<1>5. \A i \in 1..Len(s) : s[i] = t[i]
  <2> TAKE i \in 1..Len(s)
  <2>1. /\ Len(a) + i \in 1..Len(a) + Len(s) /\ ~(Len(a) + i <= Len(a))
        /\ (Len(a) + i) - Len(a) = i
    BY <1>3
  <2>2. s[i] = (a \o s)[Len(a) + i]
    BY <1>1, <2>1
  <2>3. t[i] = (b \o t)[Len(a) + i]
    BY <1>2, <1>4, <2>1
  <2> QED
    BY <2>2, <2>3
<1> QED
  BY <1>5, SeqEqual

LEMMA SameHead ==
    \A a, b, s, t \in Seq(Byte) : Len(s) = Len(t) /\ a \o s = b \o t => a = b
<1> SUFFICES ASSUME NEW a \in Seq(Byte), NEW b \in Seq(Byte),
                    NEW s \in Seq(Byte), NEW t \in Seq(Byte),
                    Len(s) = Len(t), a \o s = b \o t
             PROVE  a = b
  OBVIOUS
<1>1. /\ Len(a \o s) = Len(a) + Len(s)
      /\ \A i \in 1..Len(a) + Len(s) : (a \o s)[i] = IF i <= Len(a) THEN a[i] ELSE s[i - Len(a)]
  BY ConcatProperties
<1>2. /\ Len(b \o t) = Len(b) + Len(t)
      /\ \A i \in 1..Len(b) + Len(t) : (b \o t)[i] = IF i <= Len(b) THEN b[i] ELSE t[i - Len(b)]
  BY ConcatProperties
<1>3. Len(a) \in Nat /\ Len(b) \in Nat /\ Len(s) \in Nat /\ Len(t) \in Nat
  BY LenProperties
<1>4. Len(a) = Len(b)
  BY <1>1, <1>2, <1>3
<1>5. \A i \in 1..Len(a) : a[i] = b[i]
  BY <1>1, <1>2, <1>3, <1>4
<1> QED
  BY <1>4, <1>5, SeqEqual

(* What the recorder knows of a process: a u64 and an i64 beside the host. *)
Process == [host : Seq(Byte), pid : 0..(Bits64 - 1),
            start_time : (-(Bits64 \div 2))..((Bits64 \div 2) - 1)]

(* A u64 and an i64 are eight bytes each. *)
LEMMA LeBytesTyped == \A n \in Int : LeBytes(n) \in Seq(Byte) /\ Len(LeBytes(n)) = 8
BY DEF LeBytes, Byte

(***************************************************************************)
(* synthesize hashes different bytes for different processes: the host has *)
(* no length before it, but what follows it always has sixteen bytes.      *)
(***************************************************************************)
THEOREM HashInputInjective ==
    ASSUME NEW p \in Process, NEW q \in Process, HashInput(p) = HashInput(q)
    PROVE  p = q
<1>1. /\ p.pid \in Int /\ p.start_time \in Int /\ q.pid \in Int /\ q.start_time \in Int
      /\ p.host \in Seq(Byte) /\ q.host \in Seq(Byte)
      /\ p.pid - q.pid < Bits64 /\ q.pid - p.pid < Bits64
      /\ p.start_time - q.start_time < Bits64 /\ q.start_time - p.start_time < Bits64
  BY DEF Process, Bits64
<1> DEFINE a == LeBytes(p.pid)
           b == LeBytes(p.start_time)
           c == LeBytes(q.pid)
           d == LeBytes(q.start_time)
<1>2. /\ a \in Seq(Byte) /\ b \in Seq(Byte) /\ c \in Seq(Byte) /\ d \in Seq(Byte)
      /\ Len(a) = Len(c) /\ Len(b) = Len(d)
  BY <1>1, LeBytesTyped
<1>3. p.host \o a \o b = q.host \o c \o d
  BY DEF HashInput
<1> HIDE DEF a, b, c, d
<1> DEFINE x == p.host \o a
           y == q.host \o c
<1>4. x \in Seq(Byte) /\ y \in Seq(Byte) /\ x \o b = y \o d
  BY <1>1, <1>2, <1>3, ConcatProperties
<1> HIDE DEF x, y
<1>5. x = y /\ b = d
  BY <1>2, <1>4, SameHead, SameTail
<1>6. p.host = q.host /\ a = c /\ b = d
  BY <1>1, <1>2, <1>5, SameHead, SameTail DEF x, y
<1>7. p.pid = q.pid
  BY <1>1, <1>6, LeBytesInjective DEF a, c
<1>8. p.start_time = q.start_time
  BY <1>1, <1>6, LeBytesInjective DEF b, d
<1> QED
  BY <1>6, <1>7, <1>8 DEF Process
=============================================================================
