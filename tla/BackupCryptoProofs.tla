-------------------------- MODULE BackupCryptoProofs --------------------------
(***************************************************************************)
(* Proofs about BackupCrypto, for every dump, header and cut into chunks:  *)
(* only the dump comes out of the decrypting stream, an intact artifact is *)
(* always readable, and any damage but to the version byte is found.       *)
(*                                                                         *)
(* Header fields, ciphertext and dump have bytes of different kinds, so    *)
(* the lemmas about sequences are stated for sequences of anything.        *)
(***************************************************************************)
EXTENDS BackupCrypto, SequenceTheorems, TLAPS

----------------------------------------------------------------------------
(* Sequences of anything *)

IsSeq(s) == \E S : s \in Seq(S)

\* A sequence is a function on 1..Len(s), and only the empty one has no length.
LEMMA SeqShape ==
    ASSUME NEW s, IsSeq(s)
    PROVE  /\ Len(s) \in Nat /\ DOMAIN s = 1..Len(s)
           /\ s = [i \in 1..Len(s) |-> s[i]]
           /\ Len(s) = 0 => s = <<>>
<1>1. PICK S : s \in Seq(S)
  BY DEF IsSeq
<1>2. /\ Len(s) \in Nat /\ DOMAIN s = 1..Len(s) /\ s \in [1..Len(s) -> S]
  BY <1>1, LenProperties
<1>3. Len(s) = 0 => s = <<>>
  BY <1>1, EmptySeq
<1> QED
  BY <1>2, <1>3

\* The empty sequence is one of anything.
LEMMA EmptyIsSeq == IsSeq(<<>>) /\ Len(<<>>) = 0
<1>1. <<>> \in Seq({})
  BY EmptySeq
<1> QED
  BY <1>1, EmptySeq DEF IsSeq

\* A function on 1..n is a sequence of length n.
LEMMA FunctionIsSeq ==
    ASSUME NEW n \in Nat, NEW f, f = [i \in 1..n |-> f[i]]
    PROVE  IsSeq(f) /\ Len(f) = n
<1> DEFINE S == {f[i] : i \in 1..n}
<1>1. f \in [1..n -> S]
  OBVIOUS
<1>2. f \in Seq(S)
  BY <1>1, SeqDef
<1>3. DOMAIN f = 1..n
  BY <1>1
<1>4. Len(f) = n
  BY <1>2, <1>3, LenProperties
<1> QED
  BY <1>2, <1>4 DEF IsSeq

\* Two sequences are equal that have the same length and elements.
LEMMA SameSeq ==
    ASSUME NEW s, NEW t, IsSeq(s), IsSeq(t), Len(s) = Len(t),
           \A i \in 1..Len(s) : s[i] = t[i]
    PROVE  s = t
<1>1. s = [i \in 1..Len(s) |-> s[i]] /\ t = [i \in 1..Len(t) |-> t[i]]
  BY SeqShape
<1> QED
  BY <1>1

\* One after the other.
LEMMA SeqConcat ==
    ASSUME NEW s, NEW t, IsSeq(s), IsSeq(t)
    PROVE  /\ IsSeq(s \o t) /\ Len(s \o t) = Len(s) + Len(t)
           /\ \A i \in 1..Len(s) : (s \o t)[i] = s[i]
           /\ \A i \in 1..Len(t) : (s \o t)[Len(s) + i] = t[i]
<1>1. PICK S : s \in Seq(S)
  BY DEF IsSeq
<1>2. PICK T : t \in Seq(T)
  BY DEF IsSeq
<1> DEFINE U == S \cup T
<1>3. s \in Seq(U) /\ t \in Seq(U)
  BY <1>1, <1>2, SeqMonotonic
<1>4. /\ s \o t \in Seq(U)
      /\ Len(s \o t) = Len(s) + Len(t)
      /\ \A i \in 1..Len(s) + Len(t) : (s \o t)[i] =
                     IF i <= Len(s) THEN s[i] ELSE t[i - Len(s)]
  BY <1>3, ConcatProperties
<1>5. Len(s) \in Nat /\ Len(t) \in Nat
  BY SeqShape
<1>6. ASSUME NEW i \in 1..Len(s)
      PROVE  (s \o t)[i] = s[i]
  BY <1>4, <1>5
<1>7. ASSUME NEW i \in 1..Len(t)
      PROVE  (s \o t)[Len(s) + i] = t[i]
  <2>1. /\ Len(s) + i \in 1..Len(s) + Len(t)
        /\ ~(Len(s) + i <= Len(s)) /\ (Len(s) + i) - Len(s) = i
    BY <1>5
  <2> QED
    BY <2>1, <1>4
<1> QED
  BY <1>4, <1>6, <1>7 DEF IsSeq

\* What the two parts of a sequence have to be.
LEMMA SeqJoined ==
    ASSUME NEW s, NEW a, NEW b, IsSeq(s), IsSeq(a), IsSeq(b),
           Len(a) + Len(b) = Len(s),
           \A i \in 1..Len(a) : a[i] = s[i],
           \A i \in 1..Len(b) : b[i] = s[Len(a) + i]
    PROVE  a \o b = s
<1>1. Len(a) \in Nat /\ Len(b) \in Nat
  BY SeqShape
<1>2. /\ IsSeq(a \o b) /\ Len(a \o b) = Len(s)
      /\ \A i \in 1..Len(a) : (a \o b)[i] = a[i]
      /\ \A i \in 1..Len(b) : (a \o b)[Len(a) + i] = b[i]
  BY SeqConcat
<1>3. ASSUME NEW i \in 1..Len(s)
      PROVE  (a \o b)[i] = s[i]
  <2>1. CASE i <= Len(a)
    BY <2>1, <1>1, <1>2
  <2>2. CASE i > Len(a)
    <3>1. i - Len(a) \in 1..Len(b) /\ Len(a) + (i - Len(a)) = i
      BY <2>2, <1>1
    <3> QED
      BY <3>1, <1>2
  <2> QED
    BY <2>1, <2>2, <1>1
<1> QED
  BY <1>2, <1>3, SameSeq

\* The part of a sequence between two places.
LEMMA SeqPart ==
    ASSUME NEW s, IsSeq(s), NEW m \in Nat \ {0}, NEW n \in Nat, n <= Len(s),
           m <= n + 1
    PROVE  /\ IsSeq(SubSeq(s, m, n)) /\ Len(SubSeq(s, m, n)) = n - m + 1
           /\ \A i \in 1..(n - m + 1) : SubSeq(s, m, n)[i] = s[m + i - 1]
<1>1. PICK S : s \in Seq(S)
  BY DEF IsSeq
<1>2. Len(s) \in Nat /\ s \in [1..Len(s) -> S]
  BY <1>1, LenProperties
<1>3. \A i \in m..n : s[i] \in S
  BY <1>2
<1>4. /\ SubSeq(s, m, n) \in Seq(S)
      /\ Len(SubSeq(s, m, n)) = IF m <= n THEN n - m + 1 ELSE 0
      /\ \A i \in 1..n - m + 1 : SubSeq(s, m, n)[i] = s[m + i - 1]
  BY <1>3, SubSeqProperties
<1> QED
  BY <1>4 DEF IsSeq

\* Both parts of a sequence cut in two.
LEMMA SeqCut ==
    ASSUME NEW s, IsSeq(s), NEW n \in 0..Len(s)
    PROVE  /\ IsSeq(First(s, n)) /\ Len(First(s, n)) = n
           /\ \A i \in 1..n : First(s, n)[i] = s[i]
           /\ IsSeq(After(s, n)) /\ Len(After(s, n)) = Len(s) - n
           /\ \A i \in 1..(Len(s) - n) : After(s, n)[i] = s[n + i]
           /\ First(s, n) \o After(s, n) = s
<1>1. Len(s) \in Nat /\ n \in Nat /\ n <= Len(s) /\ n + 1 \in Nat \ {0}
  BY SeqShape
<1>2. /\ IsSeq(First(s, n)) /\ Len(First(s, n)) = n
      /\ \A i \in 1..n : First(s, n)[i] = s[i]
  <2>1. /\ IsSeq(SubSeq(s, 1, n)) /\ Len(SubSeq(s, 1, n)) = n - 1 + 1
        /\ \A i \in 1..(n - 1 + 1) : SubSeq(s, 1, n)[i] = s[1 + i - 1]
    BY <1>1, SeqPart
  <2>2. n - 1 + 1 = n /\ \A i \in 1..n : 1 + i - 1 = i
    BY <1>1
  <2> QED
    BY <2>1, <2>2 DEF First
<1>3. /\ IsSeq(After(s, n)) /\ Len(After(s, n)) = Len(s) - n
      /\ \A i \in 1..(Len(s) - n) : After(s, n)[i] = s[n + i]
  <2>1. /\ IsSeq(SubSeq(s, n + 1, Len(s)))
        /\ Len(SubSeq(s, n + 1, Len(s))) = Len(s) - (n + 1) + 1
        /\ \A i \in 1..(Len(s) - (n + 1) + 1) :
              SubSeq(s, n + 1, Len(s))[i] = s[(n + 1) + i - 1]
    BY <1>1, SeqPart
  <2>2. /\ Len(s) - (n + 1) + 1 = Len(s) - n
        /\ \A i \in 1..(Len(s) - n) : (n + 1) + i - 1 = n + i
    BY <1>1
  <2> QED
    BY <2>1, <2>2 DEF After
<1>4. First(s, n) \o After(s, n) = s
  <2>1. ASSUME NEW a, NEW b, IsSeq(a), IsSeq(b), Len(a) = n, Len(b) = Len(s) - n,
               \A i \in 1..n : a[i] = s[i],
               \A i \in 1..(Len(s) - n) : b[i] = s[n + i]
        PROVE  a \o b = s
    <3>1. /\ Len(a) + Len(b) = Len(s)
          /\ \A i \in 1..Len(a) : a[i] = s[i]
          /\ \A i \in 1..Len(b) : b[i] = s[Len(a) + i]
      BY <2>1, <1>1
    <3> QED
      BY <3>1, <2>1, SeqJoined
  <2> QED
    BY <2>1, <1>2, <1>3
<1> QED
  BY <1>2, <1>3, <1>4

\* Changed in one place, or continued by one element.
LEMMA SeqChanged ==
    ASSUME NEW s, IsSeq(s), NEW e
    PROVE  /\ \A i \in 1..Len(s) :
                 /\ IsSeq([s EXCEPT ![i] = e]) /\ Len([s EXCEPT ![i] = e]) = Len(s)
                 /\ \A j \in 1..Len(s) :
                       [s EXCEPT ![i] = e][j] = IF j = i THEN e ELSE s[j]
           /\ IsSeq(Append(s, e)) /\ Len(Append(s, e)) = Len(s) + 1
           /\ \A j \in 1..Len(s) : Append(s, e)[j] = s[j]
<1>1. PICK S : s \in Seq(S)
  BY DEF IsSeq
<1> DEFINE T == S \cup {e}
<1>2. s \in Seq(T) /\ e \in T
  BY <1>1, SeqMonotonic
<1>3. /\ Append(s, e) \in Seq(T) /\ Len(Append(s, e)) = Len(s) + 1
      /\ \A j \in 1..Len(s) : Append(s, e)[j] = s[j]
  BY <1>2, AppendProperties
<1>4. ASSUME NEW i \in 1..Len(s)
      PROVE  /\ [s EXCEPT ![i] = e] \in Seq(T)
             /\ Len([s EXCEPT ![i] = e]) = Len(s)
             /\ \A j \in 1..Len(s) :
                   [s EXCEPT ![i] = e][j] = IF j = i THEN e ELSE s[j]
  BY <1>2, ExceptSeq
<1> QED
  BY <1>3, <1>4 DEF IsSeq

\* Concatenation is associative.
LEMMA SeqAssociative ==
    ASSUME NEW s, NEW t, NEW u, IsSeq(s), IsSeq(t), IsSeq(u)
    PROVE  (s \o t) \o u = s \o (t \o u)
<1>1. PICK S : s \in Seq(S)
  BY DEF IsSeq
<1>2. PICK T : t \in Seq(T)
  BY DEF IsSeq
<1>3. PICK U : u \in Seq(U)
  BY DEF IsSeq
<1> DEFINE V == S \cup T \cup U
<1>4. s \in Seq(V) /\ t \in Seq(V) /\ u \in Seq(V)
  BY <1>1, <1>2, <1>3, SeqMonotonic
<1> QED
  BY <1>4, ConcatAssociative

\* Two parts of a sequence that follow each other.
LEMMA SeqAdjacent ==
    ASSUME NEW s, IsSeq(s), NEW m \in Nat \ {0}, NEW k \in Nat, NEW n \in Nat,
           m <= k + 1, k <= n, n <= Len(s)
    PROVE  SubSeq(s, m, k) \o SubSeq(s, k + 1, n) = SubSeq(s, m, n)
<1>1. PICK S : s \in Seq(S)
  BY DEF IsSeq
<1>2. Len(s) \in Nat
  BY SeqShape
<1>3. m \in 1..(Len(s) + 1) /\ k \in (m - 1)..Len(s) /\ n \in k..Len(s)
  BY <1>2
<1> QED
  BY <1>1, <1>3, ConcatAdjacentSubSeq

\* Of one sequence between two others, the part in its place is all of it.
LEMMA SeqMiddle ==
    ASSUME NEW s, NEW t, NEW u, IsSeq(s), IsSeq(t), IsSeq(u)
    PROVE  SubSeq((s \o t) \o u, Len(s) + 1, Len(s) + Len(t)) = t
<1> DEFINE v == (s \o t) \o u
<1>1. Len(s) \in Nat /\ Len(t) \in Nat /\ Len(u) \in Nat
  BY SeqShape
<1>2. /\ IsSeq(s \o t) /\ Len(s \o t) = Len(s) + Len(t)
      /\ \A i \in 1..Len(t) : (s \o t)[Len(s) + i] = t[i]
  BY SeqConcat
<1>3. /\ IsSeq(v) /\ Len(v) = Len(s \o t) + Len(u)
      /\ \A i \in 1..Len(s \o t) : v[i] = (s \o t)[i]
  BY <1>2, SeqConcat
<1>4. \A i \in 1..Len(t) : v[Len(s) + i] = t[i]
  BY <1>1, <1>2, <1>3
<1> HIDE DEF v
<1> DEFINE m == Len(s) + 1
           n == Len(s) + Len(t)
<1>5. m \in Nat \ {0} /\ n \in Nat /\ n <= Len(v) /\ m <= n + 1 /\ n - m + 1 = Len(t)
  BY <1>1, <1>2, <1>3
<1>6. \A i \in 1..Len(t) : m + i - 1 = Len(s) + i
  BY <1>1
<1> HIDE DEF m, n
<1>7. /\ IsSeq(SubSeq(v, m, n)) /\ Len(SubSeq(v, m, n)) = Len(t)
      /\ \A i \in 1..Len(t) : SubSeq(v, m, n)[i] = v[m + i - 1]
  <2>1. /\ IsSeq(SubSeq(v, m, n)) /\ Len(SubSeq(v, m, n)) = n - m + 1
        /\ \A i \in 1..(n - m + 1) : SubSeq(v, m, n)[i] = v[m + i - 1]
    BY <1>3, <1>5, SeqPart
  <2> QED
    BY <2>1, <1>5
<1>8. SubSeq(v, m, n) = t
  BY <1>7, <1>4, <1>6, SameSeq
<1> QED
  BY <1>8 DEF v, m, n

----------------------------------------------------------------------------
(* The header *)

\* The parts of the header, and what a tag byte says.
LEMMA HeaderParts ==
    ASSUME NEW key, NEW iv, NEW bytes
    PROVE  /\ IsSeq(Version) /\ Len(Version) = 1
           /\ IsSeq(Salt) /\ Len(Salt) = SaltLength
           /\ IsSeq(Iv) /\ Len(Iv) = IvLength
           /\ IsSeq(TagOf(key, iv, bytes)) /\ Len(TagOf(key, iv, bytes)) = TagLength
           /\ TagOf(key, iv, bytes)[1] = Byte("tag", <<key, iv, bytes>>, 1)
<1>1. SaltLength \in Nat /\ IvLength \in Nat /\ TagLength \in Nat /\ 1 \in 1..TagLength
  BY CryptoAssumption
<1>2. IsSeq(Version) /\ Len(Version) = 1
  <2>1. Version = [i \in 1..1 |-> Version[i]]
    BY DEF Version
  <2> QED
    BY <2>1, FunctionIsSeq
<1>3. IsSeq(Salt) /\ Len(Salt) = SaltLength
  <2>1. Salt = [i \in 1..SaltLength |-> Salt[i]]
    BY DEF Salt
  <2> QED
    BY <2>1, <1>1, FunctionIsSeq
<1>4. IsSeq(Iv) /\ Len(Iv) = IvLength
  <2>1. Iv = [i \in 1..IvLength |-> Iv[i]]
    BY DEF Iv
  <2> QED
    BY <2>1, <1>1, FunctionIsSeq
<1>5. IsSeq(TagOf(key, iv, bytes)) /\ Len(TagOf(key, iv, bytes)) = TagLength
  <2> DEFINE tag == TagOf(key, iv, bytes)
  <2>1. tag = [i \in 1..TagLength |-> tag[i]]
    BY DEF TagOf
  <2> HIDE DEF tag
  <2>2. IsSeq(tag) /\ Len(tag) = TagLength
    BY <2>1, <1>1, FunctionIsSeq
  <2> QED
    BY <2>2 DEF tag
<1>6. TagOf(key, iv, bytes)[1] = Byte("tag", <<key, iv, bytes>>, 1)
  BY <1>1 DEF TagOf
<1> QED
  BY <1>2, <1>3, <1>4, <1>5, <1>6

\* A tag byte is of one key, one IV and one sequence of bytes, and is no noise.
LEMMA TagByteTells ==
    ASSUME NEW k1, NEW i1, NEW b1, NEW k2, NEW i2, NEW b2,
           Byte("tag", <<k1, i1, b1>>, 1) \in {Byte("tag", <<k2, i2, b2>>, 1), Noise}
    PROVE  k1 = k2 /\ i1 = i2 /\ b1 = b2
<1>1. Byte("tag", <<k1, i1, b1>>, 1) # Noise
  BY DEF Byte, Noise
<1>2. <<k1, i1, b1>> = <<k2, i2, b2>>
  BY <1>1 DEF Byte
<1> QED
  BY <1>2

\* The bounds of the parts
LEMMA HeaderBounds ==
    /\ SaltLength \in Nat \ {0} /\ IvLength \in Nat \ {0} /\ TagLength \in Nat \ {0}
    /\ HeaderLength \in Nat \ {0} /\ HeaderLength = 1 + SaltLength + IvLength + TagLength
    /\ TagAt \in 1..HeaderLength
BY CryptoAssumption DEF HeaderLength, TagAt

\* What is written, part by part: what decryption will look at.
LEMMA Written ==
    ASSUME NEW c, IsSeq(c)
    PROVE  LET x == Header(c) \o c
               tag == TagOf(Key(passphrase, Salt), Iv, c) IN
           /\ IsSeq(x) /\ Len(x) = HeaderLength + Len(c)
           /\ SubSeq(x, 2, 1 + SaltLength) = Salt
           /\ SubSeq(x, 2 + SaltLength, 1 + SaltLength + IvLength) = Iv
           /\ SubSeq(x, 2 + SaltLength + IvLength, HeaderLength) = tag
           /\ After(x, HeaderLength) = c
<1>1. PICK v, s, i, t : /\ v = Version /\ s = Salt /\ i = Iv
                        /\ t = TagOf(Key(passphrase, Salt), Iv, c)
  OBVIOUS
<1>2. /\ IsSeq(v) /\ Len(v) = 1 /\ IsSeq(s) /\ Len(s) = SaltLength
      /\ IsSeq(i) /\ Len(i) = IvLength /\ IsSeq(t) /\ Len(t) = TagLength
      /\ IsSeq(c) /\ Len(c) \in Nat
  BY <1>1, HeaderParts, SeqShape
<1>0. IsSeq(v) /\ IsSeq(s) /\ IsSeq(i) /\ IsSeq(t) /\ IsSeq(c)
  BY ONLY <1>2
<1>3. PICK vs : vs = v \o s
  OBVIOUS
<1>4. PICK vsi : vsi = vs \o i
  OBVIOUS
<1>5. PICK h : h = vsi \o t
  OBVIOUS
<1>6. h = Header(c)
  BY ONLY <1>1, <1>3, <1>4, <1>5 DEF Header
<1>7. PICK x : x = h \o c
  OBVIOUS
<1>8. PICK tc : tc = t \o c
  OBVIOUS
<1>9. PICK itc : itc = i \o tc
  OBVIOUS
<1>10. IsSeq(vs) /\ Len(vs) = Len(v) + Len(s)
  BY ONLY <1>0, <1>3, SeqConcat
<1>11. IsSeq(vsi) /\ Len(vsi) = Len(vs) + Len(i)
  BY ONLY <1>0, <1>4, <1>10, SeqConcat
<1>12. IsSeq(h) /\ Len(h) = Len(vsi) + Len(t)
  BY ONLY <1>0, <1>5, <1>11, SeqConcat
<1>13. IsSeq(x) /\ Len(x) = Len(h) + Len(c)
  BY ONLY <1>2, <1>7, <1>12, SeqConcat
<1>14. IsSeq(tc) /\ IsSeq(itc)
  BY ONLY <1>2, <1>8, <1>9, SeqConcat
<1>15. x = vsi \o tc
  <2>1. (vsi \o t) \o c = vsi \o (t \o c)
    <3>1. IsSeq(vsi) /\ IsSeq(t) /\ IsSeq(c)
      BY ONLY <1>0, <1>11
    <3> QED
      BY ONLY <3>1, SeqAssociative
  <2> QED
    BY ONLY <2>1, <1>5, <1>7, <1>8
<1>16. x = vs \o itc
  <2>1. (vs \o i) \o tc = vs \o (i \o tc)
    <3>1. IsSeq(vs) /\ IsSeq(i) /\ IsSeq(tc)
      BY ONLY <1>0, <1>10, <1>14
    <3> QED
      BY ONLY <3>1, SeqAssociative
  <2> QED
    BY ONLY <2>1, <1>15, <1>4, <1>9
<1>17. SubSeq(x, Len(v) + 1, Len(v) + Len(s)) = s
  <2>1. SubSeq((v \o s) \o itc, Len(v) + 1, Len(v) + Len(s)) = s
    BY ONLY <1>2, <1>14, SeqMiddle
  <2> QED
    BY ONLY <2>1, <1>16, <1>3
<1>18. SubSeq(x, Len(vs) + 1, Len(vs) + Len(i)) = i
  <2>1. SubSeq((vs \o i) \o tc, Len(vs) + 1, Len(vs) + Len(i)) = i
    BY ONLY <1>2, <1>10, <1>14, SeqMiddle
  <2> QED
    BY ONLY <2>1, <1>15, <1>4
<1>19. SubSeq(x, Len(vsi) + 1, Len(vsi) + Len(t)) = t
  <2>1. SubSeq((vsi \o t) \o c, Len(vsi) + 1, Len(vsi) + Len(t)) = t
    BY ONLY <1>2, <1>11, SeqMiddle
  <2> QED
    BY ONLY <2>1, <1>5, <1>7
<1>20. SubSeq(x, Len(h) + 1, Len(h) + Len(c)) = c
  <2>1. IsSeq(<<>>)
    BY EmptyIsSeq
  <2>2. SubSeq((h \o c) \o <<>>, Len(h) + 1, Len(h) + Len(c)) = c
    BY ONLY <2>1, <1>2, <1>12, SeqMiddle
  <2>3. x \o <<>> = x
    <3>1. PICK S : x \in Seq(S)
      BY ONLY <1>13 DEF IsSeq
    <3> QED
      BY ONLY <3>1, ConcatEmptySeq
  <2> QED
    BY ONLY <2>2, <2>3, <1>7
<1>21. /\ Len(v) + 1 = 2 /\ Len(v) + Len(s) = 1 + SaltLength
       /\ Len(vs) + 1 = 2 + SaltLength /\ Len(vs) + Len(i) = 1 + SaltLength + IvLength
       /\ Len(vsi) + 1 = 2 + SaltLength + IvLength /\ Len(vsi) + Len(t) = HeaderLength
       /\ Len(h) = HeaderLength
  BY ONLY <1>2, <1>10, <1>11, <1>12, HeaderBounds
<1>22. /\ SubSeq(x, 2, 1 + SaltLength) = s
       /\ SubSeq(x, 2 + SaltLength, 1 + SaltLength + IvLength) = i
       /\ SubSeq(x, 2 + SaltLength + IvLength, HeaderLength) = t
  BY ONLY <1>17, <1>18, <1>19, <1>21
<1>23. After(x, HeaderLength) = c
  BY ONLY <1>20, <1>13, <1>21 DEF After
<1>24. IsSeq(x) /\ Len(x) = HeaderLength + Len(c) /\ x = Header(c) \o c
  BY ONLY <1>6, <1>7, <1>13, <1>21
<1> QED
  BY ONLY <1>1, <1>22, <1>23, <1>24

\* The parts of a complete artifact give all of it but the version byte.
LEMMA PartsTell ==
    ASSUME NEW s, IsSeq(s), Len(s) >= HeaderLength
    PROVE  After(s, 1) =
               ((SubSeq(s, 2, 1 + SaltLength)
                   \o SubSeq(s, 2 + SaltLength, 1 + SaltLength + IvLength))
                   \o SubSeq(s, 2 + SaltLength + IvLength, HeaderLength))
                   \o After(s, HeaderLength)
<1>1. PICK k1 \in Nat : k1 = 1 + SaltLength
  BY HeaderBounds
<1>2. PICK k2 \in Nat : k2 = 1 + SaltLength + IvLength
  BY HeaderBounds
<1>3. PICK k3 \in Nat : k3 = HeaderLength
  BY HeaderBounds
<1>4. PICK n \in Nat : n = Len(s)
  BY SeqShape
<1>5. /\ 2 <= k1 + 1 /\ 2 <= k2 + 1 /\ 2 <= k3 + 1 /\ k1 <= k2 /\ k2 <= k3 /\ k3 <= n
      /\ k1 <= n /\ k2 <= n
      /\ k1 + 1 = 2 + SaltLength /\ k2 + 1 = 2 + SaltLength + IvLength
  BY <1>1, <1>2, <1>3, <1>4, HeaderBounds
<1>6. SubSeq(s, 2, k1) \o SubSeq(s, k1 + 1, k2) = SubSeq(s, 2, k2)
  <2>1. 2 \in Nat \ {0} /\ 2 <= k1 + 1 /\ k1 <= k2 /\ k2 <= Len(s)
    BY <1>4, <1>5
  <2> QED
    BY <2>1, SeqAdjacent
<1>7. SubSeq(s, 2, k2) \o SubSeq(s, k2 + 1, k3) = SubSeq(s, 2, k3)
  <2>1. 2 \in Nat \ {0} /\ 2 <= k2 + 1 /\ k2 <= k3 /\ k3 <= Len(s)
    BY <1>4, <1>5
  <2> QED
    BY <2>1, SeqAdjacent
<1>8. SubSeq(s, 2, k3) \o SubSeq(s, k3 + 1, n) = SubSeq(s, 2, n)
  <2>1. 2 \in Nat \ {0} /\ 2 <= k3 + 1 /\ k3 <= n /\ n <= Len(s)
    BY <1>4, <1>5
  <2> QED
    BY <2>1, SeqAdjacent
<1>9. After(s, 1) = SubSeq(s, 2, n) /\ After(s, k3) = SubSeq(s, k3 + 1, n)
  BY <1>4 DEF After
<1>10. After(s, 1) =
          ((SubSeq(s, 2, k1) \o SubSeq(s, k1 + 1, k2)) \o SubSeq(s, k2 + 1, k3))
              \o After(s, k3)
  BY <1>6, <1>7, <1>8, <1>9
<1> QED
  BY <1>10, <1>1, <1>2, <1>3, <1>5

----------------------------------------------------------------------------
(* Everything that is written and read is a sequence. *)

Cipher(d) == /\ d = [key |-> d.key, iv |-> d.iv, tag |-> d.tag, fed |-> d.fed]
             /\ IsSeq(d.fed)

SeqInv ==
    /\ IsSeq(plain) /\ IsSeq(source) /\ IsSeq(ciphertextChunks)
    /\ IsSeq(artifact) /\ IsSeq(unread)
    /\ IsSeq(headerBuffer) /\ Cipher(decipher) /\ IsSeq(decryptedChunks)

\* What one call of update encrypts.
LEMMA EncryptsIsSeq ==
    ASSUME NEW chunk, IsSeq(chunk)
    PROVE  /\ IsSeq(Encrypts(chunk)) /\ Len(Encrypts(chunk)) = Len(chunk)
           /\ \A i \in 1..Len(chunk) : Encrypts(chunk)[i] =
                 Encrypted(Key(passphrase, Salt), Iv, Len(ciphertextChunks) + i, chunk[i])
<1>1. PICK f : f = Encrypts(chunk)
  OBVIOUS
<1>2. f = [i \in 1..Len(chunk) |-> f[i]]
  BY <1>1 DEF Encrypts
<1>3. IsSeq(f) /\ Len(f) = Len(chunk)
  BY <1>2, SeqShape, FunctionIsSeq
<1>4. \A i \in 1..Len(chunk) : Encrypts(chunk)[i] =
         Encrypted(Key(passphrase, Salt), Iv, Len(ciphertextChunks) + i, chunk[i])
  BY DEF Encrypts
<1> QED
  BY <1>1, <1>3, <1>4

\* The bytes one call of update decrypts
Decrypts(d, bytes) ==
    [i \in 1..Len(bytes) |-> Decrypted(d.key, d.iv, Len(d.fed) + i, bytes[i])]

LEMMA DecryptsIsSeq ==
    ASSUME NEW d, NEW bytes, IsSeq(bytes)
    PROVE  /\ IsSeq(Decrypts(d, bytes)) /\ Len(Decrypts(d, bytes)) = Len(bytes)
           /\ \A i \in 1..Len(bytes) : Decrypts(d, bytes)[i] =
                 Decrypted(d.key, d.iv, Len(d.fed) + i, bytes[i])
<1>1. PICK f : f = Decrypts(d, bytes)
  OBVIOUS
<1>2. f = [i \in 1..Len(bytes) |-> f[i]]
  BY <1>1 DEF Decrypts
<1>3. IsSeq(f) /\ Len(f) = Len(bytes)
  BY <1>2, SeqShape, FunctionIsSeq
<1>4. \A i \in 1..Len(bytes) : Decrypts(d, bytes)[i] =
         Decrypted(d.key, d.iv, Len(d.fed) + i, bytes[i])
  BY DEF Decrypts
<1> QED
  BY <1>1, <1>3, <1>4

\* A call of update goes on with the same key, IV and tag.
LEMMA UpdateKeeps ==
    ASSUME NEW d, NEW bytes, Cipher(d), IsSeq(bytes), Update(d, bytes),
           IsSeq(decryptedChunks)
    PROVE  /\ Cipher(decipher') /\ decipher'.fed = d.fed \o bytes
           /\ decipher' = [d EXCEPT !.fed = decipher'.fed]
           /\ decipher'.key = d.key /\ decipher'.iv = d.iv /\ decipher'.tag = d.tag
           /\ decryptedChunks' = decryptedChunks \o Decrypts(d, bytes)
           /\ IsSeq(decryptedChunks')
<1>1. PICK fed : fed = d.fed \o bytes
  OBVIOUS
<1>2. decipher' = [d EXCEPT !.fed = fed]
  BY <1>1 DEF Update
<1>3. d = [key |-> d.key, iv |-> d.iv, tag |-> d.tag, fed |-> d.fed] /\ IsSeq(d.fed)
  BY DEF Cipher
<1>4. decipher' = [key |-> d.key, iv |-> d.iv, tag |-> d.tag, fed |-> fed]
  BY ONLY <1>2, <1>3
<1>5. IsSeq(fed)
  <2>1. IsSeq(d.fed) /\ IsSeq(bytes)
    BY <1>3
  <2> QED
    BY ONLY <2>1, <1>1, SeqConcat
<1>6. /\ decipher'.key = d.key /\ decipher'.iv = d.iv /\ decipher'.tag = d.tag
      /\ decipher'.fed = fed
  BY ONLY <1>4
<1>7. Cipher(decipher')
  BY ONLY <1>4, <1>5, <1>6 DEF Cipher
<1>8. decryptedChunks' = decryptedChunks \o Decrypts(d, bytes)
  BY DEF Update, Decrypts
<1>9. IsSeq(decryptedChunks')
  <2>1. PICK more : more = Decrypts(d, bytes)
    OBVIOUS
  <2>2. IsSeq(decryptedChunks) /\ IsSeq(more)
    BY <2>1, DecryptsIsSeq
  <2> QED
    BY ONLY <2>1, <2>2, <1>8, SeqConcat
<1> QED
  BY ONLY <1>1, <1>2, <1>6, <1>7, <1>8, <1>9

\* What a complete header gives is a decipher.
LEMMA ParsedIsCipher == \A buffer : Cipher(Parsed(buffer)) /\ Parsed(buffer).fed = <<>>
BY EmptyIsSeq DEF Cipher, Parsed

\* No call starts with anything but sequences.
LEMMA SeqInvInit ==
    ASSUME Init
    PROVE  SeqInv
<1>1. IsSeq(plain)
  <2>1. plain \in Seq(PlainBytes)
    BY CryptoAssumption DEF Init
  <2> QED
    BY <2>1 DEF IsSeq
<1>2. Cipher(decipher)
  BY EmptyIsSeq DEF Init, NoCipher, Cipher
<1> QED
  BY <1>1, <1>2, EmptyIsSeq DEF Init, SeqInv

\* A chunk of the dump is read.
LEMMA SourceRead ==
    ASSUME SeqInv, NEW n \in 1..Len(source)
    PROVE  /\ IsSeq(First(source, n)) /\ Len(First(source, n)) = n
           /\ \A i \in 1..n : First(source, n)[i] = source[i]
           /\ IsSeq(After(source, n)) /\ Len(After(source, n)) = Len(source) - n
           /\ \A i \in 1..(Len(source) - n) : After(source, n)[i] = source[n + i]
<1>1. IsSeq(source)
  BY DEF SeqInv
<1>2. Len(source) \in Nat /\ n \in 0..Len(source)
  BY <1>1, SeqShape
<1> QED
  BY <1>1, <1>2, SeqCut

\* A chunk of the artifact is read: what was unread is it and what is left.
LEMMA UnreadRead ==
    ASSUME SeqInv, DecryptChunk
    PROVE  \E chunk :
              /\ IsSeq(chunk) /\ IsSeq(unread') /\ chunk \o unread' = unread
              /\ IF decipher = NoCipher THEN Consume(chunk)
                 ELSE Update(decipher, chunk) /\ UNCHANGED headerBuffer
<1>1. PICK n \in 1..Len(unread) :
         /\ unread' = After(unread, n)
         /\ IF decipher = NoCipher THEN Consume(First(unread, n))
            ELSE Update(decipher, First(unread, n)) /\ UNCHANGED headerBuffer
  BY DEF DecryptChunk
<1>2. IsSeq(unread)
  BY DEF SeqInv
<1>3. Len(unread) \in Nat /\ n \in 0..Len(unread)
  BY <1>2, SeqShape
<1>4. /\ IsSeq(First(unread, n)) /\ IsSeq(After(unread, n))
      /\ First(unread, n) \o After(unread, n) = unread
  BY ONLY <1>2, <1>3, SeqCut
<1> QED
  BY <1>1, <1>4

\* The header becomes complete: what of it is beyond is decrypted at once.
LEMMA HeaderCompleted ==
    ASSUME SeqInv, NEW chunk, IsSeq(chunk), Consume(chunk)
    PROVE  /\ IsSeq(headerBuffer') /\ headerBuffer' = headerBuffer \o chunk
           /\ IF Len(headerBuffer') < HeaderLength
              THEN UNCHANGED <<decipher, decryptedChunks>>
              ELSE /\ IsSeq(After(headerBuffer', HeaderLength))
                   /\ Update(Parsed(headerBuffer'), After(headerBuffer', HeaderLength))
<1>1. headerBuffer' = headerBuffer \o chunk
  BY DEF Consume
<1>2. IsSeq(headerBuffer')
  <2>1. IsSeq(headerBuffer) /\ IsSeq(chunk)
    BY DEF SeqInv
  <2> QED
    BY ONLY <2>1, <1>1, SeqConcat
<1>3. CASE Len(headerBuffer') < HeaderLength
  BY <1>1, <1>2, <1>3 DEF Consume
<1>4. CASE ~(Len(headerBuffer') < HeaderLength)
  <2>1. HeaderLength \in 0..Len(headerBuffer')
    BY <1>4, <1>2, SeqShape, HeaderBounds
  <2>2. IsSeq(After(headerBuffer', HeaderLength))
    BY ONLY <1>2, <2>1, SeqCut
  <2> QED
    BY <1>1, <1>2, <1>4, <2>2 DEF Consume
<1> QED
  BY <1>3, <1>4

\* An artifact stays a sequence, whatever is done to it.
LEMMA DamageIsSeq ==
    ASSUME IsSeq(artifact), Damage
    PROVE  IsSeq(artifact')
<1>1. Len(artifact) \in Nat
  BY SeqShape
<1>2. ASSUME NEW n \in 0..(Len(artifact) - 1), artifact' = First(artifact, n)
      PROVE  IsSeq(artifact')
  <2>1. n \in 0..Len(artifact)
    BY <1>1
  <2> QED
    BY <2>1, <1>2, SeqCut
<1>3. CASE artifact' = Append(artifact, Noise)
  BY <1>3, SeqChanged
<1>4. ASSUME NEW i \in 1..Len(artifact), artifact' = [artifact EXCEPT ![i] = Noise]
      PROVE  IsSeq(artifact')
  BY <1>4, SeqChanged
<1> QED
  BY <1>2, <1>3, <1>4 DEF Damage

LEMMA SeqInvNext ==
    ASSUME SeqInv, [Next]_vars
    PROVE  SeqInv'
<1> USE DEF SeqInv
<1>1. CASE EncryptChunk
  <2>1. PICK n \in 1..Len(source) :
           /\ ciphertextChunks' = ciphertextChunks \o Encrypts(First(source, n))
           /\ source' = After(source, n)
    BY <1>1 DEF EncryptChunk
  <2>2. IsSeq(source') /\ IsSeq(Encrypts(First(source, n)))
    BY <2>1, SourceRead, EncryptsIsSeq
  <2>3. IsSeq(ciphertextChunks')
    <3>1. IsSeq(ciphertextChunks)
      OBVIOUS
    <3> QED
      BY ONLY <3>1, <2>1, <2>2, SeqConcat
  <2> QED
    BY <1>1, <2>2, <2>3 DEF EncryptChunk
<1>2. CASE EncryptFlush
  <2>1. IsSeq(artifact')
    BY <1>2, Written DEF EncryptFlush
  <2> QED
    BY <1>2, <2>1 DEF EncryptFlush, writeVars
<1>3. CASE Damage
  <2>1. IsSeq(artifact')
    BY <1>3, DamageIsSeq
  <2> QED
    BY <1>3, <2>1 DEF Damage, writeVars
<1>4. CASE Open
  BY <1>4 DEF Open, writeVars
<1>5. CASE DecryptChunk
  <2>1. PICK chunk :
           /\ IsSeq(chunk) /\ IsSeq(unread') /\ chunk \o unread' = unread
           /\ IF decipher = NoCipher THEN Consume(chunk)
              ELSE Update(decipher, chunk) /\ UNCHANGED headerBuffer
    BY <1>5, UnreadRead
  <2>2. IsSeq(headerBuffer') /\ Cipher(decipher') /\ IsSeq(decryptedChunks')
    <3>1. CASE decipher = NoCipher
      <4>1. /\ IsSeq(headerBuffer')
            /\ IF Len(headerBuffer') < HeaderLength
               THEN UNCHANGED <<decipher, decryptedChunks>>
               ELSE /\ IsSeq(After(headerBuffer', HeaderLength))
                    /\ Update(Parsed(headerBuffer'), After(headerBuffer', HeaderLength))
        BY <2>1, <3>1, HeaderCompleted
      <4>2. CASE Len(headerBuffer') < HeaderLength
        BY <4>1, <4>2
      <4>3. CASE ~(Len(headerBuffer') < HeaderLength)
        <5>1. Cipher(Parsed(headerBuffer'))
          BY ParsedIsCipher
        <5> QED
          BY <4>1, <4>3, <5>1, UpdateKeeps
      <4> QED
        BY <4>2, <4>3
    <3>2. CASE decipher # NoCipher
      BY <2>1, <3>2, UpdateKeeps
    <3> QED
      BY <3>1, <3>2
  <2> QED
    BY <1>5, <2>1, <2>2 DEF DecryptChunk, writeVars
<1>6. CASE DecryptFlush
  BY <1>6 DEF DecryptFlush, writeVars
<1>7. CASE UNCHANGED vars
  BY <1>7 DEF vars
<1> QED
  BY <1>1, <1>2, <1>3, <1>4, <1>5, <1>6, <1>7 DEF Next

----------------------------------------------------------------------------
(* The encrypting stream and the store *)

\* The initial state of all three.
LEMMA CryptoInvInit ==
    ASSUME Init, SeqInv
    PROVE  CryptoInv
<1>1. Len(ciphertextChunks) = 0 /\ Len(artifact) = 0 /\ Len(source) \in Nat
  BY EmptyIsSeq, SeqShape DEF Init, SeqInv
<1>2. WriteInv
  BY <1>1 DEF Init, WriteInv
<1>3. StoreInv
  BY <1>1, HeaderBounds DEF Init, StoreInv
<1>4. DecryptInv
  BY DEF Init, DecryptInv
<1> QED
  BY <1>2, <1>3, <1>4 DEF CryptoInv

\* The next chunk is encrypted as what comes at its place of the dump.
LEMMA EncryptChunkWrites ==
    ASSUME SeqInv, WriteInv, EncryptChunk
    PROVE  WriteInv'
<1>1. PICK n \in 1..Len(source) :
         /\ ciphertextChunks' = ciphertextChunks \o Encrypts(First(source, n))
         /\ source' = After(source, n)
  BY DEF EncryptChunk
<1>2. PICK chunk : chunk = First(source, n)
  OBVIOUS
<1>3. /\ IsSeq(chunk) /\ Len(chunk) = n
      /\ \A i \in 1..n : chunk[i] = source[i]
      /\ Len(source') = Len(source) - n
      /\ \A i \in 1..(Len(source) - n) : source'[i] = source[n + i]
  BY <1>1, <1>2, SourceRead
<1>4. PICK more : more = Encrypts(chunk)
  OBVIOUS
<1>5. /\ IsSeq(more) /\ Len(more) = n
      /\ \A i \in 1..n : more[i] =
            Encrypted(Key(passphrase, Salt), Iv, Len(ciphertextChunks) + i, chunk[i])
  BY <1>3, <1>4, EncryptsIsSeq
<1>6. /\ Len(ciphertextChunks') = Len(ciphertextChunks) + Len(more)
      /\ \A i \in 1..Len(ciphertextChunks) : ciphertextChunks'[i] = ciphertextChunks[i]
      /\ \A i \in 1..Len(more) :
            ciphertextChunks'[Len(ciphertextChunks) + i] = more[i]
  <2>1. IsSeq(ciphertextChunks) /\ IsSeq(more)
    BY <1>5 DEF SeqInv
  <2>2. ciphertextChunks' = ciphertextChunks \o more
    BY <1>1, <1>2, <1>4
  <2> QED
    BY ONLY <2>1, <2>2, SeqConcat
<1>7. Len(ciphertextChunks) \in Nat /\ Len(source) \in Nat /\ n \in Nat
  BY SeqShape DEF SeqInv
<1>8. /\ Len(ciphertextChunks) + Len(source) = Len(plain)
      /\ \A i \in 1..Len(ciphertextChunks) :
            ciphertextChunks[i] = Encrypted(Key(passphrase, Salt), Iv, i, plain[i])
      /\ \A i \in 1..Len(source) : source[i] = plain[Len(ciphertextChunks) + i]
      /\ phase = "encrypt" /\ plain' = plain /\ passphrase' = passphrase /\ phase' = phase
  BY DEF WriteInv, EncryptChunk
<1>9. Len(ciphertextChunks') + Len(source') = Len(plain')
  <2>1. Len(ciphertextChunks') = Len(ciphertextChunks) + n /\ Len(source') = Len(source) - n
    BY <1>3, <1>5, <1>6
  <2>2. (Len(ciphertextChunks) + n) + (Len(source) - n) = Len(ciphertextChunks) + Len(source)
    BY ONLY <1>7
  <2>3. Len(plain') = Len(plain) /\ Len(ciphertextChunks) + Len(source) = Len(plain)
    BY <1>8
  <2> QED
    BY ONLY <2>1, <2>2, <2>3
<1>10. ASSUME NEW i \in 1..Len(ciphertextChunks')
       PROVE  ciphertextChunks'[i] = Encrypted(Key(passphrase, Salt), Iv, i, plain[i])
  <2>1. CASE i <= Len(ciphertextChunks)
    BY <2>1, <1>6, <1>7, <1>8
  <2>2. CASE i > Len(ciphertextChunks)
    <3>1. PICK j \in 1..n : i = Len(ciphertextChunks) + j
      <4>1. i - Len(ciphertextChunks) \in 1..n
               /\ i = Len(ciphertextChunks) + (i - Len(ciphertextChunks))
        BY <2>2, <1>5, <1>6, <1>7
      <4> QED
        BY <4>1
    <3>2. j \in 1..Len(source) /\ j \in 1..Len(more)
      BY <1>5, <1>7
    <3>3. ciphertextChunks'[i] = more[j]
      BY <3>1, <3>2, <1>6
    <3>4. chunk[j] = plain[i]
      BY <3>1, <3>2, <1>3, <1>8
    <3> QED
      BY <3>1, <3>3, <3>4, <1>5
  <2> QED
    BY <2>1, <2>2, <1>6, <1>7
<1>11. ASSUME NEW i \in 1..Len(source')
       PROVE  source'[i] = plain[Len(ciphertextChunks') + i]
  <2>1. n + i \in 1..Len(source) /\ i \in 1..(Len(source) - n)
    BY <1>3, <1>7
  <2>2. Len(ciphertextChunks) + (n + i) = Len(ciphertextChunks') + i
    BY <1>5, <1>6, <1>7
  <2>3. source'[i] = plain[Len(ciphertextChunks) + (n + i)]
    BY <2>1, <1>3, <1>8
  <2> QED
    BY <2>2, <2>3
<1> QED
  BY <1>8, <1>9, <1>10, <1>11 DEF WriteInv, Key, Encrypted, Salt, Iv

\* Where a complete artifact holds the first byte of its tag.
LEMMA FirstTagByte ==
    ASSUME NEW s, IsSeq(s), Len(s) >= HeaderLength
    PROVE  SubSeq(s, 2 + SaltLength + IvLength, HeaderLength)[1] = s[TagAt]
<1>1. PICK m \in Nat : m = TagAt
  BY HeaderBounds
<1>2. PICK n \in Nat : n = HeaderLength
  BY HeaderBounds
<1>3. /\ m \in Nat \ {0} /\ n <= Len(s) /\ m <= n + 1 /\ 1 \in 1..(n - m + 1)
      /\ m + 1 - 1 = m /\ Len(s) \in Nat
  BY <1>1, <1>2, HeaderBounds, SeqShape
<1>4. SubSeq(s, m, n)[1] = s[m + 1 - 1]
  BY <1>3, SeqPart
<1> QED
  BY <1>1, <1>2, <1>3, <1>4 DEF TagAt

\* What is stored carries the tag of the whole dump.
LEMMA EncryptFlushStores ==
    ASSUME SeqInv, StoreInv, EncryptFlush
    PROVE  StoreInv'
<1>1. PICK tag : tag = TagOf(Key(passphrase, Salt), Iv, ciphertextChunks)
  OBVIOUS
<1>2. /\ IsSeq(artifact') /\ Len(artifact') = HeaderLength + Len(ciphertextChunks)
      /\ SubSeq(artifact', 2 + SaltLength + IvLength, HeaderLength) = tag
      /\ artifact' = Header(ciphertextChunks) \o ciphertextChunks
  BY <1>1, Written DEF EncryptFlush, SeqInv
<1>3. Len(ciphertextChunks) \in Nat
  BY SeqShape DEF SeqInv
<1>4. artifact'[TagAt] = tag[1]
  <2>1. Len(artifact') >= HeaderLength
    BY ONLY <1>2, <1>3, HeaderBounds
  <2> QED
    BY <2>1, <1>2, FirstTagByte
<1>5. /\ phase' = "stored" /\ UNCHANGED <<passphrase, ciphertextChunks>>
  BY DEF EncryptFlush, writeVars
<1>6. Header(ciphertextChunks)' = Header(ciphertextChunks)
         /\ TagOf(Key(passphrase, Salt), Iv, ciphertextChunks)' = tag
  BY <1>1, <1>5 DEF Header, TagOf, Key, Version, Salt, Iv
<1> QED
  BY <1>2, <1>4, <1>5, <1>6 DEF StoreInv

\* However an artifact is damaged, it gets no other first byte of a tag.
LEMMA DamageKeepsTagByte ==
    ASSUME SeqInv, StoreInv, Damage
    PROVE  StoreInv'
<1>1. PICK tag : tag = TagOf(Key(passphrase, Salt), Iv, ciphertextChunks)[1]
  OBVIOUS
<1>2. /\ phase = "stored" /\ ~damaged /\ damaged' /\ phase' = phase
      /\ UNCHANGED <<passphrase, ciphertextChunks>>
      /\ IsSeq(artifact) /\ IsSeq(ciphertextChunks)
  BY DEF Damage, writeVars, SeqInv
<1>3. artifact = Header(ciphertextChunks) \o ciphertextChunks
  BY <1>2 DEF StoreInv
<1>4. Len(artifact) \in Nat /\ Len(artifact) >= HeaderLength /\ Len(ciphertextChunks) \in Nat
  <2>1. Len(artifact) = HeaderLength + Len(ciphertextChunks)
    BY <1>2, <1>3, Written
  <2>2. Len(ciphertextChunks) \in Nat
    BY <1>2, SeqShape
  <2> QED
    BY ONLY <2>1, <2>2, HeaderBounds
<1>5. artifact[TagAt] \in {tag, Noise} /\ TagAt \in 1..Len(artifact)
  BY <1>1, <1>4, HeaderBounds DEF StoreInv
<1>6. Len(artifact') >= HeaderLength => artifact'[TagAt] \in {tag, Noise}
  <2>1. ASSUME NEW n \in 0..(Len(artifact) - 1), artifact' = First(artifact, n),
               Len(artifact') >= HeaderLength
        PROVE  artifact'[TagAt] = artifact[TagAt]
    <3>1. n \in 0..Len(artifact)
      BY <1>4
    <3>2. Len(artifact') = n /\ \A i \in 1..n : artifact'[i] = artifact[i]
      BY <3>1, <2>1, <1>2, SeqCut
    <3> QED
      BY <3>1, <3>2, <2>1, <1>4, HeaderBounds
  <2>2. CASE artifact' = Append(artifact, Noise)
    BY <2>2, <1>2, <1>5, SeqChanged
  <2>3. ASSUME NEW i \in 1..Len(artifact), artifact' = [artifact EXCEPT ![i] = Noise]
        PROVE  artifact'[TagAt] \in {artifact[TagAt], Noise}
    BY <2>3, <1>2, <1>5, SeqChanged
  <2> QED
    BY <2>1, <2>2, <2>3, <1>5 DEF Damage
<1>7. TagOf(Key(passphrase, Salt), Iv, ciphertextChunks)'[1] = tag
  BY <1>1, <1>2 DEF TagOf, Key, Salt, Iv
<1> QED
  BY <1>2, <1>6, <1>7 DEF StoreInv

----------------------------------------------------------------------------
(* The decrypting stream *)

\* A decipher that was made is told from none.
LEMMA ParsedIsSome ==
    ASSUME NEW d, NEW buffer, NEW fed, d = [Parsed(buffer) EXCEPT !.fed = fed]
    PROVE  d # NoCipher
<1>1. d.key = <<given, SubSeq(buffer, 2, 1 + SaltLength)>>
  BY DEF Parsed, Key
<1>2. NoCipher.key = <<>>
  BY DEF NoCipher
<1>3. <<given, SubSeq(buffer, 2, 1 + SaltLength)>> # <<>>
  OBVIOUS
<1> QED
  BY ONLY <1>1, <1>2, <1>3

\* What comes after a complete header leaves it as it is.
LEMMA HeaderIsPrefix ==
    ASSUME NEW a, NEW b, IsSeq(a), IsSeq(b), Len(a) >= HeaderLength
    PROVE  /\ Parsed(a \o b) = Parsed(a)
           /\ After(a \o b, HeaderLength) = After(a, HeaderLength) \o b
           /\ Len(a \o b) >= HeaderLength
<1>1. PICK ab : ab = a \o b
  OBVIOUS
<1>2. PICK hl \in Nat : hl = HeaderLength
  BY HeaderBounds
<1>3. /\ IsSeq(ab) /\ Len(ab) = Len(a) + Len(b)
      /\ \A i \in 1..Len(a) : ab[i] = a[i]
      /\ \A i \in 1..Len(b) : ab[Len(a) + i] = b[i]
  BY <1>1, SeqConcat
<1>4. Len(a) \in Nat /\ Len(b) \in Nat /\ Len(ab) \in Nat /\ hl <= Len(a) /\ hl <= Len(ab)
  <2>1. Len(a) \in Nat /\ Len(b) \in Nat
    BY SeqShape
  <2> QED
    BY ONLY <2>1, <1>2, <1>3, (Len(a) >= HeaderLength)
<1>5. ASSUME NEW m \in Nat \ {0}, NEW n \in Nat, m <= n + 1, n <= hl
      PROVE  SubSeq(ab, m, n) = SubSeq(a, m, n)
  <2>1. n <= Len(a) /\ n <= Len(ab)
    BY <1>4, <1>5
  <2>2. PICK k \in Nat : k = n - m + 1
    BY <1>5
  <2>3. PICK p1, p2 : p1 = SubSeq(ab, m, n) /\ p2 = SubSeq(a, m, n)
    OBVIOUS
  <2>4. IsSeq(p1) /\ Len(p1) = k /\ \A i \in 1..k : p1[i] = ab[m + i - 1]
    BY <1>3, <1>5, <2>1, <2>2, <2>3, SeqPart
  <2>5. IsSeq(p2) /\ Len(p2) = k /\ \A i \in 1..k : p2[i] = a[m + i - 1]
    BY <1>5, <2>1, <2>2, <2>3, SeqPart
  <2>6. ASSUME NEW i \in 1..k
        PROVE  p1[i] = p2[i]
    <3>1. m + i - 1 \in 1..Len(a)
      BY <1>4, <1>5, <2>1, <2>2
    <3> QED
      BY <3>1, <2>4, <2>5, <1>3
  <2>7. p1 = p2
    BY <2>4, <2>5, <2>6, SameSeq
  <2> QED
    BY <2>3, <2>7
<1>6. Parsed(ab) = Parsed(a)
  <2>1. /\ SubSeq(ab, 2, 1 + SaltLength) = SubSeq(a, 2, 1 + SaltLength)
        /\ SubSeq(ab, 2 + SaltLength, 1 + SaltLength + IvLength) =
              SubSeq(a, 2 + SaltLength, 1 + SaltLength + IvLength)
        /\ SubSeq(ab, 2 + SaltLength + IvLength, HeaderLength) =
              SubSeq(a, 2 + SaltLength + IvLength, HeaderLength)
    <3>1. /\ 2 \in Nat \ {0} /\ 1 + SaltLength \in Nat /\ 2 <= (1 + SaltLength) + 1
          /\ 1 + SaltLength <= hl /\ 2 + SaltLength \in Nat \ {0}
          /\ 1 + SaltLength + IvLength \in Nat
          /\ 2 + SaltLength <= (1 + SaltLength + IvLength) + 1
          /\ 1 + SaltLength + IvLength <= hl /\ 2 + SaltLength + IvLength \in Nat \ {0}
          /\ 2 + SaltLength + IvLength <= hl + 1 /\ hl <= hl
      BY ONLY <1>2, HeaderBounds
    <3> QED
      BY ONLY <3>1, <1>5, <1>2
  <2> QED
    BY <2>1 DEF Parsed
<1>7. After(ab, hl) = After(a, hl) \o b
  <2>1. PICK whole, part : whole = After(ab, hl) /\ part = After(a, hl)
    OBVIOUS
  <2>2. /\ IsSeq(whole) /\ Len(whole) = Len(ab) - hl
        /\ \A i \in 1..(Len(ab) - hl) : whole[i] = ab[hl + i]
    <3>1. hl \in 0..Len(ab) /\ IsSeq(ab)
      BY <1>3, <1>4
    <3> QED
      BY ONLY <3>1, <2>1, SeqCut
  <2>3. /\ IsSeq(part) /\ Len(part) = Len(a) - hl
        /\ \A i \in 1..(Len(a) - hl) : part[i] = a[hl + i]
    <3>1. hl \in 0..Len(a) /\ IsSeq(a)
      BY <1>4
    <3> QED
      BY ONLY <3>1, <2>1, SeqCut
  <2>4. Len(part) + Len(b) = Len(whole)
    BY <1>3, <1>4, <2>2, <2>3
  <2>5. ASSUME NEW i \in 1..Len(part)
        PROVE  part[i] = whole[i]
    <3>1. i \in 1..(Len(ab) - hl) /\ hl + i \in 1..Len(a)
      BY <1>3, <1>4, <2>3
    <3> QED
      BY <3>1, <2>2, <2>3, <1>3
  <2>6. ASSUME NEW i \in 1..Len(b)
        PROVE  b[i] = whole[Len(part) + i]
    <3>1. Len(part) + i \in 1..(Len(ab) - hl) /\ hl + (Len(part) + i) = Len(a) + i
      BY <1>3, <1>4, <2>3
    <3> QED
      BY <3>1, <2>2, <1>3
  <2>7. part \o b = whole
    BY <2>2, <2>3, <2>4, <2>5, <2>6, SeqJoined
  <2> QED
    BY <2>1, <2>7
<1> QED
  BY <1>1, <1>2, <1>4, <1>6, <1>7

\* What is decrypted goes on, byte by byte, with what was decrypted before.
LEMMA DecryptsOn ==
    ASSUME NEW d, NEW bytes, NEW done,
           Cipher(d), IsSeq(bytes), IsSeq(done), Len(done) = Len(d.fed),
           \A i \in 1..Len(d.fed) : done[i] = Decrypted(d.key, d.iv, i, d.fed[i])
    PROVE  /\ Len(done \o Decrypts(d, bytes)) = Len(d.fed \o bytes)
           /\ \A i \in 1..Len(d.fed \o bytes) :
                 (done \o Decrypts(d, bytes))[i] =
                     Decrypted(d.key, d.iv, i, (d.fed \o bytes)[i])
<1>1. PICK old : old = d.fed
  OBVIOUS
<1>2. PICK more : more = Decrypts(d, bytes)
  OBVIOUS
<1>3. IsSeq(old) /\ IsSeq(done) /\ IsSeq(bytes) /\ IsSeq(more)
  BY <1>1, <1>2, DecryptsIsSeq DEF Cipher
<1>4. /\ Len(more) = Len(bytes)
      /\ \A i \in 1..Len(bytes) : more[i] = Decrypted(d.key, d.iv, Len(old) + i, bytes[i])
  BY <1>1, <1>2, DecryptsIsSeq
<1>5. PICK all : all = done \o more
  OBVIOUS
<1>6. /\ Len(all) = Len(done) + Len(more)
      /\ \A i \in 1..Len(done) : all[i] = done[i]
      /\ \A i \in 1..Len(more) : all[Len(done) + i] = more[i]
  BY ONLY <1>3, <1>5, SeqConcat
<1>7. PICK fed : fed = old \o bytes
  OBVIOUS
<1>8. /\ Len(fed) = Len(old) + Len(bytes)
      /\ \A i \in 1..Len(old) : fed[i] = old[i]
      /\ \A i \in 1..Len(bytes) : fed[Len(old) + i] = bytes[i]
  BY ONLY <1>3, <1>7, SeqConcat
<1>9. Len(old) \in Nat /\ Len(bytes) \in Nat /\ Len(done) = Len(old)
  BY <1>1, <1>3, SeqShape
<1>10. \A i \in 1..Len(old) : done[i] = Decrypted(d.key, d.iv, i, old[i])
  BY <1>1
<1>11. ASSUME NEW i \in 1..Len(fed)
       PROVE  all[i] = Decrypted(d.key, d.iv, i, fed[i])
  <2>1. CASE i <= Len(old)
    <3>1. i \in 1..Len(old)
      BY <2>1, <1>8, <1>9
    <3> QED
      BY ONLY <3>1, <1>6, <1>8, <1>9, <1>10
  <2>2. CASE i > Len(old)
    <3>1. PICK j \in 1..Len(bytes) : i = Len(old) + j
      <4>1. i - Len(old) \in 1..Len(bytes) /\ i = Len(old) + (i - Len(old))
        BY <2>2, <1>8, <1>9
      <4> QED
        BY <4>1
    <3>2. all[i] = more[j] /\ fed[i] = bytes[j]
      BY ONLY <3>1, <1>4, <1>6, <1>8, <1>9
    <3> QED
      BY ONLY <3>1, <3>2, <1>4
  <2> QED
    BY <2>1, <2>2, <1>8, <1>9
<1>12. Len(all) = Len(fed)
  BY ONLY <1>4, <1>6, <1>8, <1>9
<1> QED
  BY ONLY <1>1, <1>2, <1>5, <1>7, <1>11, <1>12

\* A step that leaves the decrypting stream and what it reads alone
LEMMA DecryptAlone ==
    ASSUME DecryptInv,
           UNCHANGED <<given, artifact, unread, headerBuffer, decipher,
                       decryptedChunks, phase, out>>
    PROVE  DecryptInv'
BY DEF DecryptInv, StreamInv, Authentic, NoCipher, Parsed, Key, TagOf, Decrypted, After

\* Before the artifact is opened there is no decrypting stream.
LEMMA DecryptNotYet ==
    ASSUME DecryptInv, phase \in {"encrypt", "stored"}, phase' = "stored",
           UNCHANGED <<unread, headerBuffer, decipher, decryptedChunks, out>>
    PROVE  DecryptInv'
BY DEF DecryptInv, NoCipher

\* The decrypting stream starts before the first byte of the artifact.
LEMMA OpenStarts ==
    ASSUME SeqInv, DecryptInv, Open
    PROVE  DecryptInv'
<1>1. /\ phase = "stored" /\ phase' = "decrypt" /\ unread' = artifact
      /\ UNCHANGED <<artifact, headerBuffer, decipher, decryptedChunks, out>>
  BY DEF Open
<1>2. /\ headerBuffer = <<>> /\ decipher = NoCipher /\ decryptedChunks = <<>> /\ out = <<>>
  BY <1>1 DEF DecryptInv
<1>3. headerBuffer' \o unread' = artifact'
  <2>1. PICK S : artifact \in Seq(S)
    BY DEF SeqInv, IsSeq
  <2>2. <<>> \o artifact = artifact
    BY ONLY <2>1, ConcatEmptySeq
  <2> QED
    BY <2>2, <1>1, <1>2
<1>4. Len(headerBuffer') < HeaderLength
  BY <1>1, <1>2, EmptyIsSeq, HeaderBounds
<1>5. StreamInv'
  BY <1>1, <1>2, <1>3, <1>4 DEF StreamInv, NoCipher
<1> QED
  BY <1>1, <1>2, <1>5 DEF DecryptInv

\* A chunk that does not complete the header is kept.
LEMMA HeaderGrows ==
    ASSUME SeqInv, StreamInv, decipher = NoCipher, UNCHANGED artifact,
           NEW chunk, IsSeq(chunk), IsSeq(unread'), chunk \o unread' = unread,
           headerBuffer' = headerBuffer \o chunk
    PROVE  headerBuffer' \o unread' = artifact'
<1>1. PICK rest : rest = unread'
  OBVIOUS
<1>2. IsSeq(headerBuffer) /\ IsSeq(chunk) /\ IsSeq(rest)
  BY <1>1 DEF SeqInv
<1>3. (headerBuffer \o chunk) \o rest = headerBuffer \o (chunk \o rest)
  BY ONLY <1>2, SeqAssociative
<1>4. headerBuffer \o unread = artifact
  BY DEF StreamInv
<1> QED
  BY <1>1, <1>3, <1>4

\* The stream goes on: header, decipher and decrypted data agree with what of
\* the artifact was read.
LEMMA DecryptChunkReads ==
    ASSUME SeqInv, SeqInv', StreamInv, DecryptChunk
    PROVE  StreamInv'
<1>1. PICK chunk :
         /\ IsSeq(chunk) /\ IsSeq(unread') /\ chunk \o unread' = unread
         /\ IF decipher = NoCipher THEN Consume(chunk)
            ELSE Update(decipher, chunk) /\ UNCHANGED headerBuffer
  BY UnreadRead
<1>2. UNCHANGED <<artifact, given>> /\ NoCipher' = NoCipher
  BY DEF DecryptChunk, writeVars, NoCipher
<1>4. CASE decipher = NoCipher
  <2>1. /\ IsSeq(headerBuffer') /\ headerBuffer' = headerBuffer \o chunk
        /\ IF Len(headerBuffer') < HeaderLength
           THEN UNCHANGED <<decipher, decryptedChunks>>
           ELSE /\ IsSeq(After(headerBuffer', HeaderLength))
                /\ Update(Parsed(headerBuffer'), After(headerBuffer', HeaderLength))
    BY <1>1, <1>4, HeaderCompleted
  <2>2. headerBuffer' \o unread' = artifact'
    BY <1>1, <1>2, <1>4, <2>1, HeaderGrows
  <2>3. decryptedChunks = <<>>
    BY <1>4 DEF StreamInv
  <2>4. CASE Len(headerBuffer') < HeaderLength
    BY <2>1, <2>2, <2>3, <2>4, <1>2, <1>4 DEF StreamInv
  <2>5. CASE ~(Len(headerBuffer') < HeaderLength)
    <3>1. PICK buffer, rest : buffer = headerBuffer' /\ rest = unread'
      OBVIOUS
    <3>2. PICK d : d = Parsed(buffer)
      OBVIOUS
    <3>3. PICK bytes : bytes = After(buffer, HeaderLength)
      OBVIOUS
    <3>4. /\ IsSeq(buffer) /\ IsSeq(rest) /\ Len(buffer) >= HeaderLength
          /\ buffer \o rest = artifact' /\ IsSeq(bytes) /\ Update(d, bytes)
      <4>1. Len(buffer) \in Nat
        BY <2>1, <3>1, SeqShape
      <4> QED
        BY <4>1, <1>1, <2>1, <2>2, <2>5, <3>1, <3>2, <3>3, HeaderBounds
    <3>5. Cipher(d) /\ d.fed = <<>>
      BY <3>2, ParsedIsCipher
    <3>6. /\ decipher'.fed = d.fed \o bytes
          /\ decipher' = [d EXCEPT !.fed = decipher'.fed]
          /\ decipher'.key = d.key /\ decipher'.iv = d.iv
          /\ decryptedChunks' = decryptedChunks \o Decrypts(d, bytes)
      BY <3>4, <3>5, UpdateKeeps DEF SeqInv
    <3>7. /\ Parsed(artifact') = d /\ Len(artifact') >= HeaderLength
          /\ After(artifact', HeaderLength) = bytes \o rest
      <4>1. /\ Parsed(buffer \o rest) = Parsed(buffer)
            /\ After(buffer \o rest, HeaderLength) = After(buffer, HeaderLength) \o rest
            /\ Len(buffer \o rest) >= HeaderLength
        BY <3>4, HeaderIsPrefix
      <4> QED
        BY <4>1, <3>2, <3>3, <3>4
    <3>8. decipher'.fed = bytes
      <4>1. PICK S : bytes \in Seq(S)
        BY <3>4 DEF IsSeq
      <4>2. <<>> \o bytes = bytes
        BY ONLY <4>1, ConcatEmptySeq
      <4> QED
        BY <4>2, <3>5, <3>6
    <3>9. /\ Len(decryptedChunks') = Len(decipher'.fed)
          /\ \A i \in 1..Len(decipher'.fed) : decryptedChunks'[i] =
                Decrypted(decipher'.key, decipher'.iv, i, decipher'.fed[i])
      <4>1. PICK done, fed : done = decryptedChunks /\ fed = decipher'.fed
        OBVIOUS
      <4>2. /\ IsSeq(done) /\ Len(done) = Len(d.fed)
            /\ \A i \in 1..Len(d.fed) : done[i] = Decrypted(d.key, d.iv, i, d.fed[i])
            /\ fed = d.fed \o bytes
        BY <4>1, <2>3, <3>5, <3>6, EmptyIsSeq
      <4>3. /\ Len(done \o Decrypts(d, bytes)) = Len(d.fed \o bytes)
            /\ \A i \in 1..Len(d.fed \o bytes) :
                  (done \o Decrypts(d, bytes))[i] =
                      Decrypted(d.key, d.iv, i, (d.fed \o bytes)[i])
        <5>1. /\ Cipher(d) /\ IsSeq(bytes) /\ IsSeq(done) /\ Len(done) = Len(d.fed)
              /\ \A i \in 1..Len(d.fed) : done[i] = Decrypted(d.key, d.iv, i, d.fed[i])
          BY <3>4, <3>5, <4>2
        <5> QED
          BY ONLY <5>1, DecryptsOn
      <4> QED
        BY <4>1, <4>2, <4>3, <3>6
    <3>10. decipher' # NoCipher
      BY <3>2, <3>6, ParsedIsSome
    <3>11. decipher' = [Parsed(artifact') EXCEPT !.fed = decipher'.fed]
      BY <3>6, <3>7
    <3>12. decipher'.fed \o unread' = After(artifact', HeaderLength)
      BY <3>1, <3>7, <3>8
    <3>13. decipher' = [Parsed(artifact)' EXCEPT !.fed = decipher'.fed]
      BY <3>11, <1>2 DEF Parsed, Key
    <3> QED
      BY <3>7, <3>9, <3>10, <3>12, <3>13, <1>2 DEF StreamInv, Decrypted, After
  <2> QED
    BY <2>4, <2>5
<1>5. CASE decipher # NoCipher
  <2>1. Update(decipher, chunk) /\ UNCHANGED headerBuffer
    BY <1>1, <1>5
  <2>2. /\ Len(artifact) >= HeaderLength
        /\ decipher = [Parsed(artifact) EXCEPT !.fed = decipher.fed]
        /\ decipher.fed \o unread = After(artifact, HeaderLength)
        /\ Len(decryptedChunks) = Len(decipher.fed)
        /\ \A i \in 1..Len(decipher.fed) : decryptedChunks[i] =
              Decrypted(decipher.key, decipher.iv, i, decipher.fed[i])
    BY <1>5 DEF StreamInv
  <2>3. Cipher(decipher) /\ IsSeq(decryptedChunks)
    BY DEF SeqInv
  <2>4. /\ decipher'.fed = decipher.fed \o chunk
        /\ decipher' = [decipher EXCEPT !.fed = decipher'.fed]
        /\ decipher'.key = decipher.key /\ decipher'.iv = decipher.iv
        /\ decryptedChunks' = decryptedChunks \o Decrypts(decipher, chunk)
    BY <1>1, <2>1, <2>3, UpdateKeeps
  <2>5. decipher' = [Parsed(artifact) EXCEPT !.fed = decipher'.fed]
    <3>1. PICK d, fed : d = Parsed(artifact) /\ fed = decipher'.fed
      OBVIOUS
    <3>2. PICK old : old = decipher.fed
      OBVIOUS
    <3>3. decipher = [d EXCEPT !.fed = old] /\ decipher' = [decipher EXCEPT !.fed = fed]
      BY <3>1, <3>2, <2>2, <2>4
    <3>4. d = [key |-> d.key, iv |-> d.iv, tag |-> d.tag, fed |-> d.fed]
      BY <3>1, ParsedIsCipher DEF Cipher
    <3>5. decipher' = [d EXCEPT !.fed = fed]
      BY ONLY <3>3, <3>4
    <3> QED
      BY <3>1, <3>5
  <2>6. decipher' # NoCipher
    BY <2>5, ParsedIsSome
  <2>7. decipher'.fed \o unread' = After(artifact, HeaderLength)
    <3>1. PICK old, rest : old = decipher.fed /\ rest = unread'
      OBVIOUS
    <3>2. IsSeq(old) /\ IsSeq(chunk) /\ IsSeq(rest)
      BY <3>1, <1>1, <2>3 DEF Cipher
    <3>3. (old \o chunk) \o rest = old \o (chunk \o rest)
      BY ONLY <3>2, SeqAssociative
    <3> QED
      BY <3>1, <3>3, <1>1, <2>2, <2>4
  <2>8. /\ Len(decryptedChunks') = Len(decipher'.fed)
        /\ \A i \in 1..Len(decipher'.fed) : decryptedChunks'[i] =
              Decrypted(decipher'.key, decipher'.iv, i, decipher'.fed[i])
    <3>1. PICK d, done, fed : d = decipher /\ done = decryptedChunks /\ fed = decipher'.fed
      OBVIOUS
    <3>2. /\ Cipher(d) /\ IsSeq(chunk) /\ IsSeq(done) /\ Len(done) = Len(d.fed)
          /\ \A i \in 1..Len(d.fed) : done[i] = Decrypted(d.key, d.iv, i, d.fed[i])
          /\ fed = d.fed \o chunk
      BY <3>1, <1>1, <2>2, <2>3, <2>4
    <3>3. /\ Len(done \o Decrypts(d, chunk)) = Len(d.fed \o chunk)
          /\ \A i \in 1..Len(d.fed \o chunk) :
                (done \o Decrypts(d, chunk))[i] =
                    Decrypted(d.key, d.iv, i, (d.fed \o chunk)[i])
      <4>1. /\ Cipher(d) /\ IsSeq(chunk) /\ IsSeq(done) /\ Len(done) = Len(d.fed)
            /\ \A i \in 1..Len(d.fed) : done[i] = Decrypted(d.key, d.iv, i, d.fed[i])
        BY ONLY <3>2
      <4> QED
        BY ONLY <4>1, DecryptsOn
    <3> QED
      BY <3>1, <3>2, <3>3, <2>4
  <2>9. decipher' = [Parsed(artifact)' EXCEPT !.fed = decipher'.fed]
    BY <2>5, <1>2 DEF Parsed, Key
  <2> QED
    BY <2>2, <2>6, <2>7, <2>8, <2>9, <1>2 DEF StreamInv, Decrypted, After
<1> QED
  BY <1>4, <1>5

\* The flush decides by the tag alone.
LEMMA DecryptFlushDecides ==
    ASSUME SeqInv, DecryptInv, DecryptFlush
    PROVE  DecryptInv'
<1>1. /\ phase = "decrypt" /\ unread = <<>>
      /\ UNCHANGED <<given, artifact, unread, headerBuffer, decipher, decryptedChunks>>
  BY DEF DecryptFlush
<1>2. StreamInv /\ out = <<>>
  BY <1>1 DEF DecryptInv
<1>3. StreamInv' /\ NoCipher' = NoCipher /\ Authentic(decipher)' = Authentic(decipher)
  BY <1>1, <1>2 DEF StreamInv, NoCipher, Parsed, Key, Decrypted, After, Authentic, TagOf
<1>4. \/ /\ decipher # NoCipher /\ Authentic(decipher)
         /\ phase' = "ok" /\ out' = decryptedChunks
      \/ /\ ~(decipher # NoCipher /\ Authentic(decipher))
         /\ phase' = "failed" /\ out' = <<>>
  BY <1>2 DEF DecryptFlush
<1> HIDE DEF StreamInv, Authentic, NoCipher
<1> QED
  BY <1>1, <1>3, <1>4 DEF DecryptInv

LEMMA CryptoInvNext ==
    ASSUME SeqInv, SeqInv', CryptoInv, [Next]_vars
    PROVE  CryptoInv'
<1>0. WriteInv /\ StoreInv /\ DecryptInv
  BY DEF CryptoInv
<1>1. CASE EncryptChunk
  <2>1. WriteInv'
    BY <1>0, <1>1, EncryptChunkWrites
  <2>2. StoreInv'
    <3>1. /\ phase' = "encrypt" /\ artifact' = <<>> /\ ~damaged'
      BY <1>0, <1>1 DEF EncryptChunk, StoreInv
    <3>2. ~(Len(artifact') >= HeaderLength)
      BY <3>1, EmptyIsSeq, HeaderBounds
    <3> QED
      BY <3>1, <3>2 DEF StoreInv
  <2>3. DecryptInv'
    BY <1>0, <1>1, DecryptAlone DEF EncryptChunk
  <2> QED
    BY <2>1, <2>2, <2>3 DEF CryptoInv
<1>2. CASE EncryptFlush
  <2>1. WriteInv'
    BY <1>0, <1>2 DEF EncryptFlush, writeVars, WriteInv, Key, Encrypted, Salt, Iv
  <2>2. StoreInv'
    BY <1>0, <1>2, EncryptFlushStores
  <2>3. DecryptInv'
    BY <1>0, <1>2, DecryptNotYet DEF EncryptFlush
  <2> QED
    BY <2>1, <2>2, <2>3 DEF CryptoInv
<1>3. CASE Damage
  <2>1. WriteInv'
    BY <1>0, <1>3 DEF Damage, writeVars, WriteInv, Key, Encrypted, Salt, Iv
  <2>2. StoreInv'
    BY <1>0, <1>3, DamageKeepsTagByte
  <2>3. DecryptInv'
    BY <1>0, <1>3, DecryptNotYet DEF Damage
  <2> QED
    BY <2>1, <2>2, <2>3 DEF CryptoInv
<1>4. ASSUME phase # "encrypt", phase' \in {"decrypt", "ok", "failed"},
             UNCHANGED <<writeVars, artifact, damaged>>
      PROVE  WriteInv' /\ StoreInv'
  <2>1. WriteInv'
    BY <1>0, <1>4 DEF writeVars, WriteInv, Key, Encrypted, Salt, Iv
  <2>2. StoreInv'
    BY <1>0, <1>4 DEF writeVars, StoreInv, Header, Version, Key, TagOf, Salt, Iv
  <2> QED
    BY <2>1, <2>2
<1>5. CASE Open
  <2>1. WriteInv' /\ StoreInv'
    BY <1>4, <1>5 DEF Open
  <2>2. DecryptInv'
    BY <1>0, <1>5, OpenStarts
  <2> QED
    BY <2>1, <2>2 DEF CryptoInv
<1>6. CASE DecryptChunk
  <2>1. WriteInv' /\ StoreInv'
    BY <1>4, <1>6 DEF DecryptChunk
  <2>2. phase = "decrypt" /\ phase' = phase /\ out' = out
    BY <1>6 DEF DecryptChunk
  <2>3. StreamInv /\ out = <<>>
    BY <2>2, <1>0 DEF DecryptInv
  <2>4. StreamInv'
    BY <1>6, <2>3, DecryptChunkReads
  <2>5. DecryptInv'
    BY <2>2, <2>3, <2>4 DEF DecryptInv
  <2> QED
    BY <2>1, <2>5 DEF CryptoInv
<1>7. CASE DecryptFlush
  <2>1. WriteInv' /\ StoreInv'
    BY <1>4, <1>7 DEF DecryptFlush
  <2>2. DecryptInv'
    BY <1>0, <1>7, DecryptFlushDecides
  <2> QED
    BY <2>1, <2>2 DEF CryptoInv
<1>8. CASE UNCHANGED vars
  <2>1. WriteInv'
    BY <1>0, <1>8 DEF vars, WriteInv, Key, Encrypted, Salt, Iv
  <2>2. StoreInv'
    BY <1>0, <1>8 DEF vars, StoreInv, Header, Version, Key, TagOf, Salt, Iv
  <2>3. DecryptInv'
    BY <1>0, <1>8, DecryptAlone DEF vars
  <2> QED
    BY <2>1, <2>2, <2>3 DEF CryptoInv
<1> QED
  BY <1>1, <1>2, <1>3, <1>5, <1>6, <1>7, <1>8 DEF Next

\* The invariant holds in every state.
LEMMA CryptoInvHolds == Spec => [](SeqInv /\ CryptoInv)
<1>1. Init => SeqInv /\ CryptoInv
  BY SeqInvInit, CryptoInvInit
<1>2. (SeqInv /\ CryptoInv) /\ [Next]_vars => (SeqInv /\ CryptoInv)'
  BY SeqInvNext, CryptoInvNext
<1> QED
  BY <1>1, <1>2, PTL DEF Spec

----------------------------------------------------------------------------
(* What a tag that fits says *)

\* A fitting tag is the one that was written: by the bytes it holds, the
\* passphrase, the salt, the IV and the ciphertext are those of the dump.
LEMMA FittingTag ==
    ASSUME SeqInv, CryptoInv, phase = "ok"
    PROVE  /\ given = passphrase /\ Len(artifact) >= HeaderLength
           /\ SubSeq(artifact, 2, 1 + SaltLength) = Salt
           /\ SubSeq(artifact, 2 + SaltLength, 1 + SaltLength + IvLength) = Iv
           /\ SubSeq(artifact, 2 + SaltLength + IvLength, HeaderLength) =
                 TagOf(Key(passphrase, Salt), Iv, ciphertextChunks)
           /\ After(artifact, HeaderLength) = ciphertextChunks
           /\ decipher.key = Key(passphrase, Salt) /\ decipher.iv = Iv
           /\ decipher.fed = ciphertextChunks /\ out = decryptedChunks
<1>1. /\ decipher # NoCipher /\ Authentic(decipher) /\ StreamInv
      /\ unread = <<>> /\ out = decryptedChunks
  BY DEF CryptoInv, DecryptInv
<1>2. PICK key, iv, tag, fed : /\ key = decipher.key /\ iv = decipher.iv
                               /\ tag = decipher.tag /\ fed = decipher.fed
  OBVIOUS
<1>3. tag = TagOf(key, iv, fed)
  BY <1>1, <1>2 DEF Authentic
<1>4. /\ Len(artifact) >= HeaderLength
      /\ decipher = [Parsed(artifact) EXCEPT !.fed = decipher.fed]
      /\ decipher.fed \o unread = After(artifact, HeaderLength)
  BY <1>1 DEF StreamInv
<1>5. /\ key = Key(given, SubSeq(artifact, 2, 1 + SaltLength))
      /\ iv = SubSeq(artifact, 2 + SaltLength, 1 + SaltLength + IvLength)
      /\ tag = SubSeq(artifact, 2 + SaltLength + IvLength, HeaderLength)
  BY <1>2, <1>4 DEF Parsed
<1>6. artifact[TagAt] = Byte("tag", <<key, iv, fed>>, 1)
  <2>1. artifact[TagAt] = tag[1]
    BY <1>4, <1>5, FirstTagByte DEF SeqInv
  <2>2. TagOf(key, iv, fed)[1] = Byte("tag", <<key, iv, fed>>, 1)
    BY HeaderParts
  <2> QED
    BY <2>1, <2>2, <1>3
<1>7. artifact[TagAt] \in
         {Byte("tag", <<Key(passphrase, Salt), Iv, ciphertextChunks>>, 1), Noise}
  <2>1. TagOf(Key(passphrase, Salt), Iv, ciphertextChunks)[1] =
           Byte("tag", <<Key(passphrase, Salt), Iv, ciphertextChunks>>, 1)
    BY HeaderParts
  <2> QED
    BY <2>1, <1>4 DEF CryptoInv, StoreInv
<1>8. key = Key(passphrase, Salt) /\ iv = Iv /\ fed = ciphertextChunks
  BY <1>6, <1>7, TagByteTells
<1>9. given = passphrase /\ SubSeq(artifact, 2, 1 + SaltLength) = Salt
  <2>1. <<given, SubSeq(artifact, 2, 1 + SaltLength)>> = <<passphrase, Salt>>
    BY <1>5, <1>8 DEF Key
  <2> QED
    BY ONLY <2>1
<1>10. After(artifact, HeaderLength) = ciphertextChunks
  <2>1. PICK S : fed \in Seq(S)
    BY <1>2 DEF SeqInv, Cipher, IsSeq
  <2>2. fed \o <<>> = fed
    BY ONLY <2>1, ConcatEmptySeq
  <2> QED
    BY <2>2, <1>1, <1>2, <1>4, <1>8
<1> QED
  BY <1>1, <1>2, <1>3, <1>4, <1>5, <1>8, <1>9, <1>10

\* What a fitting tag lets out is the dump.
LEMMA DumpComesOut ==
    ASSUME SeqInv, CryptoInv, phase = "ok"
    PROVE  out = plain
<1>1. /\ decipher.key = Key(passphrase, Salt) /\ decipher.iv = Iv
      /\ decipher.fed = ciphertextChunks /\ out = decryptedChunks
  BY FittingTag
<1>2. StreamInv /\ decipher # NoCipher
  BY DEF CryptoInv, DecryptInv
<1>3. /\ Len(out) = Len(ciphertextChunks)
      /\ \A i \in 1..Len(ciphertextChunks) : out[i] =
            Decrypted(Key(passphrase, Salt), Iv, i, ciphertextChunks[i])
  BY <1>1, <1>2 DEF StreamInv
<1>4. /\ source = <<>> /\ Len(ciphertextChunks) + Len(source) = Len(plain)
      /\ \A i \in 1..Len(ciphertextChunks) :
            ciphertextChunks[i] = Encrypted(Key(passphrase, Salt), Iv, i, plain[i])
  BY DEF CryptoInv, WriteInv
<1>5. IsSeq(plain) /\ IsSeq(out) /\ Len(plain) \in Nat /\ Len(ciphertextChunks) \in Nat
  BY <1>1, SeqShape DEF SeqInv
<1>6. Len(ciphertextChunks) = Len(plain)
  <2>1. Len(source) = 0
    BY <1>4, EmptyIsSeq
  <2> QED
    BY ONLY <2>1, <1>4, <1>5
<1>7. ASSUME NEW i \in 1..Len(plain)
      PROVE  out[i] = plain[i]
  <2>1. out[i] = Decrypted(Key(passphrase, Salt), Iv, i,
                           Encrypted(Key(passphrase, Salt), Iv, i, plain[i]))
    BY <1>3, <1>4, <1>6
  <2>2. \A key, iv, byte : Decrypted(key, iv, i, Encrypted(key, iv, i, byte)) = byte
    BY DEF Decrypted, Encrypted, Byte
  <2> QED
    BY <2>1, <2>2
<1>8. Len(out) = Len(plain)
  BY <1>3, <1>6
<1> QED
  BY ONLY <1>5, <1>7, <1>8, SameSeq

\* The whole of an intact artifact, opened with its passphrase, fits its tag.
LEMMA IntactFits ==
    ASSUME SeqInv, CryptoInv, phase \in {"ok", "failed"}, ~damaged, given = passphrase
    PROVE  phase = "ok"
<1>1. PICK c, tag : /\ c = ciphertextChunks
                    /\ tag = TagOf(Key(passphrase, Salt), Iv, c)
  OBVIOUS
<1>2. artifact = Header(c) \o c
  BY <1>1 DEF CryptoInv, StoreInv
<1>3. /\ Len(artifact) = HeaderLength + Len(c)
      /\ SubSeq(artifact, 2, 1 + SaltLength) = Salt
      /\ SubSeq(artifact, 2 + SaltLength, 1 + SaltLength + IvLength) = Iv
      /\ SubSeq(artifact, 2 + SaltLength + IvLength, HeaderLength) = tag
      /\ After(artifact, HeaderLength) = c
  BY <1>1, <1>2, Written DEF SeqInv
<1>4. StreamInv /\ unread = <<>>
  BY DEF CryptoInv, DecryptInv
<1>5. decipher # NoCipher
  <2>1. SUFFICES ASSUME decipher = NoCipher
                 PROVE  FALSE
    OBVIOUS
  <2>2. headerBuffer \o <<>> = artifact /\ Len(headerBuffer) < HeaderLength
    BY <2>1, <1>4 DEF StreamInv
  <2>3. PICK S : headerBuffer \in Seq(S)
    BY DEF SeqInv, IsSeq
  <2>4. headerBuffer = artifact
    BY <2>2, <2>3, ConcatEmptySeq
  <2>5. Len(c) \in Nat
    BY <1>1, SeqShape DEF SeqInv
  <2> QED
    BY <2>2, <2>4, <2>5, <1>3, HeaderBounds
<1>6. /\ decipher = [Parsed(artifact) EXCEPT !.fed = decipher.fed]
      /\ decipher.fed \o <<>> = c
  BY <1>3, <1>4, <1>5 DEF StreamInv
<1>7. decipher.fed = c
  <2>1. PICK S : decipher.fed \in Seq(S)
    BY DEF SeqInv, Cipher, IsSeq
  <2>2. decipher.fed \o <<>> = decipher.fed
    BY ONLY <2>1, ConcatEmptySeq
  <2> QED
    BY <2>2, <1>6
<1>8. decipher.key = Key(passphrase, Salt) /\ decipher.iv = Iv /\ decipher.tag = tag
  BY <1>3, <1>6 DEF Parsed
<1>9. Authentic(decipher)
  BY <1>1, <1>7, <1>8 DEF Authentic
<1> QED
  BY <1>5, <1>9 DEF CryptoInv, DecryptInv

\* A fitting tag vouches for the whole artifact but its version byte.
LEMMA NothingElseFits ==
    ASSUME SeqInv, CryptoInv, phase = "ok"
    PROVE  After(artifact, 1) = After(Header(ciphertextChunks) \o ciphertextChunks, 1)
<1>1. PICK c, x, tag : /\ c = ciphertextChunks /\ x = Header(c) \o c
                       /\ tag = TagOf(Key(passphrase, Salt), Iv, c)
  OBVIOUS
<1>2. /\ IsSeq(x) /\ Len(x) = HeaderLength + Len(c)
      /\ SubSeq(x, 2, 1 + SaltLength) = Salt
      /\ SubSeq(x, 2 + SaltLength, 1 + SaltLength + IvLength) = Iv
      /\ SubSeq(x, 2 + SaltLength + IvLength, HeaderLength) = tag
      /\ After(x, HeaderLength) = c
  BY <1>1, Written DEF SeqInv
<1>3. Len(x) >= HeaderLength
  <2>1. Len(c) \in Nat
    BY <1>1, SeqShape DEF SeqInv
  <2> QED
    BY ONLY <2>1, <1>2, HeaderBounds
<1>4. After(x, 1) = ((Salt \o Iv) \o tag) \o c
  BY <1>2, <1>3, PartsTell
<1>5. /\ IsSeq(artifact) /\ Len(artifact) >= HeaderLength
      /\ SubSeq(artifact, 2, 1 + SaltLength) = Salt
      /\ SubSeq(artifact, 2 + SaltLength, 1 + SaltLength + IvLength) = Iv
      /\ SubSeq(artifact, 2 + SaltLength + IvLength, HeaderLength) = tag
      /\ After(artifact, HeaderLength) = c
  BY <1>1, FittingTag DEF SeqInv
<1>6. After(artifact, 1) = ((Salt \o Iv) \o tag) \o c
  BY <1>5, PartsTell
<1> QED
  BY <1>1, <1>4, <1>6

----------------------------------------------------------------------------
(* The theorems *)

\* Nothing but the whole dump ever comes out of the decrypting stream
\* (backupCrypto.js createDecryptStream), whatever the artifact has become.
THEOREM CryptoOnlyTheDump == Spec => []OnlyTheDump
<1>1. SeqInv /\ CryptoInv => OnlyTheDump
  <2>1. ASSUME SeqInv, CryptoInv, out # <<>>
        PROVE  phase = "ok"
    BY <2>1 DEF CryptoInv, DecryptInv
  <2> QED
    BY <2>1, DumpComesOut DEF OnlyTheDump
<1> QED
  BY <1>1, CryptoInvHolds, PTL

\* What createEncryptStream wrote, createDecryptStream reads with the same
\* passphrase, however both were given their data.
THEOREM CryptoIntactIsReadable == Spec => []IntactIsReadable
<1>1. SeqInv /\ CryptoInv => IntactIsReadable
  BY IntactFits, DumpComesOut DEF IntactIsReadable
<1> QED
  BY <1>1, CryptoInvHolds, PTL

\* A decryption that succeeds had the passphrase of the job and every byte
\* that was written but, perhaps, the version.
THEOREM CryptoDamageIsFound == Spec => []DamageIsFound
<1>1. SeqInv /\ CryptoInv => DamageIsFound
  BY FittingTag, NothingElseFits DEF DamageIsFound
<1> QED
  BY <1>1, CryptoInvHolds, PTL
================================================================================
