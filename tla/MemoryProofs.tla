----------------------------- MODULE MemoryProofs -----------------------------
(***************************************************************************)
(* Proofs about Memory, for any blocks, variables and sizes: who owns the  *)
(* blocks, the one function that leads a careful caller past a block, what *)
(* the loops over bytes compute, and that no call loses or changes bytes   *)
(* that it should keep.                                                    *)
(***************************************************************************)
EXTENDS Memory, Loops, SequenceTheorems

-----------------------------------------------------------------------------
(* Bytes: what the loops compute, for blocks of any size *)

\* A block's bytes are a sequence of its length, and the other way about.
LEMMA ContentsSeq ==
  ASSUME NEW l \in Nat, NEW m \in Contents(l)
  PROVE  m \in Seq(Byte) /\ Len(m) = l /\ DOMAIN m = 1 .. l
  <1>1. m = [i \in 1 .. l |-> m[i]] /\ \A i \in 1 .. l : m[i] \in Byte
    BY DEF Contents
  <1>2. m \in Seq(Byte)
    BY <1>1
  <1>3. DOMAIN m = 1 .. l /\ DOMAIN m = 1 .. Len(m) /\ Len(m) \in Nat
    BY <1>1, <1>2, LenProperties
  <1> QED
    BY <1>2, <1>3

LEMMA SeqContents ==
  ASSUME NEW m \in Seq(Byte)
  PROVE  Len(m) \in Nat /\ m \in Contents(Len(m))
  BY LenProperties DEF Contents

LEMMA CopyBytes ==
  ASSUME NEW l \in Nat, NEW dst \in Contents(l), NEW k \in Nat, NEW src \in Contents(k),
         NEW i \in Int, NEW j \in Nat \ {0}, NEW n \in Nat, j + n - 1 <= k
  PROVE  fossil_sys_memory_copy(dst, i, src, j, n) \in Contents(l)
  <1>1. ASSUME NEW x \in 1 .. l
        PROVE  (IF x \in i .. i + n - 1 THEN src[j + x - i] ELSE dst[x]) \in Byte
    <2>1. CASE x \in i .. i + n - 1
      <3>1. j + x - i \in 1 .. k
        BY <2>1
      <3> QED
        BY <2>1, <3>1 DEF Contents
    <2> QED
      BY <2>1 DEF Contents
  <1>2. DOMAIN dst = 1 .. l
    BY DEF Contents
  <1> QED
    BY <1>1, <1>2 DEF fossil_sys_memory_copy, Contents

LEMMA SetBytes ==
  ASSUME NEW l \in Nat, NEW m \in Contents(l), NEW value \in Int, NEW n \in Nat
  PROVE  fossil_sys_memory_set(m, value, n) \in Contents(l)
  <1>1. ToByte(value) \in Byte
    BY MemoryAssumption DEF ToByte, Byte
  <1> QED
    BY <1>1 DEF fossil_sys_memory_set, Contents

\* The loop of secure_zero writes what zero writes.
LEMMA SecureZeroIsZero ==
  ASSUME NEW l \in Nat, NEW m \in Contents(l), NEW n \in 0 .. l
  PROVE  fossil_sys_memory_secure_zero(m, n) = fossil_sys_memory_zero(m, n)
  <1> DEFINE S == Contents(l)
             round(s, k) == [s EXCEPT ![k] = 0]
             step == [k \in 1 .. n |-> [s \in S |-> round(s, k)]]
             F(f) == f = [k \in 0 .. n |-> IF k = 0 THEN m ELSE round(f[k - 1], k)]
             z == CHOOSE f : F(f)
             Zeroed(k) == [i \in 1 .. l |-> IF i <= k THEN 0 ELSE m[i]]
             Right == {k \in 0 .. n : z[k] = Zeroed(k)}
  <1>1. 0 \in Byte /\ n \in Nat /\ m \in S
    BY MemoryAssumption DEF Byte
  <1>2. step \in [1 .. n -> [S -> S]]
    BY <1>1 DEF Contents
  <1> HIDE DEF S
  <1>3. PICK f \in [0 .. n -> S] : IsRun(f, m, n, step)
    <2> HIDE DEF step
    <2> QED
      BY <1>1, <1>2, Recursion
  <1>4. F(f)
    <2> HIDE DEF round
    <2>1. ASSUME NEW k \in 1 .. n PROVE f[k] = round(f[k - 1], k)
      <3>1. f[k] = step[k][f[k - 1]] /\ f[k - 1] \in S
        <4> HIDE DEF step
        <4> QED
          BY <1>3 DEF IsRun
      <3> QED
        BY <3>1
    <2>2. f[0] = m
      BY <1>3 DEF IsRun
    <2> QED
      BY <1>3, <2>1, <2>2
  <1>5. F(z)
    BY <1>4, Zenon
  <1> HIDE DEF z
  <1>6. 0 \in Right
    BY <1>5 DEF S, Contents
  <1>7. ASSUME NEW k \in 0 .. n - 1, k \in Right PROVE k + 1 \in Right
    <2>1. z[k + 1] = round(z[k], k + 1)
      <3> HIDE DEF round
      <3> QED
        BY <1>5
    <2>2. z[k] = Zeroed(k)
      BY <1>7
    <2>3. round(Zeroed(k), k + 1) = Zeroed(k + 1)
      <3>1. k \in Int /\ k + 1 \in 1 .. l
        OBVIOUS
      <3>2. ASSUME NEW i \in 1 .. l PROVE round(Zeroed(k), k + 1)[i] = Zeroed(k + 1)[i]
        BY <3>1
      <3> QED
        BY <3>1, <3>2
    <2> HIDE DEF round, Zeroed
    <2> QED
      BY <2>1, <2>2, <2>3
  <1>8. n \in Right
    <2> HIDE DEF Right
    <2>1. 0 .. n \subseteq Right
      BY <1>1, <1>6, <1>7, Induct
    <2> QED
      BY <1>1, <2>1
  <1>9. fossil_sys_memory_secure_zero(m, n) = z[n]
    BY DEF fossil_sys_memory_secure_zero, z
  <1>10. ToByte(0) = 0 /\ DOMAIN m = 1 .. l
    BY MemoryAssumption DEF ToByte, Contents
  <1> QED
    BY <1>8, <1>9, <1>10 DEF fossil_sys_memory_zero, fossil_sys_memory_set

\* m with the pattern p repeated over its first x bytes.
Filled(m, p, x) ==
  [i \in DOMAIN m |-> IF i <= x THEN p[((i - 1) % Len(p)) + 1] ELSE m[i]]

LEMMA FilledBytes ==
  ASSUME NEW l \in Nat, NEW m \in Contents(l), NEW q \in Nat \ {0}, NEW p \in Contents(q),
         NEW x \in Nat
  PROVE  Filled(m, p, x) \in Contents(l)
  <1>1. DOMAIN m = 1 .. l /\ Len(p) = q
    BY ContentsSeq
  <1>2. ASSUME NEW i \in 1 .. l PROVE p[((i - 1) % q) + 1] \in Byte
    <2>1. ((i - 1) % q) + 1 \in 1 .. q
      BY DivMod
    <2> QED
      BY <2>1 DEF Contents
  <1> QED
    BY <1>1, <1>2 DEF Filled, Contents

\* The next bytes of the pattern, after k of it.
LEMMA FillMore ==
  ASSUME NEW l \in Nat, NEW m \in Contents(l), NEW q \in Nat \ {0}, NEW p \in Contents(q),
         NEW k \in Nat, NEW j \in 0 .. q, k * q + j <= l
  PROVE  fossil_sys_memory_copy(Filled(m, p, k * q), k * q + 1, p, 1, j)
           = Filled(m, p, k * q + j)
  <1> DEFINE o == k * q
  <1>1. o \in Nat
    OBVIOUS
  <1>2. \A r \in 0 .. q - 1 : (o + r) % q = r
    BY ModOf
  <1> HIDE DEF o
  <1>3. DOMAIN m = 1 .. l /\ Len(p) = q
    BY ContentsSeq
  <1>4. ASSUME NEW i \in o + 1 .. o + j PROVE ((i - 1) % q) + 1 = i - o
    <2>1. i - 1 - o \in 0 .. q - 1 /\ o + (i - 1 - o) = i - 1
      BY <1>1
    <2> QED
      BY <1>1, <1>2, <2>1
  <1>5. fossil_sys_memory_copy(Filled(m, p, o), o + 1, p, 1, j) = Filled(m, p, o + j)
    BY <1>1, <1>3, <1>4 DEF fossil_sys_memory_copy, Filled
  <1> QED
    BY <1>5 DEF o

\* The loop of fill repeats the pattern and cuts it at the end.
LEMMA FillIsPattern ==
  ASSUME NEW l \in Nat, NEW m \in Contents(l), NEW q \in Nat \ {0}, NEW p \in Contents(q),
         NEW total \in 0 .. l
  PROVE  fossil_sys_memory_fill(m, p, total) = Filled(m, p, total)
  <1> DEFINE S == Contents(l)
             n == Len(p)
             d == total \div n
             round(s, k) == fossil_sys_memory_copy(s, (k - 1) * n + 1, p, 1, n)
             step == [k \in 1 .. d |-> [s \in S |-> round(s, k)]]
             F(f) == f = [k \in 0 .. d |-> IF k = 0 THEN m ELSE round(f[k - 1], k)]
             z == CHOOSE f : F(f)
             Right == {k \in 0 .. d : z[k] = Filled(m, p, k * n)}
  <1>1. n = q /\ n \in Nat \ {0} /\ m \in S
    BY ContentsSeq
  <1>2. d \in Nat /\ d * n \in Nat /\ d * n <= total /\ total - d * n \in 0 .. n - 1
    <2> HIDE DEF n
    <2>1. d \in Nat /\ total % n \in 0 .. n - 1 /\ total = d * n + (total % n)
      <3>1. total \in Nat
        OBVIOUS
      <3> QED
        BY <1>1, <3>1, DivMod
    <2> HIDE DEF d
    <2>2. d * n \in Nat
      BY <1>1, <2>1
    <2> QED
      BY <2>1, <2>2
  <1>3. fossil_sys_memory_fill(m, p, total)
          = fossil_sys_memory_copy(z[d], d * n + 1, p, 1, total - d * n)
    BY DEF fossil_sys_memory_fill, z
  <1> HIDE DEF n, d
  <1>4. step \in [1 .. d -> [S -> S]]
    <2>1. ASSUME NEW k \in 1 .. d, NEW s \in S PROVE round(s, k) \in S
      <3>1. (k - 1) * n + 1 \in Int
        BY <1>1, <1>2
      <3> QED
        BY <1>1, <3>1, CopyBytes
    <2> HIDE DEF round, S
    <2> QED
      BY <2>1
  <1> HIDE DEF S
  <1>5. PICK f \in [0 .. d -> S] : IsRun(f, m, d, step)
    <2> HIDE DEF step
    <2> QED
      BY <1>1, <1>2, <1>4, Recursion
  <1>6. F(f)
    <2> HIDE DEF round
    <2>1. ASSUME NEW k \in 1 .. d PROVE f[k] = round(f[k - 1], k)
      <3>1. f[k] = step[k][f[k - 1]] /\ f[k - 1] \in S
        <4> HIDE DEF step
        <4> QED
          BY <1>2, <1>5 DEF IsRun
      <3> QED
        BY <3>1
    <2>2. f[0] = m
      BY <1>5 DEF IsRun
    <2> QED
      BY <1>2, <1>5, <2>1, <2>2
  <1>7. F(z)
    BY <1>6, Zenon
  <1> HIDE DEF z
  <1>8. 0 \in Right
    <2>1. z[0] = m
      <3> HIDE DEF round
      <3> QED
        BY <1>2, <1>7
    <2>2. Filled(m, p, 0) = m /\ 0 * n = 0
      BY <1>1 DEF Filled, Contents
    <2> QED
      BY <1>2, <2>1, <2>2
  <1>9. ASSUME NEW k \in 0 .. d - 1, k \in Right PROVE k + 1 \in Right
    <2>1. z[k + 1] = round(z[k], k + 1)
      <3> HIDE DEF round
      <3> QED
        BY <1>2, <1>7
    <2>2. z[k] = Filled(m, p, k * n) /\ k \in Nat /\ k + 1 - 1 = k /\ k + 1 \in 0 .. d
      BY <1>2, <1>9
    <2>3. (k + 1) * n = k * n + n /\ (k + 1) * n <= d * n
      BY <1>1, <1>2
    <2>4. fossil_sys_memory_copy(Filled(m, p, k * n), k * n + 1, p, 1, n)
            = Filled(m, p, k * n + n)
      BY <1>1, <1>2, <2>2, <2>3, FillMore
    <2>5. z[k + 1] = Filled(m, p, (k + 1) * n)
      BY <2>1, <2>2, <2>3, <2>4
    <2> QED
      BY <2>2, <2>5
  <1>10. d \in Right
    <2> HIDE DEF Right
    <2>1. 0 .. d \subseteq Right
      BY <1>2, <1>8, <1>9, Induct
    <2> QED
      BY <1>2, <2>1
  <1>11. fossil_sys_memory_copy(Filled(m, p, d * n), d * n + 1, p, 1, total - d * n)
           = Filled(m, p, total)
    BY <1>1, <1>2, FillMore
  <1> QED
    BY <1>3, <1>10, <1>11

\* What the k-th round of swap does: two bytes of s change places.
Swapped(s, i, j) == [s EXCEPT ![i] = s[j], ![j] = s[i]]

\* z is the loop of swap, round by round.
SwapRun(z, m, a, b, n) == /\ z[0] = m
                          /\ \A k \in 1 .. n : z[k] = Swapped(z[k - 1], a + k - 1, b + k - 1)
                          /\ fossil_sys_memory_swap(m, a, b, n) = z[n]

LEMMA SwapRuns ==
  ASSUME NEW l \in Nat, NEW m \in Contents(l), NEW n \in Nat, NEW a \in 1 .. l, NEW b \in 1 .. l,
         a + n - 1 <= l, b + n - 1 <= l
  PROVE  \E z \in [0 .. n -> Contents(l)] : SwapRun(z, m, a, b, n)
  <1> DEFINE S == Contents(l)
             round(s, k) == [s EXCEPT ![a + k - 1] = s[b + k - 1], ![b + k - 1] = s[a + k - 1]]
             step == [k \in 1 .. n |-> [s \in S |-> round(s, k)]]
             F(f) == f = [k \in 0 .. n |-> IF k = 0 THEN m ELSE round(f[k - 1], k)]
             z == CHOOSE f : F(f)
  <1>1. fossil_sys_memory_swap(m, a, b, n) = z[n]
    BY DEF fossil_sys_memory_swap, z
  <1>2. step \in [1 .. n -> [S -> S]] /\ m \in S
    <2>1. ASSUME NEW k \in 1 .. n, NEW s \in S PROVE round(s, k) \in S
      <3>1. a + k - 1 \in 1 .. l /\ b + k - 1 \in 1 .. l
        OBVIOUS
      <3> DEFINE i == a + k - 1
                 j == b + k - 1
      <3> HIDE DEF i, j
      <3>2. i \in 1 .. l /\ j \in 1 .. l
        BY <3>1 DEF i, j
      <3>3. [s EXCEPT ![i] = s[j], ![j] = s[i]] \in S
        BY <3>2 DEF Contents
      <3> QED
        BY <3>3 DEF i, j
    <2> HIDE DEF round, S
    <2>2. step \in [1 .. n -> [S -> S]]
      BY <2>1
    <2> QED
      BY <2>2 DEF S
  <1> HIDE DEF S
  <1>3. PICK f \in [0 .. n -> S] : IsRun(f, m, n, step)
    <2> HIDE DEF step
    <2> QED
      BY <1>2, Recursion
  <1>4. ASSUME NEW k \in 1 .. n PROVE f[k] = round(f[k - 1], k)
    <2> HIDE DEF round
    <2>1. f[k] = step[k][f[k - 1]] /\ f[k - 1] \in S
      <3> HIDE DEF step
      <3> QED
        BY <1>3 DEF IsRun
    <2> QED
      BY <2>1
  <1>5. f[0] = m
    BY <1>3 DEF IsRun
  <1>6. F(f)
    <2> HIDE DEF round
    <2> QED
      BY <1>3, <1>4, <1>5
  <1>7. F(z)
    BY <1>6, Zenon
  <1> HIDE DEF z
  <1>8. z[0] = m /\ \A k \in 1 .. n : z[k] = round(z[k - 1], k)
    <2> HIDE DEF round
    <2> QED
      BY <1>7
  <1>9. z \in [0 .. n -> S]
    <2> DEFINE T == {k \in 0 .. n : z[k] \in S}
    <2>1. 0 \in T
      BY <1>2, <1>8
    <2>2. ASSUME NEW k \in 0 .. n - 1, k \in T PROVE k + 1 \in T
      <3>1. k + 1 \in 1 .. n /\ k + 1 - 1 = k /\ z[k] \in S
        BY <2>2
      <3>2. z[k + 1] = step[k + 1][z[k]]
        <4> HIDE DEF round
        <4> QED
          BY <1>8, <3>1
      <3> HIDE DEF step
      <3>3. step[k + 1][z[k]] \in S
        BY <1>2, <3>1
      <3> QED
        BY <3>1, <3>2, <3>3
    <2> HIDE DEF T
    <2>3. 0 .. n \subseteq T
      BY <2>1, <2>2, Induct
    <2>4. \A k \in 0 .. n : z[k] \in S
      BY <2>3 DEF T
    <2> QED
      BY <1>7, <2>4
  <1> QED
    <2> HIDE DEF S
    <2>1. SwapRun(z, m, a, b, n)
      BY <1>1, <1>8 DEF SwapRun, Swapped
    <2> QED
      BY <1>9, <2>1 DEF S

\* m of l bytes with k bytes from a on and from b on exchanged.
Exchanged(m, a, b, k, l) ==
  [i \in 1 .. l |-> IF i \in a .. a + k - 1 THEN m[i - a + b]
                    ELSE IF i \in b .. b + k - 1 THEN m[i - b + a] ELSE m[i]]

\* Two regions of which the first ends before the second begins are exchanged.
LEMMA SwapApart ==
  ASSUME NEW l \in Nat, NEW m \in Contents(l), NEW n \in Nat, NEW a \in 1 .. l, NEW b \in 1 .. l,
         b + n - 1 <= l, a + n <= b
  PROVE  fossil_sys_memory_swap(m, a, b, n) = Exchanged(m, a, b, n, l)
  <1> DEFINE After(k) == Exchanged(m, a, b, k, l)
  <1>1. PICK z \in [0 .. n -> Contents(l)] : SwapRun(z, m, a, b, n)
    <2>1. a + n - 1 <= l
      OBVIOUS
    <2> QED
      BY <2>1, SwapRuns
  <1> DEFINE Right == {k \in 0 .. n : z[k] = After(k)}
  <1>2. 0 \in Right
    BY <1>1 DEF SwapRun, Contents, Exchanged
  <1>3. ASSUME NEW k \in 0 .. n - 1, k \in Right PROVE k + 1 \in Right
    <2>1. z[k + 1] = Swapped(After(k), a + k, b + k)
      <3>1. k + 1 \in 1 .. n /\ k + 1 - 1 = k /\ a + (k + 1) - 1 = a + k
            /\ b + (k + 1) - 1 = b + k /\ z[k] = After(k)
        BY <1>3
      <3> HIDE DEF After
      <3> QED
        BY <1>1, <3>1 DEF SwapRun
    <2>2. Swapped(After(k), a + k, b + k) = After(k + 1)
      <3> DEFINE i == a + k
                 j == b + k
      <3>1. i \in 1 .. l /\ j \in 1 .. l /\ k \in Int /\ i # j
        OBVIOUS
      <3>2. After(k)[i] = m[i] /\ After(k)[j] = m[j]
        BY <3>1 DEF Exchanged
      <3>3. After(k + 1)[i] = m[j] /\ After(k + 1)[j] = m[i]
        BY <3>1 DEF Exchanged
      <3>4. \A y \in (1 .. l) \ {i, j} : After(k + 1)[y] = After(k)[y]
        BY <3>1 DEF Exchanged
      <3>5. DOMAIN After(k) = 1 .. l
        BY DEF Exchanged
      <3>6. After(k + 1) = [y \in 1 .. l |-> After(k + 1)[y]]
        BY DEF Exchanged
      <3> HIDE DEF i, j, After
      <3>7. Swapped(After(k), i, j) = After(k + 1)
        BY <3>1, <3>2, <3>3, <3>4, <3>5, <3>6 DEF Swapped
      <3> QED
        BY <3>7 DEF i, j
    <2> QED
      BY <2>1, <2>2
  <1>4. z[n] = After(n)
    <2> HIDE DEF Right
    <2>1. 0 .. n \subseteq Right
      BY <1>2, <1>3, Induct
    <2>2. n \in Right
      BY <2>1
    <2> QED
      BY <2>2 DEF Right
  <1> QED
    BY <1>1, <1>4 DEF SwapRun

\* A region exchanged with itself is as it was.
LEMMA SwapSelf ==
  ASSUME NEW l \in Nat, NEW m \in Contents(l), NEW n \in Nat, NEW a \in 1 .. l, a + n - 1 <= l
  PROVE  fossil_sys_memory_swap(m, a, a, n) = m
  <1>1. PICK z \in [0 .. n -> Contents(l)] : SwapRun(z, m, a, a, n)
    BY SwapRuns
  <1> DEFINE Right == {k \in 0 .. n : z[k] = m}
  <1>2. 0 \in Right
    BY <1>1 DEF SwapRun
  <1>3. ASSUME NEW k \in 0 .. n - 1, k \in Right PROVE k + 1 \in Right
    <2>1. z[k + 1] = Swapped(m, a + k, a + k)
      BY <1>1, <1>3 DEF SwapRun
    <2>2. Swapped(m, a + k, a + k) = m
      BY DEF Swapped, Contents
    <2> QED
      BY <2>1, <2>2
  <1> HIDE DEF Right
  <1>4. 0 .. n \subseteq Right
    BY <1>2, <1>3, Induct
  <1>5. n \in Right
    BY <1>4
  <1> QED
    BY <1>1, <1>5 DEF Right, SwapRun

\* Whatever the regions, no byte is lost: the bytes after are those before in another order.
LEMMA SwapPermutes ==
  ASSUME NEW l \in Nat, NEW m \in Contents(l), NEW n \in Nat, NEW a \in 1 .. l, NEW b \in 1 .. l,
         a + n - 1 <= l, b + n - 1 <= l
  PROVE  Reordered(fossil_sys_memory_swap(m, a, b, n), m)
  <1> DEFINE D == 1 .. l
             Order(s) == Reordered(s, m)
  <1>0. DOMAIN m = D
    BY DEF Contents
  <1>1. PICK z \in [0 .. n -> Contents(l)] : SwapRun(z, m, a, b, n)
    BY SwapRuns
  <1> DEFINE Right == {k \in 0 .. n : Order(z[k])}
  <1>2. 0 \in Right
    <2> DEFINE id == [i \in D |-> i]
    <2>1. /\ id \in [D -> D] /\ \A i, j \in D : id[i] = id[j] => i = j
          /\ \A i \in D : z[0][i] = m[id[i]]
      BY <1>1 DEF SwapRun
    <2> HIDE DEF id, D
    <2>2. Order(z[0])
      BY <1>0, <2>1 DEF Reordered
    <2> QED
      BY <2>2
  <1>3. ASSUME NEW k \in 0 .. n - 1, k \in Right PROVE k + 1 \in Right
    <2> DEFINE s == z[k]
               i == a + k
               j == b + k
    <2>1. k + 1 \in 0 .. n /\ i \in D /\ j \in D /\ s \in [D -> Byte]
      BY <1>1 DEF Contents
    <2>2. z[k + 1] = Swapped(s, i, j)
      BY <1>1, <1>3 DEF SwapRun
    <2>3. PICK perm \in [D -> D] : /\ \A x, y \in D : perm[x] = perm[y] => x = y
                                   /\ \A x \in D : s[x] = m[perm[x]]
      BY <1>0, <1>3 DEF Reordered
    <2> DEFINE then == [perm EXCEPT ![i] = perm[j], ![j] = perm[i]]
    <2> HIDE DEF D, i, j, s
    <2>4. /\ then \in [D -> D] /\ \A x, y \in D : then[x] = then[y] => x = y
          /\ \A x \in D : Swapped(s, i, j)[x] = m[then[x]]
      BY <2>1, <2>3 DEF Swapped
    <2> HIDE DEF then
    <2>5. Order(Swapped(s, i, j))
      BY <1>0, <2>4 DEF Reordered
    <2> QED
      BY <2>1, <2>2, <2>5
  <1> HIDE DEF Right
  <1>4. 0 .. n \subseteq Right
    BY <1>2, <1>3, Induct
  <1>5. n \in Right
    BY <1>4
  <1>6. Order(z[n])
    <2> HIDE DEF Order
    <2> QED
      BY <1>5 DEF Right
  <1>7. fossil_sys_memory_swap(m, a, b, n) = z[n]
    BY <1>1 DEF SwapRun
  <1>8. Order(fossil_sys_memory_swap(m, a, b, n))
    <2> HIDE DEF Order
    <2> QED
      BY <1>6, <1>7
  <1> QED
    BY <1>8

\* The search goes back to front: what it finds from k on is the first occurrence there.
LEMMA FindFirst ==
  ASSUME NEW l \in Nat, NEW m \in Contents(l), NEW x \in Byte, NEW n \in 0 .. l
  PROVE  LET f == fossil_sys_memory_find(m, x, n)
         IN  IF f = 0 THEN x \notin {m[i] : i \in 1 .. n}
             ELSE f \in 1 .. n /\ m[f] = x /\ x \notin {m[i] : i \in 1 .. f - 1}
  <1> DEFINE S == 0 .. n
             \* the round for position n + 1 - j, on what was found behind it
             round(s, j) == IF m[n + 1 - j] = x THEN n + 1 - j ELSE s
             step == [j \in 1 .. n |-> [s \in S |-> round(s, j)]]
             F(f) == f = [k \in 1 .. n + 1 |-> IF k > n THEN 0
                                               ELSE IF m[k] = x THEN k ELSE f[k + 1]]
             z == CHOOSE f : F(f)
             First(k, f) == IF f = 0 THEN \A i \in k .. n : m[i] # x
                            ELSE f \in k .. n /\ m[f] = x /\ \A i \in k .. f - 1 : m[i] # x
  <1>1. fossil_sys_memory_find(m, x, n) = z[1]
    BY DEF fossil_sys_memory_find, z
  <1>2. step \in [1 .. n -> [S -> S]] /\ 0 \in S /\ n \in Nat
    OBVIOUS
  <1>3. PICK g \in [0 .. n -> S] : IsRun(g, 0, n, step)
    <2> HIDE DEF step, S
    <2> QED
      BY <1>2, Recursion
  <1>4. ASSUME NEW j \in 1 .. n PROVE g[j] = round(g[j - 1], j)
    <2>1. g[j] = step[j][g[j - 1]] /\ g[j - 1] \in S
      <3> HIDE DEF step
      <3> QED
        BY <1>3 DEF IsRun
    <2> HIDE DEF round
    <2> QED
      BY <2>1
  <1>5. g[0] = 0
    BY <1>3 DEF IsRun
  <1> DEFINE h == [k \in 1 .. n + 1 |-> g[n + 1 - k]]
  <1>6. F(h)
    <2>1. h[n + 1] = 0
      BY <1>5
    <2>2. ASSUME NEW k \in 1 .. n PROVE h[k] = IF m[k] = x THEN k ELSE h[k + 1]
      <3> DEFINE j == n + 1 - k
      <3>1. j \in 1 .. n /\ n + 1 - j = k /\ h[k] = g[j] /\ h[k + 1] = g[j - 1]
        OBVIOUS
      <3> HIDE DEF j, h
      <3>2. g[j] = round(g[j - 1], j)
        BY <1>4, <3>1
      <3> QED
        BY <3>1, <3>2
    <2>3. ASSUME NEW k \in 1 .. n + 1
          PROVE  h[k] = IF k > n THEN 0 ELSE IF m[k] = x THEN k ELSE h[k + 1]
      <3> HIDE DEF h
      <3>1. CASE k = n + 1
        BY <2>1, <3>1
      <3>2. CASE k \in 1 .. n
        BY <2>2, <3>2
      <3> QED
        BY <3>1, <3>2
    <2>4. h = [k \in 1 .. n + 1 |-> h[k]]
      OBVIOUS
    <2> HIDE DEF h
    <2> QED
      BY <2>3, <2>4
  <1>7. F(z)
    BY <1>6, Zenon
  <1> HIDE DEF z
  <1>8. z[n + 1] = 0 /\ \A k \in 1 .. n : z[k] = IF m[k] = x THEN k ELSE z[k + 1]
    <2>1. n + 1 \in 1 .. n + 1 /\ n + 1 > n /\ \A k \in 1 .. n : k \in 1 .. n + 1 /\ ~(k > n)
      BY <1>2
    <2> QED
      BY <1>7, <2>1
  <1> DEFINE Right == {j \in 0 .. n : First(n + 1 - j, z[n + 1 - j])}
  <1>9. 0 \in Right
    BY <1>2, <1>8
  <1>10. ASSUME NEW j \in 0 .. n - 1, j \in Right PROVE j + 1 \in Right
    <2> DEFINE k == n - j
    <2>1. k \in 1 .. n /\ n + 1 - j = k + 1 /\ n + 1 - (j + 1) = k
      OBVIOUS
    <2>2. First(k + 1, z[k + 1])
      BY <1>10, <2>1
    <2>3. z[k] = IF m[k] = x THEN k ELSE z[k + 1]
      BY <1>8, <2>1
    <2> HIDE DEF k
    <2>4. First(k, z[k])
      <3>1. CASE m[k] = x
        BY <2>1, <2>3, <3>1
      <3>2. CASE m[k] # x /\ z[k + 1] = 0
        <4>1. \A i \in k .. n : i = k \/ i \in k + 1 .. n
          BY <1>2, <2>1
        <4> QED
          BY <2>2, <2>3, <3>2, <4>1
      <3>3. CASE m[k] # x /\ z[k + 1] # 0
        <4>1. z[k + 1] \in k + 1 .. n /\ z[k] = z[k + 1]
          BY <2>2, <2>3, <3>3
        <4>2. \A i \in k .. z[k + 1] - 1 : i = k \/ i \in k + 1 .. z[k + 1] - 1
          BY <2>1, <4>1
        <4>3. z[k] \in k .. n
          BY <2>1, <4>1
        <4> QED
          BY <2>2, <3>3, <4>1, <4>2, <4>3
      <3> QED
        BY <3>1, <3>2, <3>3
    <2> HIDE DEF First
    <2> QED
      BY <2>1, <2>4
  <1>11. n \in Right
    <2> HIDE DEF Right
    <2>1. 0 .. n \subseteq Right
      BY <1>2, <1>9, <1>10, Induct
    <2> QED
      BY <2>1
  <1>12. First(1, z[1])
    <2> HIDE DEF First
    <2>1. First(n + 1 - n, z[n + 1 - n])
      BY <1>11
    <2>2. n + 1 - n = 1
      OBVIOUS
    <2> QED
      BY <2>1, <2>2
  <1> QED
    BY <1>1, <1>12
-----------------------------------------------------------------------------
(* The invariant *)

HeapType == /\ len \in [Block -> 0 .. MAX_SIZE]
            /\ ptr \in [Var -> Block \cup {NULL}]
            /\ size \in [Var -> 0 .. MAX_SIZE]

BytesType == /\ mem \in [Block -> Seq(Byte)] /\ \A b \in Block : mem[b] \in Contents(len[b])
             /\ refused \in BOOLEAN
             /\ broken \in {"no", "overrun", "null"}

\* As long as resize has not been refused memory the caller knows its blocks.
SizesRight == ~refused => \A v \in Var : Held(v) => size[v] = len[ptr[v]]

IInv == HeapType /\ BytesType /\ OneOwner /\ SizesRight /\ OverrunOnlyAfterRefusal

\* What a step does to the bytes of the variables that it leaves pointing to a block.
ContentStep ==
  \A v \in Var :
    Held(v) /\ Held(v)' /\ (ptr'[v] # ptr[v] \/ len'[ptr'[v]] # len[ptr[v]]) =>
      /\ \A i \in 1 .. Smaller(Smaller(size[v], len[ptr[v]]), size'[v]) : View(v)'[i] = View(v)[i]
      /\ \A w \in Var \ {v} : Held(w) => ptr'[w] = ptr[w] /\ View(w)' = View(w)

Safe == IInv' /\ ContentStep

LEMMA InvInit == Init => IInv
  <1> SUFFICES ASSUME Init PROVE IInv
    OBVIOUS
  <1>1. <<>> \in Seq(Byte) /\ <<>> \in Contents(0)
    BY DEF Contents
  <1>2. BytesType
    BY <1>1 DEF Init, BytesType
  <1> QED
    BY <1>2, MemoryAssumption DEF Init, IInv, HeapType, OneOwner, SizesRight,
       OverrunOnlyAfterRefusal, Held

\* A step that moves and resizes no block that is held on both sides of it.
LEMMA NothingMoved ==
  ASSUME \A v \in Var : Held(v) /\ Held(v)' => ptr'[v] = ptr[v] /\ len'[ptr[v]] = len[ptr[v]]
  PROVE  ContentStep
  BY DEF ContentStep
-----------------------------------------------------------------------------
(* The steps of the heap that every function is made of *)

\* A variable that holds nothing is given a free block.
LEMMA GiveKeeps ==
  ASSUME IInv, NEW v \in Var, ~Held(v), NEW b \in Block, len[b] = 0,
         NEW n \in 1 .. MAX_SIZE, NEW c \in Contents(n), Give(v, b, n, c)
  PROVE  Safe
  <1>1. HeapType'
    BY MemoryAssumption DEF Give, IInv, HeapType
  <1>2. \A w \in Var : ptr[w] # b
    BY DEF IInv, HeapType, OneOwner
  <1>3. /\ ptr'[v] = b /\ \A w \in Var \ {v} : ptr'[w] = ptr[w] /\ size'[w] = size[w]
        /\ len'[b] = n /\ \A x \in Block \ {b} : len'[x] = len[x]
        /\ size'[v] = n
    BY DEF Give, IInv, HeapType
  <1>4. OneOwner'
    <2>1. ASSUME NEW x \in Block PROVE len'[x] > 0 <=> \E w \in Var : ptr'[w] = x
      <3>1. CASE x = b
        BY <3>1, <1>3, MemoryAssumption
      <3>2. CASE x # b
        <4>1. len'[x] = len[x] /\ (len[x] > 0 <=> \E w \in Var : ptr[w] = x)
          BY <3>2, <1>3 DEF IInv, OneOwner
        <4>2. ptr[v] = NULL /\ x # NULL
          BY MemoryAssumption DEF Held
        <4>3. (\E w \in Var : ptr[w] = x) <=> (\E w \in Var : ptr'[w] = x)
          BY <1>3, <3>2, <4>2
        <4> QED
          BY <4>1, <4>3
      <3> QED
        BY <3>1, <3>2
    <2>2. ASSUME NEW w \in Var, NEW u \in Var, Held(w)', ptr'[w] = ptr'[u] PROVE w = u
      BY <2>2, <1>2, <1>3 DEF IInv, OneOwner, Held
    <2> QED
      BY <2>1, <2>2 DEF OneOwner
  <1>5. SizesRight'
    <2> SUFFICES ASSUME ~refused, NEW w \in Var, ptr'[w] # NULL PROVE size'[w] = len'[ptr'[w]]
      BY DEF SizesRight, Give, Held
    <2>1. CASE w = v
      BY <2>1, <1>3
    <2>2. CASE w # v
      BY <2>2, <1>2, <1>3 DEF IInv, SizesRight, HeapType, Held
    <2> QED
      BY <2>1, <2>2
  <1>6. OverrunOnlyAfterRefusal'
    BY DEF Give, IInv, OverrunOnlyAfterRefusal
  <1>7. BytesType'
    <2>1. c \in Seq(Byte) /\ n \in Nat
      BY ContentsSeq
    <2>2. mem' = [mem EXCEPT ![b] = c] /\ UNCHANGED <<refused, broken>>
      BY DEF Give
    <2> QED
      BY <1>3, <2>1, <2>2 DEF IInv, BytesType
  <1>8. ContentStep
    BY <1>2, <1>3, NothingMoved DEF Held, IInv, HeapType
  <1> QED
    BY <1>1, <1>4, <1>5, <1>6, <1>7, <1>8 DEF IInv, Safe

\* A held block is freed.
LEMMA ReleaseKeeps ==
  ASSUME IInv, NEW v \in Var, Held(v), Release(v)
  PROVE  Safe
  <1>1. HeapType'
    <2>1. 0 \in 0 .. MAX_SIZE
      BY MemoryAssumption
    <2> QED
      BY <2>1 DEF Release, IInv, HeapType
  <1>2. ptr[v] \in Block /\ \A w \in Var \ {v} : ptr[w] # ptr[v]
    BY DEF IInv, HeapType, OneOwner, Held
  <1>3. /\ ptr'[v] = NULL /\ \A w \in Var \ {v} : ptr'[w] = ptr[w] /\ size'[w] = size[w]
        /\ len'[ptr[v]] = 0 /\ \A x \in Block \ {ptr[v]} : len'[x] = len[x]
    BY <1>2 DEF Release, IInv, HeapType
  <1>4. OneOwner'
    <2>1. ASSUME NEW x \in Block PROVE len'[x] > 0 <=> \E w \in Var : ptr'[w] = x
      <3>1. CASE x = ptr[v]
        BY <3>1, <1>2, <1>3, MemoryAssumption
      <3>2. CASE x # ptr[v]
        <4>1. len'[x] = len[x] /\ (len[x] > 0 <=> \E w \in Var : ptr[w] = x)
          BY <3>2, <1>3 DEF IInv, OneOwner
        <4>2. (\E w \in Var : ptr[w] = x) <=> (\E w \in Var : ptr'[w] = x)
          BY <1>3, <3>2, MemoryAssumption
        <4> QED
          BY <4>1, <4>2
      <3> QED
        BY <3>1, <3>2
    <2>2. ASSUME NEW w \in Var, NEW u \in Var, Held(w)', ptr'[w] = ptr'[u] PROVE w = u
      BY <2>2, <1>3 DEF IInv, OneOwner, Held
    <2> QED
      BY <2>1, <2>2 DEF OneOwner
  <1>5. SizesRight'
    BY <1>2, <1>3 DEF IInv, SizesRight, HeapType, Held, Release
  <1>6. OverrunOnlyAfterRefusal'
    BY DEF Release, IInv, OverrunOnlyAfterRefusal
  <1>7. BytesType'
    <2>1. <<>> \in Seq(Byte) /\ <<>> \in Contents(0)
      BY DEF Contents
    <2>2. mem' = [mem EXCEPT ![ptr[v]] = <<>>] /\ UNCHANGED <<refused, broken>>
      BY DEF Release
    <2> QED
      BY <1>2, <1>3, <2>1, <2>2 DEF IInv, BytesType
  <1>8. ContentStep
    BY <1>2, <1>3, NothingMoved DEF Held, IInv, HeapType
  <1> QED
    BY <1>1, <1>4, <1>5, <1>6, <1>7, <1>8 DEF IInv, Safe

\* A held block moves to a free one, or stays and changes its size.
LEMMA MoveKeeps ==
  ASSUME IInv, NEW v \in Var, Held(v), NEW b \in Block, b = ptr[v] \/ len[b] = 0,
         NEW n \in 1 .. MAX_SIZE, NEW c \in Contents(n), Move(v, b, n, c),
         \A i \in 1 .. Smaller(Smaller(size[v], len[ptr[v]]), n) : c[i] = View(v)[i]
  PROVE  Safe
  <1>1. HeapType'
    BY MemoryAssumption DEF Move, IInv, HeapType
  <1>2. ptr[v] \in Block /\ \A w \in Var \ {v} : ptr[w] # ptr[v] /\ ptr[w] # b
    BY DEF IInv, HeapType, OneOwner, Held
  <1>3. /\ ptr'[v] = b /\ \A w \in Var \ {v} : ptr'[w] = ptr[w] /\ size'[w] = size[w]
        /\ len'[b] = n /\ (b # ptr[v] => len'[ptr[v]] = 0)
        /\ \A x \in Block \ {b, ptr[v]} : len'[x] = len[x]
        /\ size'[v] = n
    BY <1>2 DEF Move, IInv, HeapType
  <1>4. OneOwner'
    <2>1. ASSUME NEW x \in Block PROVE len'[x] > 0 <=> \E w \in Var : ptr'[w] = x
      <3>1. CASE x = b
        BY <3>1, <1>3, MemoryAssumption
      <3>2. CASE x = ptr[v] /\ x # b
        BY <3>2, <1>2, <1>3, MemoryAssumption
      <3>3. CASE x # ptr[v] /\ x # b
        <4>1. len'[x] = len[x] /\ (len[x] > 0 <=> \E w \in Var : ptr[w] = x)
          BY <3>3, <1>3 DEF IInv, OneOwner
        <4>2. (\E w \in Var : ptr[w] = x) <=> (\E w \in Var : ptr'[w] = x)
          BY <1>3, <3>3
        <4> QED
          BY <4>1, <4>2
      <3> QED
        BY <3>1, <3>2, <3>3
    <2>2. ASSUME NEW w \in Var, NEW u \in Var, Held(w)', ptr'[w] = ptr'[u] PROVE w = u
      BY <2>2, <1>2, <1>3 DEF IInv, OneOwner, Held
    <2> QED
      BY <2>1, <2>2 DEF OneOwner
  <1>5. SizesRight'
    <2> SUFFICES ASSUME ~refused, NEW w \in Var, ptr'[w] # NULL PROVE size'[w] = len'[ptr'[w]]
      BY DEF SizesRight, Move, Held
    <2>1. CASE w = v
      BY <2>1, <1>3
    <2>2. CASE w # v
      BY <2>2, <1>2, <1>3 DEF IInv, SizesRight, HeapType, Held
    <2> QED
      BY <2>1, <2>2
  <1>6. OverrunOnlyAfterRefusal'
    BY DEF Move, IInv, OverrunOnlyAfterRefusal
  <1>7. BytesType'
    <2>1. c \in Seq(Byte) /\ <<>> \in Seq(Byte) /\ <<>> \in Contents(0)
      BY ContentsSeq DEF Contents
    <2>2. UNCHANGED <<refused, broken>>
          /\ mem' = [x \in Block |-> IF x = b THEN c ELSE IF x = ptr[v] THEN <<>> ELSE mem[x]]
      BY DEF Move
    <2> QED
      BY <1>2, <1>3, <2>1, <2>2 DEF IInv, BytesType
  <1>8. ContentStep
    <2> SUFFICES ASSUME NEW w \in Var, Held(w), Held(w)',
                        ptr'[w] # ptr[w] \/ len'[ptr'[w]] # len[ptr[w]]
                 PROVE  /\ \A i \in 1 .. Smaller(Smaller(size[w], len[ptr[w]]), size'[w]) :
                             View(w)'[i] = View(w)[i]
                        /\ \A u \in Var \ {w} :
                             Held(u) => ptr'[u] = ptr[u] /\ View(u)' = View(u)
      BY DEF ContentStep
    <2>1. \A u \in Var \ {v} : Held(u) =>
            ptr[u] \in Block /\ ptr'[u] = ptr[u] /\ mem'[ptr[u]] = mem[ptr[u]]
                             /\ len'[ptr[u]] = len[ptr[u]]
      BY <1>2, <1>3 DEF Move, IInv, HeapType, Held
    <2>2. w = v
      BY <2>1
    <2>3. mem'[ptr'[v]] = c
      BY <1>3 DEF Move
    <2> QED
      BY <1>3, <2>1, <2>2, <2>3 DEF View
  <1> QED
    BY <1>1, <1>4, <1>5, <1>6, <1>7, <1>8 DEF IInv, Safe

\* The heap stays as it is; a caller that uses more than a block has must be misled.
LEMMA HeapStays ==
  ASSUME IInv, UNCHANGED <<len, ptr, size, refused>>, UNCHANGED mem \/ BytesType',
         UNCHANGED broken \/ broken' = "null" \/ (broken' = "overrun" /\ refused)
  PROVE  Safe
  <1>1. BytesType'
    BY DEF IInv, BytesType
  <1>2. ContentStep
    BY NothingMoved
  <1> QED
    BY <1>1, <1>2 DEF Safe, IInv, HeapType, OneOwner, SizesRight, OverrunOnlyAfterRefusal, Held

LEMMA Misled ==
  ASSUME IInv, NEW v \in Var, Held(v), NEW n \in Int, n <= size[v], n > len[ptr[v]]
  PROVE  refused
  BY DEF IInv, HeapType, SizesRight, Held
-----------------------------------------------------------------------------
(* The functions *)

LEMMA AllocKeeps ==
  ASSUME IInv, NEW v \in Var, NEW n \in 0 .. MAX_SIZE
  PROVE  /\ fossil_sys_memory_alloc(v, n) => Safe
         /\ \A num \in 0 .. MAX_SIZE : fossil_sys_memory_calloc(v, num, n) => Safe
         /\ fossil_sys_memory_free(v) => Safe
  <1>1. ASSUME ReturnsNull PROVE Safe
    BY <1>1, HeapStays DEF ReturnsNull, vars
  <1>2. ASSUME fossil_sys_memory_alloc(v, n) PROVE Safe
    <2>1. CASE n > 0 /\ Malloc(v, n)
      <3>1. n \in 1 .. MAX_SIZE
        BY <2>1, MemoryAssumption
      <3>2. PICK b \in Block, c \in Contents(n) : len[b] = 0 /\ Give(v, b, n, c)
        BY <2>1 DEF Malloc
      <3> QED
        BY <1>2, <3>1, <3>2, GiveKeeps DEF fossil_sys_memory_alloc
    <2> QED
      BY <2>1, <1>1, <1>2 DEF fossil_sys_memory_alloc
  <1>3. ASSUME NEW num \in 0 .. MAX_SIZE, fossil_sys_memory_calloc(v, num, n) PROVE Safe
    <2>1. CASE /\ num > 0 /\ n > 0 /\ num * n <= MAX_SIZE
               /\ \E b \in Block :
                    len[b] = 0 /\ Give(v, b, num * n, [i \in 1 .. num * n |-> 0])
      <3>1. num * n \in 1 .. MAX_SIZE
        <4>1. num \in Nat \ {0} /\ n \in Nat \ {0}
          BY <2>1, MemoryAssumption
        <4>2. num * n \in Nat /\ num * n > 0
          BY <4>1
        <4> QED
          BY <4>2, <2>1, MemoryAssumption
      <3>2. PICK b \in Block : len[b] = 0 /\ Give(v, b, num * n, [i \in 1 .. num * n |-> 0])
        BY <2>1
      <3>3. [i \in 1 .. num * n |-> 0] \in Contents(num * n)
        BY MemoryAssumption DEF Contents, Byte
      <3> QED
        BY <1>3, <3>1, <3>2, <3>3, GiveKeeps DEF fossil_sys_memory_calloc
    <2> QED
      BY <2>1, <1>1, <1>3 DEF fossil_sys_memory_calloc
  <1>4. ASSUME fossil_sys_memory_free(v) PROVE Safe
    BY <1>4, ReleaseKeeps, HeapStays DEF fossil_sys_memory_free, vars
  <1> QED
    BY <1>2, <1>3, <1>4

LEMMA ReallocKeeps ==
  ASSUME IInv, NEW v \in Var, NEW n \in 0 .. MAX_SIZE, fossil_sys_memory_realloc(v, n)
  PROVE  Safe
  <1>1. CASE Held(v) /\ n > 0 /\ \E b \in Block, c \in Keeping(View(v), Smaller(len[ptr[v]], n), n) :
               (b = ptr[v] \/ len[b] = 0) /\ Move(v, b, n, c)
    <2>1. n \in 1 .. MAX_SIZE
      BY <1>1, MemoryAssumption
    <2>2. PICK b \in Block, c \in Keeping(View(v), Smaller(len[ptr[v]], n), n) :
                 (b = ptr[v] \/ len[b] = 0) /\ Move(v, b, n, c)
      BY <1>1
    <2>3. size[v] \in Int /\ len[ptr[v]] \in Int
      BY <1>1 DEF IInv, HeapType, Held
    <2>4. c \in Contents(n)
          /\ \A i \in 1 .. Smaller(Smaller(size[v], len[ptr[v]]), n) : c[i] = View(v)[i]
      BY <2>1, <2>2, <2>3 DEF Keeping, Smaller
    <2> QED
      BY <1>1, <2>1, <2>2, <2>4, MoveKeeps
  <1>2. CASE Held(v) /\ n = 0 /\ Release(v)
    BY <1>2, ReleaseKeeps
  <1>3. CASE ReturnsNull
    BY <1>3, HeapStays DEF ReturnsNull, vars
  <1> QED
    BY <1>1, <1>2, <1>3 DEF fossil_sys_memory_realloc

LEMMA ResizeKeeps ==
  ASSUME IInv, NEW v \in Var, NEW n \in 0 .. MAX_SIZE, fossil_sys_memory_resize(v, n)
  PROVE  Safe
  <1>1. CASE ~Held(v) /\ ReturnsNull
    BY <1>1, HeapStays DEF ReturnsNull, vars
  <1>2. CASE Held(v) /\ n = 0 /\ Release(v)
    BY <1>2, ReleaseKeeps
  <1>3. CASE Held(v) /\ n > 0 /\ ResizeMoves(v, n)
    <2>1. n \in 1 .. MAX_SIZE /\ size[v] \in Int
      BY <1>3, MemoryAssumption DEF IInv, HeapType
    <2>2. CopySize(size[v], n) \in Int /\ CopySize(size[v], n) <= size[v]
      BY <2>1 DEF CopySize
    <2>3. CASE CopySize(size[v], n) > len[ptr[v]] /\ Break("overrun")
      BY <1>3, <2>2, <2>3, Misled, HeapStays DEF Break
    <2>4. CASE \E b \in Block : \E c \in Keeping(View(v), CopySize(size[v], n), n) :
                 len[b] = 0 /\ Move(v, b, n, c)
      <3>1. PICK b \in Block : \E c \in Keeping(View(v), CopySize(size[v], n), n) :
                 len[b] = 0 /\ Move(v, b, n, c)
        BY <2>4
      <3>2. PICK c \in Keeping(View(v), CopySize(size[v], n), n) : len[b] = 0 /\ Move(v, b, n, c)
        BY <3>1
      <3>3. len[ptr[v]] \in Int
        BY <1>3 DEF IInv, HeapType, Held
      <3>4. c \in Contents(n)
            /\ \A i \in 1 .. Smaller(Smaller(size[v], len[ptr[v]]), n) : c[i] = View(v)[i]
        BY <2>1, <3>2, <3>3 DEF Keeping, Smaller, CopySize
      <3> QED
        BY <1>3, <2>1, <3>2, <3>4, MoveKeeps
    <2> QED
      BY <1>3, <2>3, <2>4 DEF ResizeMoves
  <1>4. CASE Held(v) /\ n > 0 /\ ResizeRefused(v, n)
    <2>1. HeapType' /\ refused'
      BY <1>4 DEF ResizeRefused, IInv, HeapType
    <2>2. OneOwner'
      BY <1>4 DEF ResizeRefused, IInv, OneOwner, Held
    <2>3. BytesType'
      BY <1>4 DEF ResizeRefused, IInv, BytesType
    <2>4. ContentStep
      BY <1>4, NothingMoved DEF ResizeRefused
    <2> QED
      BY <2>1, <2>2, <2>3, <2>4 DEF Safe, IInv, SizesRight, OverrunOnlyAfterRefusal
  <1> QED
    BY <1>1, <1>2, <1>3, <1>4 DEF fossil_sys_memory_resize

LEMMA PrefixBytes ==
  ASSUME NEW l \in Nat, NEW m \in Contents(l), NEW i \in 1 .. l + 1, NEW j \in Nat, j <= l
  PROVE  SubSeq(m, i, j) \in Contents(IF i <= j THEN j - i + 1 ELSE 0)
  <1>1. m \in Seq(Byte) /\ Len(m) = l
    BY ContentsSeq
  <1>2. SubSeq(m, i, j) \in Seq(Byte)
        /\ Len(SubSeq(m, i, j)) = IF i <= j THEN j - i + 1 ELSE 0
    <2>1. \A k \in i .. j : m[k] \in Byte
      BY DEF Contents
    <2> QED
      BY <1>1, <2>1, SubSeqProperties
  <1> QED
    BY <1>2, SeqContents

LEMMA DupKeeps ==
  ASSUME IInv, NEW v \in Var, NEW from \in Var, NEW n \in 0 .. MAX_SIZE,
         fossil_sys_memory_dup(v, from, n)
  PROVE  Safe
  <1>1. ~Held(v)
    BY DEF fossil_sys_memory_dup
  <1>2. CASE ReturnsNull
    BY <1>2, HeapStays DEF ReturnsNull, vars
  <1>3. CASE Held(from) /\ n \in 1 .. size[from] /\ n > len[ptr[from]] /\ Break("overrun")
    <2>1. n \in Int /\ n <= size[from]
      BY <1>3 DEF IInv, HeapType
    <2> QED
      BY <1>3, <2>1, Misled, HeapStays DEF Break
  <1>4. CASE /\ Held(from) /\ n \in 1 .. size[from] /\ ~(n > len[ptr[from]])
             /\ \E b \in Block : len[b] = 0 /\ Give(v, b, n, SubSeq(View(from), 1, n))
    <2>1. n \in 1 .. MAX_SIZE
      BY <1>4, MemoryAssumption
    <2>2. PICK b \in Block : len[b] = 0 /\ Give(v, b, n, SubSeq(View(from), 1, n))
      BY <1>4
    <2>3. SubSeq(View(from), 1, n) \in Contents(n)
      <3>1. View(from) \in Contents(len[ptr[from]]) /\ len[ptr[from]] \in Nat
        BY <1>4 DEF IInv, HeapType, BytesType, View, Held
      <3>2. n <= len[ptr[from]] /\ n \in Nat
        BY <1>4, <2>1, <3>1
      <3> QED
        BY <2>1, <3>1, <3>2, PrefixBytes
    <2> QED
      BY <1>1, <2>1, <2>2, <2>3, GiveKeeps
  <1> QED
    BY <1>2, <1>3, <1>4 DEF fossil_sys_memory_dup

LEMMA StrdupKeeps ==
  ASSUME IInv, NEW v \in Var, NEW from \in Var, fossil_sys_memory_strdup(v, from)
  PROVE  Safe
  <1>1. ~Held(v)
    BY DEF fossil_sys_memory_strdup
  <1>2. CASE ~Held(from) /\ ReturnsNull
    BY <1>2, HeapStays DEF ReturnsNull, vars
  <1>3. CASE /\ Held(from)
             /\ \E k \in 0 .. len[ptr[from]] - 1 :
                  /\ IsString(View(from), k)
                  /\ \/ \E b \in Block :
                           len[b] = 0 /\ Give(v, b, k + 1, SubSeq(View(from), 1, k + 1))
                     \/ Break("null")
    <2>1. PICK k \in 0 .. len[ptr[from]] - 1 :
                 \/ \E b \in Block : len[b] = 0 /\ Give(v, b, k + 1, SubSeq(View(from), 1, k + 1))
                 \/ Break("null")
      BY <1>3
    <2>2. k + 1 \in 1 .. MAX_SIZE
      <3>1. len[ptr[from]] \in 0 .. MAX_SIZE
        BY <1>3 DEF IInv, HeapType, Held
      <3> QED
        BY <3>1, MemoryAssumption
    <2>3. CASE Break("null")
      BY <2>3, HeapStays DEF Break
    <2>4. CASE \E b \in Block : len[b] = 0 /\ Give(v, b, k + 1, SubSeq(View(from), 1, k + 1))
      <3>1. PICK b \in Block : len[b] = 0 /\ Give(v, b, k + 1, SubSeq(View(from), 1, k + 1))
        BY <2>4
      <3>2. SubSeq(View(from), 1, k + 1) \in Contents(k + 1)
        <4>1. View(from) \in Contents(len[ptr[from]]) /\ len[ptr[from]] \in Nat
          BY <1>3 DEF IInv, HeapType, BytesType, View, Held
        <4>2. k + 1 <= len[ptr[from]] /\ k + 1 \in Nat /\ k + 1 >= 1
          BY <4>1
        <4> QED
          BY <4>1, <4>2, PrefixBytes
      <3> QED
        BY <1>1, <2>2, <3>1, <3>2, GiveKeeps
    <2> QED
      BY <2>1, <2>3, <2>4
  <1> QED
    BY <1>2, <1>3 DEF fossil_sys_memory_strdup

LEMMA WrittenBytes ==
  ASSUME NEW l \in Nat, NEW m \in Contents(l), NEW n \in 1 .. l, NEW c \in Writes(m, n)
  PROVE  c \in Contents(l)
  <1>1. n \in Nat /\ n \in 0 .. l
    OBVIOUS
  <1>2. fossil_sys_memory_zero(m, n) \in Contents(l)
    BY <1>1, SetBytes DEF fossil_sys_memory_zero
  <1>3. CASE \E x \in Value : c = fossil_sys_memory_set(m, x, n)
    BY <1>1, <1>3, SetBytes, MemoryAssumption
  <1>4. CASE c \in {fossil_sys_memory_zero(m, n), fossil_sys_memory_secure_zero(m, n)}
    BY <1>1, <1>2, <1>4, SecureZeroIsZero
  <1>5. CASE \E p \in Contents(1) \cup Contents(2) : c = fossil_sys_memory_fill(m, p, n)
    <2>1. PICK q \in {1, 2} : \E p \in Contents(q) : c = fossil_sys_memory_fill(m, p, n)
      BY <1>5
    <2>2. q \in Nat \ {0}
      OBVIOUS
    <2>3. PICK p \in Contents(q) : c = fossil_sys_memory_fill(m, p, n)
      BY <2>1
    <2>4. c = Filled(m, p, n)
      BY <1>1, <2>2, <2>3, FillIsPattern
    <2> QED
      BY <1>1, <2>2, <2>4, FilledBytes
  <1>6. CASE \E k \in 1 .. n : \/ c = fossil_sys_memory_move(m, 1, n - k + 1, k)
                              \/ c = fossil_sys_memory_move(m, n - k + 1, 1, k)
    <2>1. PICK k \in 1 .. n : \/ c = fossil_sys_memory_copy(m, 1, m, n - k + 1, k)
                             \/ c = fossil_sys_memory_copy(m, n - k + 1, m, 1, k)
      BY <1>6 DEF fossil_sys_memory_move
    <2>2. n - k + 1 \in Nat \ {0} /\ n - k + 1 \in Int /\ 1 \in Int /\ 1 \in Nat \ {0} /\ k \in Nat
          /\ n - k + 1 + k - 1 <= l /\ 1 + k - 1 <= l
      OBVIOUS
    <2>3. fossil_sys_memory_copy(m, 1, m, n - k + 1, k) \in Contents(l)
      BY <2>2, CopyBytes
    <2>4. fossil_sys_memory_copy(m, n - k + 1, m, 1, k) \in Contents(l)
      BY <2>2, CopyBytes
    <2> QED
      BY <2>1, <2>3, <2>4
  <1> QED
    BY <1>3, <1>4, <1>5, <1>6 DEF Writes

LEMMA ExchangedBytes ==
  ASSUME NEW k \in Nat, NEW l \in Nat, NEW v \in Contents(k), NEW w \in Contents(l),
         NEW n \in Nat \ {0}, n <= k, n <= l
  PROVE  LET done == fossil_sys_memory_swap(v \o w, 1, k + 1, n)
         IN  /\ SubSeq(done, 1, k) \in Contents(k)
             /\ SubSeq(done, k + 1, Len(v \o w)) \in Contents(l)
  <1> DEFINE done == fossil_sys_memory_swap(v \o w, 1, k + 1, n)
  <1>1. v \o w \in Contents(k + l) /\ Len(v \o w) = k + l
    <2>1. v \in Seq(Byte) /\ Len(v) = k /\ w \in Seq(Byte) /\ Len(w) = l
      BY ContentsSeq
    <2>2. v \o w \in Seq(Byte) /\ Len(v \o w) = k + l
      BY <2>1, ConcatProperties
    <2> QED
      BY <2>2, SeqContents
  <1>2. done \in Contents(k + l)
    <2>1. 1 \in 1 .. k + l /\ k + 1 \in 1 .. k + l /\ k + l \in Nat /\ n \in Nat
          /\ 1 + n - 1 <= k + l /\ k + 1 + n - 1 <= k + l
      OBVIOUS
    <2>2. PICK z \in [0 .. n -> Contents(k + l)] : SwapRun(z, v \o w, 1, k + 1, n)
      BY <1>1, <2>1, SwapRuns
    <2>3. done = z[n] /\ z[n] \in Contents(k + l)
      BY <2>2 DEF SwapRun
    <2> QED
      BY <2>3
  <1> HIDE DEF done
  <1>3. SubSeq(done, 1, k) \in Contents(IF 1 <= k THEN k - 1 + 1 ELSE 0)
    BY <1>2, PrefixBytes
  <1>4. SubSeq(done, k + 1, k + l) \in Contents(IF k + 1 <= k + l THEN k + l - (k + 1) + 1 ELSE 0)
    BY <1>2, PrefixBytes
  <1>5. (IF 1 <= k THEN k - 1 + 1 ELSE 0) = k
        /\ (IF k + 1 <= k + l THEN k + l - (k + 1) + 1 ELSE 0) = l
    OBVIOUS
  <1> QED
    BY <1>1, <1>3, <1>4, <1>5 DEF done

LEMMA WritesKeep ==
  ASSUME IInv, NEW v \in Var, NEW w \in Var, NEW n \in 0 .. MAX_SIZE,
         Write(v, n) \/ Exchange(v, w, n) \/ Copy(v, w, n)
  PROVE  Safe
  <1> DEFINE Bytes(x) == View(x) \in Contents(len[ptr[x]]) /\ len[ptr[x]] \in Nat
                         /\ ptr[x] \in Block
  <1>0. \A x \in Var : Held(x) => Bytes(x)
    BY DEF IInv, HeapType, BytesType, View, Held
  <1>1. CASE /\ UNCHANGED <<len, ptr, size, refused, broken>> /\ ~(n > len[ptr[v]])
             /\ Write(v, n) \/ ((Exchange(v, w, n) \/ Copy(v, w, n)) /\ ~(n > len[ptr[w]]))
    <2>1. Held(v) /\ n \in Nat \ {0} /\ n <= len[ptr[v]]
      <3>1. size[v] \in Int /\ Smaller(size[v], size[w]) \in Int
        BY DEF IInv, HeapType, Smaller
      <3>2. Held(v) /\ n >= 1
        BY <1>1, <3>1 DEF Write, Exchange, Copy
      <3> QED
        BY <1>0, <1>1, <3>2
    <2>2. CASE Write(v, n)
      <3>1. PICK c \in Writes(View(v), n) : mem' = [mem EXCEPT ![ptr[v]] = c]
        BY <1>1, <2>2 DEF Write
      <3>2. c \in Contents(len[ptr[v]]) /\ c \in Seq(Byte)
        BY <1>0, <2>1, <3>1, WrittenBytes, ContentsSeq
      <3>3. BytesType'
        BY <1>0, <1>1, <2>1, <3>1, <3>2 DEF IInv, BytesType
      <3> QED
        BY <1>1, <3>3, HeapStays
    <2>3. CASE Exchange(v, w, n) /\ ~(n > len[ptr[w]])
      <3> DEFINE done == fossil_sys_memory_swap(View(v) \o View(w), 1, len[ptr[v]] + 1, n)
                 c == SubSeq(done, 1, len[ptr[v]])
                 d == SubSeq(done, len[ptr[v]] + 1, Len(View(v) \o View(w)))
      <3>1. Held(w) /\ ~(n > len[ptr[v]] \/ n > len[ptr[w]])
            /\ mem' = [mem EXCEPT ![ptr[v]] = c, ![ptr[w]] = d]
        BY <1>1, <2>3 DEF Exchange, Break
      <3>2. c \in Contents(len[ptr[v]]) /\ d \in Contents(len[ptr[w]])
        <4> DEFINE k == len[ptr[v]]
                   l == len[ptr[w]]
        <4>1. View(v) \in Contents(k) /\ View(w) \in Contents(l) /\ k \in Nat /\ l \in Nat
              /\ n \in Nat \ {0} /\ n <= k /\ n <= l
          BY <1>0, <2>1, <3>1
        <4> HIDE DEF k, l
        <4> QED
          BY <4>1, ExchangedBytes DEF k, l
      <3> HIDE DEF c, d
      <3>3. c \in Seq(Byte) /\ d \in Seq(Byte)
        BY <1>0, <2>1, <3>1, <3>2, ContentsSeq
      <3>4. ptr[v] # ptr[w]
        BY <2>1, <2>3 DEF IInv, OneOwner, Exchange
      <3>5. BytesType'
        BY <1>0, <1>1, <2>1, <3>1, <3>2, <3>3, <3>4 DEF IInv, BytesType
      <3> QED
        BY <1>1, <3>5, HeapStays
    <2>4. CASE Copy(v, w, n) /\ ~(n > len[ptr[w]])
      <3> DEFINE c == fossil_sys_memory_copy(View(v), 1, View(w), 1, n)
      <3>1. Held(w) /\ ~(n > len[ptr[v]] \/ n > len[ptr[w]]) /\ mem' = [mem EXCEPT ![ptr[v]] = c]
        BY <1>1, <2>4 DEF Copy, View, Break
      <3>2. c \in Contents(len[ptr[v]])
        <4>1. View(v) \in Contents(len[ptr[v]]) /\ View(w) \in Contents(len[ptr[w]])
              /\ len[ptr[v]] \in Nat /\ len[ptr[w]] \in Nat /\ n \in Nat
              /\ 1 \in Int /\ 1 \in Nat \ {0} /\ 1 + n - 1 <= len[ptr[w]]
          BY <1>0, <2>1, <3>1
        <4> QED
          BY <4>1, CopyBytes
      <3> HIDE DEF c
      <3>3. c \in Seq(Byte)
        BY <1>0, <2>1, <3>2, ContentsSeq
      <3>4. BytesType'
        BY <1>0, <1>1, <2>1, <3>1, <3>2, <3>3 DEF IInv, BytesType
      <3> QED
        BY <1>1, <3>4, HeapStays
    <2> QED
      BY <1>1, <2>2, <2>3, <2>4
  <1>2. CASE Write(v, n) /\ n > len[ptr[v]]
    <2>1. Held(v) /\ n <= size[v] /\ Break("overrun")
      BY <1>2 DEF Write, IInv, HeapType
    <2> QED
      BY <1>2, <2>1, Misled, HeapStays DEF Break
  <1>3. CASE (Exchange(v, w, n) \/ Copy(v, w, n)) /\ (n > len[ptr[v]] \/ n > len[ptr[w]])
    <2>1. Held(v) /\ Held(w) /\ n \in 1 .. Smaller(size[v], size[w]) /\ Break("overrun")
      BY <1>3 DEF Exchange, Copy
    <2>2. size[v] \in Int /\ size[w] \in Int
      BY DEF IInv, HeapType
    <2>3. n <= size[v] /\ n <= size[w]
      BY <2>1, <2>2 DEF Smaller
    <2> QED
      BY <1>3, <2>1, <2>3, Misled, HeapStays DEF Break
  <1> QED
    BY <1>1, <1>2, <1>3 DEF Write, Exchange, Copy
-----------------------------------------------------------------------------
LEMMA InvNext == IInv /\ [Next]_vars => Safe
  <1> SUFFICES ASSUME IInv, [Next]_vars PROVE Safe
    OBVIOUS
  <1>1. CASE UNCHANGED vars
    BY <1>1, HeapStays DEF vars
  <1>2. CASE Next
    <2>1. PICK v \in Var : Call(v)
      BY <1>2 DEF Next
    <2>2. CASE fossil_sys_memory_free(v)
      <3>1. 0 \in 0 .. MAX_SIZE
        BY MemoryAssumption
      <3> QED
        BY <2>2, <3>1, AllocKeeps
    <2>3. CASE \E w \in Var : fossil_sys_memory_strdup(v, w)
      BY <2>3, StrdupKeeps
    <2>4. CASE \E n \in 0 .. MAX_SIZE :
                 \/ fossil_sys_memory_alloc(v, n)
                 \/ \E num \in 0 .. MAX_SIZE : fossil_sys_memory_calloc(v, num, n)
                 \/ fossil_sys_memory_realloc(v, n)
                 \/ fossil_sys_memory_resize(v, n)
                 \/ Write(v, n)
                 \/ \E w \in Var : \/ fossil_sys_memory_dup(v, w, n)
                                   \/ Exchange(v, w, n)
                                   \/ Copy(v, w, n)
      BY <2>4, AllocKeeps, ReallocKeeps, ResizeKeeps, DupKeeps, WritesKeep
    <2> QED
      BY <2>1, <2>2, <2>3, <2>4 DEF Call
  <1> QED
    BY <1>1, <1>2

LEMMA InvAlways == Spec => []IInv
  <1>1. IInv /\ [Next]_vars => IInv'
    BY InvNext DEF Safe
  <1> QED
    BY <1>1, InvInit, PTL DEF Spec

\* Whatever fails, the allocated blocks are those the caller's variables point to, one
\* each: for any number of blocks and variables, any sizes and any order of the calls.
THEOREM OwnersCorrect == Spec => []OneOwner
  <1>1. IInv => OneOwner
    BY DEF IInv
  <1> QED
    BY InvAlways, <1>1, PTL

\* A careful caller is led past a block by nothing but a resize that was refused memory
\* and returned the old pointer (memory.c:217).
THEOREM OverrunCorrect == Spec => []OverrunOnlyAfterRefusal
  <1>1. IInv => OverrunOnlyAfterRefusal
    BY DEF IInv
  <1> QED
    BY InvAlways, <1>1, PTL

\* Blocks, bytes and sizes keep their types, whatever the loops over bytes write: no
\* function writes behind a block that it has been given or has allocated.
THEOREM TypeCorrect == Spec => []TypeOK
  <1>1. IInv => TypeOK
    BY DEF IInv, HeapType, BytesType, TypeOK
  <1> QED
    BY InvAlways, <1>1, PTL

\* resize and realloc keep the bytes the caller may use, wherever the block goes
\* (memory.c:221), and touch no block of another variable: for any sizes and contents.
THEOREM ContentCorrect == Spec => ContentKept
  <1>1. IInv /\ [Next]_vars => [ContentStep]_vars
    BY InvNext DEF Safe
  <1>2. Spec => [][ContentStep]_vars
    BY InvAlways, <1>1, PTL DEF Spec
  <1> QED
    BY <1>2 DEF ContentKept, ContentStep

\* Whatever a block holds, fill repeats the pattern and cuts it at the end, swap exchanges
\* regions apart and loses no byte of overlapping ones, and find gives the first occurrence
\* (memory.c:248, 341 and 369): the loops are right for blocks of any size.
LEMMA BlockRight ==
  ASSUME NEW l \in Nat, NEW m \in Contents(l)
  PROVE  FillRight(m) /\ SwapRight(m) /\ FindRight(m)
  <1>1. Len(m) = l /\ DOMAIN m = 1 .. l
    BY ContentsSeq
  <1>2. FillRight(m)
    <2> SUFFICES ASSUME NEW n \in 1 .. l, NEW q \in {1, 2}, NEW p \in Contents(q)
                 PROVE  fossil_sys_memory_fill(m, p, n) =
                          [i \in DOMAIN m |-> IF i <= n THEN p[((i - 1) % Len(p)) + 1] ELSE m[i]]
      BY <1>1 DEF FillRight
    <2>1. n \in 0 .. l /\ q \in Nat \ {0}
      OBVIOUS
    <2> QED
      BY <2>1, FillIsPattern DEF Filled
  <1>3. SwapRight(m)
    <2> SUFFICES ASSUME NEW a \in DOMAIN m, NEW b \in DOMAIN m, NEW n \in 1 .. Len(m),
                        a + n - 1 <= Len(m), b + n - 1 <= Len(m)
                 PROVE  LET s == fossil_sys_memory_swap(m, a, b, n)
                        IN  /\ a + n <= b => \A i \in DOMAIN m :
                                 s[i] = IF i \in a .. a + n - 1 THEN m[i - a + b]
                                        ELSE IF i \in b .. b + n - 1 THEN m[i - b + a] ELSE m[i]
                            /\ a = b => s = m
                            /\ Reordered(s, m)
      BY Zenon DEF SwapRight
    <2>1. n \in Nat /\ a \in 1 .. l /\ b \in 1 .. l /\ a + n - 1 <= l /\ b + n - 1 <= l
      BY <1>1
    <2>2. a + n <= b => \A i \in 1 .. l : fossil_sys_memory_swap(m, a, b, n)[i] =
            IF i \in a .. a + n - 1 THEN m[i - a + b]
            ELSE IF i \in b .. b + n - 1 THEN m[i - b + a] ELSE m[i]
      <3> SUFFICES ASSUME a + n <= b
                   PROVE  \A i \in 1 .. l : fossil_sys_memory_swap(m, a, b, n)[i] =
                            IF i \in a .. a + n - 1 THEN m[i - a + b]
                            ELSE IF i \in b .. b + n - 1 THEN m[i - b + a] ELSE m[i]
        OBVIOUS
      <3> DEFINE s == fossil_sys_memory_swap(m, a, b, n)
      <3>1. s = Exchanged(m, a, b, n, l)
        BY <2>1, SwapApart
      <3> HIDE DEF s
      <3>2. \A i \in 1 .. l : s[i] = IF i \in a .. a + n - 1 THEN m[i - a + b]
                                     ELSE IF i \in b .. b + n - 1 THEN m[i - b + a] ELSE m[i]
        BY <3>1 DEF Exchanged
      <3> QED
        BY <3>2 DEF s
    <2>3. a = b => fossil_sys_memory_swap(m, a, b, n) = m
      BY <2>1, SwapSelf
    <2>4. Reordered(fossil_sys_memory_swap(m, a, b, n), m)
      BY <2>1, SwapPermutes
    <2> QED
      BY <1>1, <2>2, <2>3, <2>4
  <1>4. FindRight(m)
    <2> SUFFICES ASSUME NEW x \in Byte, NEW n \in 1 .. l
                 PROVE  LET f == fossil_sys_memory_find(m, x, n)
                        IN  IF f = 0 THEN x \notin {m[i] : i \in 1 .. n}
                            ELSE f <= n /\ m[f] = x /\ x \notin {m[i] : i \in 1 .. f - 1}
      BY <1>1 DEF FindRight
    <2>1. n \in 0 .. l
      OBVIOUS
    <2> DEFINE f == fossil_sys_memory_find(m, x, n)
    <2>2. IF f = 0 THEN x \notin {m[i] : i \in 1 .. n}
          ELSE f \in 1 .. n /\ m[f] = x /\ x \notin {m[i] : i \in 1 .. f - 1}
      BY <2>1, FindFirst
    <2> HIDE DEF f
    <2>3. IF f = 0 THEN x \notin {m[i] : i \in 1 .. n}
          ELSE f <= n /\ m[f] = x /\ x \notin {m[i] : i \in 1 .. f - 1}
      BY <2>2
    <2> QED
      BY <2>3 DEF f
  <1> QED
    BY <1>2, <1>3, <1>4

\* The bytes of every held block are such, in every reachable state.
THEOREM BytesCorrect == Spec => []BytesRight
  <1>1. IInv => BytesRight
    <2> SUFFICES ASSUME IInv, NEW v \in Var, Held(v)
                 PROVE  FillRight(View(v)) /\ SwapRight(View(v)) /\ FindRight(View(v))
      BY DEF BytesRight
    <2>1. len[ptr[v]] \in Nat /\ View(v) \in Contents(len[ptr[v]])
      BY DEF IInv, HeapType, BytesType, Held, View
    <2> QED
      BY <2>1, BlockRight
  <1> QED
    BY InvAlways, <1>1, PTL
=============================================================================
