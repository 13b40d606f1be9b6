------------------------------- MODULE Memory -------------------------------
(***************************************************************************)
(* The memory functions of code/logic/memory.c over a heap that may run    *)
(* out, used by a caller that keeps its blocks in a few pointer variables. *)
(* The caller is careful: it takes a new block only into a variable that   *)
(* holds none, tests the result of realloc before it replaces a pointer,   *)
(* and uses of a block what it asked for.  malloc, realloc, calloc and     *)
(* free are external, and so are memcpy, memmove, memset and memcmp.       *)
(***************************************************************************)
EXTENDS Integers, Sequences

CONSTANTS Block,       \* the blocks malloc can return
          Var,         \* the caller's pointer variables
          NULL,
          BYTE,        \* the number of values of a byte, 256
          MAX_SIZE,    \* bound: the bytes of a block
          Value        \* ints passed to set and init

ASSUME MemoryAssumption ==
  /\ NULL \notin Block
  /\ BYTE \in Nat \ {0, 1} /\ MAX_SIZE \in Nat \ {0}
  /\ Value \subseteq Int

VARIABLES len,      \* the size of each block, 0 when it is free
          mem,      \* the bytes of each block
          ptr,      \* what the caller's variables point to
          size,     \* the bytes the caller takes its blocks to have
          refused,  \* resize has been refused memory
          broken    \* undefined behaviour: "overrun" past a block, "null" written to

vars == <<len, mem, ptr, size, refused, broken>>

Byte == 0 .. BYTE - 1
Contents(n) == [1 .. n -> Byte]
Held(v) == ptr[v] # NULL
View(v) == mem[ptr[v]]
Smaller(a, b) == IF a < b THEN a ELSE b

Init == /\ len = [b \in Block |-> 0]
        /\ mem = [b \in Block |-> <<>>]
        /\ ptr = [v \in Var |-> NULL]
        /\ size = [v \in Var |-> 0]
        /\ refused = FALSE
        /\ broken = "no"
-----------------------------------------------------------------------------
(* The C library's heap *)

\* Block b becomes v's, with n bytes c; whatever v pointed to before is not touched.
Give(v, b, n, c) == /\ len' = [len EXCEPT ![b] = n]
                    /\ mem' = [mem EXCEPT ![b] = c]
                    /\ ptr' = [ptr EXCEPT ![v] = b]
                    /\ size' = [size EXCEPT ![v] = n]
                    /\ UNCHANGED <<refused, broken>>

\* malloc: the bytes of a new block are indeterminate.
Malloc(v, n) == \E b \in Block, c \in Contents(n) : len[b] = 0 /\ Give(v, b, n, c)

Break(how) == broken' = how /\ UNCHANGED <<len, mem, ptr, size, refused>>
ReturnsNull == UNCHANGED vars

\* v's block goes, and v with it.
Release(v) == /\ len' = [len EXCEPT ![ptr[v]] = 0]
              /\ mem' = [mem EXCEPT ![ptr[v]] = <<>>]
              /\ ptr' = [ptr EXCEPT ![v] = NULL]
              /\ size' = [size EXCEPT ![v] = 0]
              /\ UNCHANGED <<refused, broken>>

\* v's block of n bytes moves to b, which is it or a free one, with the bytes c.
Move(v, b, n, c) ==
  /\ len' = [x \in Block |-> IF x = b THEN n ELSE IF x = ptr[v] THEN 0 ELSE len[x]]
  /\ mem' = [x \in Block |-> IF x = b THEN c ELSE IF x = ptr[v] THEN <<>> ELSE mem[x]]
  /\ ptr' = [ptr EXCEPT ![v] = b]
  /\ size' = [size EXCEPT ![v] = n]
  /\ UNCHANGED <<refused, broken>>

\* n bytes of which the first k are those of m.
Keeping(m, k, n) == {c \in Contents(n) : \A i \in 1 .. k : c[i] = m[i]}
-----------------------------------------------------------------------------
(* Allocation *)

fossil_sys_memory_alloc(v, n) ==
  /\ ~Held(v)
  /\ (n > 0 /\ Malloc(v, n)) \/ ReturnsNull

fossil_sys_memory_calloc(v, num, n) ==
  /\ ~Held(v)
  /\ \/ /\ num > 0 /\ n > 0 /\ num * n <= MAX_SIZE
        /\ \E b \in Block : len[b] = 0 /\ Give(v, b, num * n, [i \in 1 .. num * n |-> 0])
     \/ ReturnsNull

fossil_sys_memory_free(v) == IF Held(v) THEN Release(v) ELSE UNCHANGED vars

\* realloc keeps the block, moves it, or fails and leaves it; size 0 frees it (glibc).
fossil_sys_memory_realloc(v, n) ==
  \/ /\ Held(v) /\ n > 0
     /\ \E b \in Block, c \in Keeping(View(v), Smaller(len[ptr[v]], n), n) :
          (b = ptr[v] \/ len[b] = 0) /\ Move(v, b, n, c)
  \/ Held(v) /\ n = 0 /\ Release(v)
  \/ (Held(v) => n > 0) /\ ReturnsNull

\* Slips for the mutation runs: the larger size copied, ...
CopySizeLarger(old_size, new_size) == IF new_size < old_size THEN old_size ELSE new_size

CopySize(old_size, new_size) == IF new_size < old_size THEN new_size ELSE old_size

\* ... the old block not freed, ...
ResizeMovesNoFree(v, n) ==
  \E b \in Block : \E c \in Keeping(View(v), CopySize(size[v], n), n) :
    len[b] = 0 /\ Give(v, b, n, c)

\* ... the new block's bytes left as malloc gave them, ...
ResizeMovesNoCopy(v, n) ==
  \E b \in Block : \E c \in Contents(n) : len[b] = 0 /\ Move(v, b, n, c)

ResizeMoves(v, n) ==
  IF CopySize(size[v], n) > len[ptr[v]] THEN Break("overrun")
  ELSE \E b \in Block : \E c \in Keeping(View(v), CopySize(size[v], n), n) :
         len[b] = 0 /\ Move(v, b, n, c)

\* Out of memory, resize returns the old pointer, not a null one, and the caller takes the
\* block to have n bytes now.  (One that compared the pointers could tell: a success is
\* always another block.)
ResizeRefused(v, n) == /\ size' = [size EXCEPT ![v] = n]
                       /\ refused' = TRUE
                       /\ UNCHANGED <<len, mem, ptr, broken>>

fossil_sys_memory_resize(v, n) ==
  \/ ~Held(v) /\ ReturnsNull
  \/ Held(v) /\ n = 0 /\ Release(v)
  \/ Held(v) /\ n > 0 /\ (ResizeMoves(v, n) \/ ResizeRefused(v, n))

\* dup of the first n bytes of another variable's block.
fossil_sys_memory_dup(v, from, n) ==
  /\ ~Held(v)
  /\ \/ /\ Held(from) /\ n \in 1 .. size[from]
        /\ IF n > len[ptr[from]] THEN Break("overrun")
           ELSE \E b \in Block : len[b] = 0 /\ Give(v, b, n, SubSeq(View(from), 1, n))
     \/ ReturnsNull

\* The k bytes before the first 0 of m are a string.
IsString(m, k) == m[k + 1] = 0 /\ \A i \in 1 .. k : m[i] # 0

\* ... no room for the 0 at the end of a string, ...
StrdupNoRoom(v, from) ==
  /\ ~Held(v) /\ Held(from)
  /\ \E k \in 0 .. len[ptr[from]] - 1 :
       /\ IsString(View(from), k)
       /\ \/ \E b \in Block : /\ len[b] = 0 /\ k > 0
                              /\ Give(v, b, k, SubSeq(View(from), 1, k + 1))
          \/ Break("null")

\* strdup writes through the pointer without testing it.
fossil_sys_memory_strdup(v, from) ==
  /\ ~Held(v)
  /\ \/ /\ Held(from)
        /\ \E k \in 0 .. len[ptr[from]] - 1 :
             /\ IsString(View(from), k)
             /\ \/ \E b \in Block : len[b] = 0 /\ Give(v, b, k + 1, SubSeq(View(from), 1, k + 1))
                \/ Break("null")
     \/ ~Held(from) /\ ReturnsNull
-----------------------------------------------------------------------------
(* Bytes: operators on the bytes m of a block; positions count from 1 *)

ToByte(value) == value % BYTE
fossil_sys_memory_set(m, value, n) == [i \in DOMAIN m |-> IF i <= n THEN ToByte(value) ELSE m[i]]
fossil_sys_memory_init(m, n, value) == fossil_sys_memory_set(m, value, n)
fossil_sys_memory_zero(m, n) == fossil_sys_memory_set(m, 0, n)

\* n bytes of src from j on are copied to dst from i on (memmove, memcpy).
fossil_sys_memory_copy(dst, i, src, j, n) ==
  [k \in DOMAIN dst |-> IF k \in i .. i + n - 1 THEN src[j + k - i] ELSE dst[k]]
fossil_sys_memory_move(m, i, j, n) == fossil_sys_memory_copy(m, i, m, j, n)

\* The loop that counts size down to 0.
fossil_sys_memory_secure_zero(m, n) ==
  LET z[k \in 0 .. n] == IF k = 0 THEN m ELSE [z[k - 1] EXCEPT ![k] = 0]
  IN  z[n]

\* ... and whole patterns only.
FillWhole(m, p, total) ==
  LET f[k \in 0 .. total \div Len(p)] ==
        IF k = 0 THEN m
        ELSE fossil_sys_memory_copy(f[k - 1], (k - 1) * Len(p) + 1, p, 1, Len(p))
  IN  f[total \div Len(p)]

\* Whole patterns while they fit, and the first bytes of one into what is left.
fossil_sys_memory_fill(m, p, total) ==
  LET n == Len(p)
      f[k \in 0 .. total \div n] ==
        IF k = 0 THEN m ELSE fossil_sys_memory_copy(f[k - 1], (k - 1) * n + 1, p, 1, n)
      offset == (total \div n) * n
  IN  fossil_sys_memory_copy(f[total \div n], offset + 1, p, 1, total - offset)

\* Byte by byte, a of m with b of m: the two regions may be any of one memory.
fossil_sys_memory_swap(m, a, b, n) ==
  LET s[k \in 0 .. n] ==
        IF k = 0 THEN m
        ELSE [s[k - 1] EXCEPT ![a + k - 1] = s[k - 1][b + k - 1],
                              ![b + k - 1] = s[k - 1][a + k - 1]]
  IN  s[n]

\* The position found, or 0.
fossil_sys_memory_find(m, value, n) ==
  LET f[k \in 1 .. n + 1] == IF k > n THEN 0 ELSE IF m[k] = value THEN k ELSE f[k + 1]
  IN  f[1]

\* The sign of memcmp; -1 also says that the arguments are no good.
fossil_sys_memory_compare(a, b, n) ==
  IF n = 0 THEN -1
  ELSE IF \A i \in 1 .. n : a[i] = b[i] THEN 0
  ELSE LET d == CHOOSE i \in 1 .. n : a[i] # b[i] /\ \A j \in 1 .. i - 1 : a[j] = b[j]
       IN  IF a[d] < b[d] THEN -1 ELSE 1

fossil_sys_memory_is_valid(v) == Held(v)

\* The counters that memory.c declares and never changes.
fossil_sys_memory_stats == [allocs |-> 0, bytes |-> 0]

\* The caller has a function write to the first n bytes that v points to.
Writes(m, n) ==
  {fossil_sys_memory_set(m, x, n) : x \in Value}
    \cup {fossil_sys_memory_zero(m, n), fossil_sys_memory_secure_zero(m, n)}
    \cup {fossil_sys_memory_fill(m, p, n) : p \in Contents(1) \cup Contents(2)}
    \cup {fossil_sys_memory_move(m, 1, n - k + 1, k) : k \in 1 .. n}
    \cup {fossil_sys_memory_move(m, n - k + 1, 1, k) : k \in 1 .. n}

Write(v, n) ==
  /\ Held(v) /\ n \in 1 .. size[v]
  /\ IF n > len[ptr[v]] THEN Break("overrun")
     ELSE /\ \E c \in Writes(View(v), n) : mem' = [mem EXCEPT ![ptr[v]] = c]
          /\ UNCHANGED <<len, ptr, size, refused, broken>>

\* swap and copy between the first n bytes of two blocks.
Exchange(v, w, n) ==
  /\ Held(v) /\ Held(w) /\ v # w /\ n \in 1 .. Smaller(size[v], size[w])
  /\ IF n > len[ptr[v]] \/ n > len[ptr[w]] THEN Break("overrun")
     ELSE LET both == View(v) \o View(w)
              done == fossil_sys_memory_swap(both, 1, len[ptr[v]] + 1, n)
          IN  /\ mem' = [mem EXCEPT
                   ![ptr[v]] = SubSeq(done, 1, len[ptr[v]]),
                   ![ptr[w]] = SubSeq(done, len[ptr[v]] + 1, Len(both))]
              /\ UNCHANGED <<len, ptr, size, refused, broken>>

Copy(v, w, n) ==
  /\ Held(v) /\ Held(w) /\ v # w /\ n \in 1 .. Smaller(size[v], size[w])
  /\ IF n > len[ptr[v]] \/ n > len[ptr[w]] THEN Break("overrun")
     ELSE /\ mem' = [mem EXCEPT ![ptr[v]] = fossil_sys_memory_copy(@, 1, View(w), 1, n)]
          /\ UNCHANGED <<len, ptr, size, refused, broken>>
-----------------------------------------------------------------------------
\* class Memory has a method for each of the functions, which calls it.
Call(v) ==
  \/ fossil_sys_memory_free(v)
  \/ \E n \in 0 .. MAX_SIZE :
       \/ fossil_sys_memory_alloc(v, n)
       \/ \E num \in 0 .. MAX_SIZE : fossil_sys_memory_calloc(v, num, n)
       \/ fossil_sys_memory_realloc(v, n)
       \/ fossil_sys_memory_resize(v, n)
       \/ Write(v, n)
       \/ \E w \in Var : \/ fossil_sys_memory_dup(v, w, n)
                         \/ Exchange(v, w, n)
                         \/ Copy(v, w, n)
  \/ \E w \in Var : fossil_sys_memory_strdup(v, w)

Next == broken = "no" /\ \E v \in Var : Call(v)
Spec == Init /\ [][Next]_vars
-----------------------------------------------------------------------------
\* The variables keep their types: a block holds as many bytes as were allocated for it, so
\* nothing is written behind its end, and a free one holds none.
TypeOK ==
  /\ len \in [Block -> 0 .. MAX_SIZE]
  /\ mem \in [Block -> Seq(Byte)] /\ \A b \in Block : mem[b] \in Contents(len[b])
  /\ ptr \in [Var -> Block \cup {NULL}]
  /\ size \in [Var -> 0 .. MAX_SIZE]
  /\ refused \in BOOLEAN
  /\ broken \in {"no", "overrun", "null"}

\* Through failed and successful alloc, realloc, resize, dup and free, the allocated
\* blocks are exactly those the caller's variables point to, and no two variables point
\* to one block: nothing leaks, no pointer dangles, and nothing can be freed twice.
OneOwner ==
  /\ \A b \in Block : len[b] > 0 <=> \E v \in Var : ptr[v] = b
  /\ \A v, w \in Var : Held(v) /\ ptr[v] = ptr[w] => v = w

\* resize and realloc keep the bytes the caller may use, as far as there is room, wherever
\* the block goes (memory.c:221); and what happens to one block changes no other.
ContentKept ==
  [][\A v \in Var :
       Held(v) /\ Held(v)' /\ (ptr'[v] # ptr[v] \/ len'[ptr'[v]] # len[ptr[v]]) =>
         /\ \A i \in 1 .. Smaller(Smaller(size[v], len[ptr[v]]), size'[v]) :
              View(v)'[i] = View(v)[i]
         /\ \A w \in Var \ {v} : Held(w) => ptr'[w] = ptr[w] /\ View(w)' = View(w)]_vars

\* A caller that uses no more of a block than it asked for reads or writes past one only
\* after resize has been refused memory (memory.c:217), which its result does not say.
OverrunOnlyAfterRefusal == broken = "overrun" => refused

\* What fill, swap and find promise, on the bytes of every held block: fill repeats the
\* pattern, cut at the end, and touches nothing behind; swap exchanges two regions that
\* do not overlap and loses no byte of two that do; find gives the first occurrence.
FillRight(m) ==
  \A n \in 1 .. Len(m), p \in Contents(1) \cup Contents(2) :
    fossil_sys_memory_fill(m, p, n) =
      [i \in DOMAIN m |-> IF i <= n THEN p[((i - 1) % Len(p)) + 1] ELSE m[i]]
Reordered(s, m) ==
  \E perm \in [DOMAIN m -> DOMAIN m] :
    /\ \A i, j \in DOMAIN m : perm[i] = perm[j] => i = j
    /\ \A i \in DOMAIN m : s[i] = m[perm[i]]
SwapRight(m) ==
  \A a, b \in DOMAIN m : \A n \in 1 .. Len(m) :
    a + n - 1 <= Len(m) /\ b + n - 1 <= Len(m) =>
      LET s == fossil_sys_memory_swap(m, a, b, n)
      IN  /\ a + n <= b => \A i \in DOMAIN m :
               s[i] = IF i \in a .. a + n - 1 THEN m[i - a + b]
                      ELSE IF i \in b .. b + n - 1 THEN m[i - b + a] ELSE m[i]
          /\ a = b => s = m
          /\ Reordered(s, m)
FindRight(m) ==
  \A x \in Byte, n \in 1 .. Len(m) :
    LET f == fossil_sys_memory_find(m, x, n)
    IN  IF f = 0 THEN x \notin {m[i] : i \in 1 .. n}
        ELSE f <= n /\ m[f] = x /\ x \notin {m[i] : i \in 1 .. f - 1}
BytesRight ==
  \A v \in Var : Held(v) => FillRight(View(v)) /\ SwapRight(View(v)) /\ FindRight(View(v))
=============================================================================
