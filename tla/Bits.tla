-------------------------------- MODULE Bits --------------------------------
(***************************************************************************)
(* Flag words and tables of named flags: code/logic/bitwise.c, and the     *)
(* class Bitwise with the operators on table entries of bitwise.h.  A word *)
(* is the set of its bits.  A text is the sequence of the pieces between   *)
(* its separators; of a name only its identity and its length matter.      *)
(***************************************************************************)
EXTENDS Integers, Sequences, FiniteSets, SequencesExt, Calls

CONSTANTS Bit,         \* the bits of a word, 0 .. 63
          Name,        \* names of flags
          Width,       \* their lengths
          MAX_ENTRIES, \* bound: the entries of a table
          MAX_PIECES,  \* bound: the pieces of a text
          MAX_OUT      \* bound: the size of an output buffer

ASSUME BitsAssumption ==
  /\ Bit \subseteq Nat /\ IsFiniteSet(Bit)
  /\ Width \in [Name -> Nat \ {0}]
  /\ MAX_ENTRIES \in Nat /\ MAX_PIECES \in Nat /\ MAX_OUT \in Nat

Word == SUBSET Bit
Entry == [name : Name, bit : Word]
Table == BoundedSeq(Entry, MAX_ENTRIES)
Text == BoundedSeq(Name \cup {"", "unknown"}, MAX_PIECES)   \* "": two separators in a row

\* An entry is not the null pointer.
ASSUME EntryAssumption == NULL \notin Entry

\* The first of the entries at some positions, NULL if there is none.
First(table, at) == IF at = {} THEN NULL ELSE table[Min(at)]
Named(table, name) == First(table, {i \in DOMAIN table : table[i].name = name})
-----------------------------------------------------------------------------
\* lookup: -1 and the caller's word untouched when there is no such name.
fossil_sys_bitwise_lookup(name, table) ==
  LET f == Named(table, name)
  IN  IF f = NULL THEN [ret |-> -1] ELSE [ret |-> 0, bit |-> f.bit]

\* parse: strtok passes over empty pieces, and names that are not in the table are
\* ignored.  Without memory for its copy of the text it returns 0.
Parsed(text, table) ==
  UNION {f.bit : f \in {Named(table, text[i]) : i \in DOMAIN text} \ {NULL}}
fossil_sys_bitwise_parse(text, table, memory) == IF memory THEN Parsed(text, table) ELSE {}

fossil_sys_bitwise_all(table) == UNION {table[i].bit : i \in DOMAIN table}
fossil_sys_bitwise_validate(bits, table) ==
  IF bits \ fossil_sys_bitwise_all(table) # {} THEN -1 ELSE 0
fossil_sys_bitwise_name(bit, table) ==
  LET f == First(table, {i \in DOMAIN table : table[i].bit = bit})
  IN  IF f = NULL THEN NULL ELSE f.name

\* Slips for the mutation runs: a loop that prints only what the word contains as a
\* whole, ...
HitsContained(bits, table) == {i \in DOMAIN table : table[i].bit \subseteq bits}

\* The positions of the entries format prints.
Hits(bits, table) == {i \in DOMAIN table : bits \cap table[i].bit # {}}

\* ... and a test that forgets the terminator.
RoomNoTerminator(offset, n, out_size) == offset + n < out_size

\* The test that there is room for a separator, a name and the terminator.
Room(offset, n, out_size) == offset + n + 1 < out_size

\* A round of format's loop: what it returns so far, the names it has put into the buffer
\* and the offset behind them.  A loop that has returned does nothing any more.
PutName(s, bits, table, k, out_size) ==
  LET n == Width[table[k].name]
  IN  IF k \notin Hits(bits, table) \/ s.ret = -1 THEN s
      ELSE IF ~Room(s.offset, n, out_size)
      THEN [ret |-> -1, text |-> s.text, offset |-> s.offset]
      ELSE [ret |-> 0, text |-> Append(s.text, table[k].name),
            offset |-> s.offset + (IF s.offset > 0 THEN 1 ELSE 0) + n]
Formatted(bits, table, out_size) ==
  LET p[k \in 0 .. Len(table)] ==
        IF k = 0 THEN [ret |-> 0, text |-> <<>>, offset |-> 0]
        ELSE PutName(p[k - 1], bits, table, k, out_size)
  IN  p[Len(table)]

\* written: the bytes of the buffer that are; the last is the terminator.
fossil_sys_bitwise_format(bits, table, out_size) ==
  LET s == Formatted(bits, table, out_size)
  IN  [ret |-> IF s.ret = 0 /\ s.offset < out_size THEN 0 ELSE -1,
       text |-> s.text,
       written |-> IF s.offset > 0 THEN s.offset + 1
                   ELSE IF s.ret = 0 /\ out_size > 0 THEN 1 ELSE 0]

\* The portable loop: the lowest bit is cleared until none is left.
fossil_sys_bitwise_count(bits) ==
  LET c[w \in SUBSET bits] ==
        IF w = {} THEN 0 ELSE 1 + c[w \ {CHOOSE b \in w : \A x \in w : b <= x}]
  IN  c[bits]

fossil_sys_bitwise_has(bits, bit) == bits \cap bit # {}

\* OR, AND, XOR and NOT of class Bitwise, ...
OR(lhs, rhs) == lhs \cup rhs
AND(lhs, rhs) == lhs \cap rhs
XOR(lhs, rhs) == (lhs \ rhs) \cup (rhs \ lhs)
NOT(bits) == Bit \ bits

\* ... and the overloaded operators, with an entry for one of the words or for both; the
\* assigning ones give the same to their left side.
operator(lhs, entry) ==
  [or |-> OR(lhs, entry.bit), and |-> AND(lhs, entry.bit), xor |-> XOR(lhs, entry.bit),
   not |-> NOT(entry.bit), eq |-> lhs = entry.bit, both |-> AND(lhs, entry.bit) # {}]

\* class Bitwise: each method calls the function of its name.
Bitwise ==
  /\ Idle
  /\ \E table \in Table :
       \/ \E bits \in Word, out_size \in 0 .. MAX_OUT :
            Called("format", [bits |-> bits, table |-> table, out_size |-> out_size],
                   fossil_sys_bitwise_format(bits, table, out_size))
       \/ \E text \in Text, memory \in BOOLEAN :
            Called("parse", [text |-> text, table |-> table, memory |-> memory],
                   fossil_sys_bitwise_parse(text, table, memory))
       \/ \E name \in Name :
            Called("lookup", [name |-> name, table |-> table],
                   fossil_sys_bitwise_lookup(name, table))
       \/ \E bits \in Word :
            Called("inspect", [bits |-> bits, table |-> table],
                   [name |-> fossil_sys_bitwise_name(bits, table),
                    validate |-> fossil_sys_bitwise_validate(bits, table),
                    count |-> fossil_sys_bitwise_count(bits),
                    has |-> fossil_sys_bitwise_has(bits, fossil_sys_bitwise_all(table))])
       \/ \E bits \in Word, i \in DOMAIN table :
            Called("operator", [lhs |-> bits, entry |-> table[i]],
                   operator(bits, table[i]))
-----------------------------------------------------------------------------
NamesDiffer(table) == \A i, j \in DOMAIN table : table[i].name = table[j].name => i = j

\* What format has printed parse reads again: the flags of all entries the word touches;
\* all of the word, if validate accepts it; and nothing but the word, if no entry
\* reaches beyond it.  So single-bit tables are read back exactly.
FormatParses ==
  call.fn = "format" /\ call.result.ret = 0 /\ NamesDiffer(call.args.table) =>
    LET bits == call.args.bits
        table == call.args.table
        back == Parsed(call.result.text, table)
    IN  /\ back = UNION {x.bit : x \in {y \in Range(table) : y.bit \cap bits # {}}}
        /\ fossil_sys_bitwise_validate(bits, table) = 0 => bits \subseteq back
        /\ (\A i \in DOMAIN table : table[i].bit \cap bits # {} => table[i].bit \subseteq bits)
             => back = bits \cap fossil_sys_bitwise_all(table)

\* format never writes behind the buffer, on failure either, and it refuses a buffer that
\* is large enough in one case only: a single name that fits exactly (bitwise.c:67 asks
\* for a separator's byte also before the first name).
Cost(bits, table, k) == IF k \in Hits(bits, table) THEN Width[table[k].name] + 1 ELSE 0
Needed(bits, table) ==
  LET n[k \in 0 .. Len(table)] == IF k = 0 THEN 0 ELSE n[k - 1] + Cost(bits, table, k)
  IN  IF Hits(bits, table) = {} THEN 1 ELSE n[Len(table)]
FormatFits ==
  call.fn = "format" =>
    LET bits == call.args.bits
        table == call.args.table
        out_size == call.args.out_size
    IN  /\ call.result.written <= out_size
        /\ call.result.ret = -1 <=>
             \/ Needed(bits, table) > out_size
             \/ Cardinality(Hits(bits, table)) = 1 /\ Needed(bits, table) = out_size
=============================================================================
