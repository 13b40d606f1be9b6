# Fossil Sys: a TLA+ development

This directory holds TLA+ specifications of Fossil Sys, a C library (with thin C++ classes)
that wraps events, dynamic libraries, processes, the environment, files, memory, bit flags
and host information behind one interface. The modules are translated from the C sources
under `src/code/logic` and the headers under `src/code/logic/fossil/sys`. TLC checks them on
small instances, and TLAPS proves the main results for every value of the constants.

Paths such as `event.c:45` are relative to `src/code/logic`; headers live in its
`fossil/sys` directory.

## 1. Inventory

Every component is a translation unit of its own. They do not call each other: the library
is a set of independent layers over the C library and the kernel, so the interactions that
matter are between one component and its callers, its callbacks, other threads, and the
operating system. The library starts no threads and takes no locks. Unless said otherwise
the POSIX half is meant; the Windows half of each file has the same interface.

| component | state | operations | what makes it hard |
|---|---|---|---|
| Event subsystem (`event.c`) | a static array of 256 events, a counter, one malloc'ed copy of each payload | `init`, `poll`, `wait`, `post`, `shutdown`; class `Event` forwards to them | payloads change owners; `memmove` leaves copies behind; `post` can fail half way; `wait` spins on a counter that only another thread can change, with no synchronisation; timeouts computed from `clock()` |
| Dynamic libraries (`dynamic.c`, `dynamic.h`) | a descriptor (handle, status, id, path) per library, a static error buffer; class `Dynamic` adds `loaded_` | `load`, `unload`, `symbol`, `is_loaded`, `error`, `validate_path`; constructors, moves, destructor, `raw()` | a handle must be closed exactly once through any chain of moves, failed closes and calls behind the object's back; pointers into a dead stack frame |
| Process control (`process.c`) | none of its own; the kernel's process table and the caller's pids | `spawn`, `wait`, `terminate`, `suspend`, `resume`, `send_signal`, `exists`, priorities | a polling loop with a timeout that races the child's exit; exit statuses that can be taken once; pids that are reused; interrupts; pid 0 |
| Process queries (`process.c`) | none | `process_list`, `get_info`, `get_name`, `get_environment`, `get_exe_path`, `get_ppid` | several reads of /proc, between which a pid can vanish or be reused; fixed-size tables |
| Environment (`env.c`) | the process environment | `get`, `set` (which unsets for NULL), `exists`, `get_or`, `get_int`, `get_bool`, `foreach` | two hand-written tables that must agree; a loop over an array that its callback changes |
| System calls (`syscall.c`) | the file system, the working directory | create and delete files and directories (recursively too), list, `is_file`, `is_directory`, `file_exists`, `getcwd`, `chdir`; `execute`, `execute_capture`, `sleep`, `getpid`, `exit` | recursion that follows links and ignores failures, in a tree others change; an array that grows while memory may run out; integer overflow in `sleep` |
| Memory (`memory.c`) | the heap; a statistics structure that nothing updates | `alloc`, `realloc`, `resize`, `calloc`, `free`, `copy`, `move`, `set`, `zero`, `compare`, `dup`, `strdup`, `find`, `swap`, `fill`, ... | results that hide a failed allocation; blocks that move; regions that overlap |
| Bit flags (`bitwise.c`) | none (pure) | `parse`, `format`, `lookup`, ... over a table of names | exact fit of names and separators in a buffer |
| Host information (`hostinfo.c`) | none | one getter per subject (system, CPU, memory, uptime, ...) | fallbacks when a file of /proc is missing or says something unexpected; structures that are not initialised; two clocks; fixed-size fields |
| Null-safety macros (`cnullptr.h`), umbrella header (`framework.h`), build files | none | - | - |

What makes each component correct:

- *Events*: a bounded FIFO of events with the payload bytes they had when posted; each
  payload has one owner; with two threads no index leaves the array, nothing is delivered
  that was not posted, and every wait ends, and not too early.
- *Dynamic libraries*: the loader's open handles are exactly those in descriptors (plus those
  known to be lost); `loaded_` tells the truth; no library is lost silently.
- *Process control*: the caller's view of its children is exact, so no exit status or zombie
  is lost and no foreign process is signalled; waits end, on time.
- *Environment*: what is set is read back; setting one identifier leaves others alone;
  typed getters stay in their ranges; `foreach` sees no variable twice and ends.
- *Process queries*: whoever was there all the time is listed once, and each field of an entry
  comes from a process that had the pid, not from what the table held before.
- *System calls*: a deletion that returns 0 has deleted everything and one that fails all it
  could, and neither deletes what it cannot reach; a listing is complete and fits its array.
- *Memory*: every block has one owner and keeps its contents through `realloc` and `resize`, and a
  careful caller stays inside its blocks; the byte functions do what they say at every boundary.
- *Bit flags*: `parse` reads back what `format` printed; `format` stays in its buffer.
- *Host information*: no field comes back uninitialised, functions that read the same file
  agree, and clocks, texts and markers are read for what they say.

Hazards with their lines are in `PROJECT.json`.

## 2. The modules

| module | what it is | extends / uses |
|---|---|---|
| `EventChannel` | the abstract specification: a bounded FIFO channel with replies | - |
| `EventSlots` | the static data of `event.c`: the array and its counter | - |
| `EventQueue` | `event.c` driven by one thread, payload ownership | `EventSlots`, `INSTANCE EventChannel` |
| `EventWait` | `wait` in one thread, `post` in another, one action per memory access | `EventSlots` |
| `Dynamic` | `dynamic.c` and class `Dynamic` | - |
| `Process` | process control over a kernel, signals to the program itself included | - |
| `Env` | identifier tables, `get`/`set`, typed getters | - |
| `EnvForeach` | `foreach` with a callback that changes the environment | - |
| `ProcessList` | `process_list`, `get_info`, `get_ppid` over a changing /proc | - |
| `Files` | files and directories: recursive deletion, listing, and the calls that are one system call | - |
| `Memory` | every function of `memory.c` over a heap that runs out | - |
| `Calls` | the shape of the layers without state: a call, its arguments, its result | - |
| `Bits`, `Hostinfo` | `bitwise.c` and `hostinfo.c` as functions of their arguments and of what the system answers | `Calls` |
| `Stateless` | a program that calls `bitwise.c` and `hostinfo.c` in any order | `Bits`, `Hostinfo` |
| `Loops` | lemmas: least elements, induction and recursion over intervals of the naturals | `FiniteSetTheorems`, `TLAPS` |
| `EventProofs`, `DynamicProofs`, `ProcessProofs`, `EnvProofs`, `MemoryProofs`, `FilesProofs`, `StatelessProofs` | theorems and proofs | the component; `EventProofs` is about `EventQueue` and `EventWait`, `ProcessProofs` about `Process` and `ProcessList`, `EnvProofs` about `Env` and `EnvForeach`; the last three use `Loops` |
| `MC*` | constants for TLC; `MCProcess` and `MCEnv` hold two modules each, and the variable `part` says which of them a behaviour is of | their component |

Each component module ends with its properties. Between the definitions that model code
stand a few named *slips* (`ShiftShort`, `EmptiedKeepsHandle`, `HasRoomLate`, ...): variants of
the definition that follows, with one plausible mistake each. They are not part of any
specification; substituting one must make a property fail, which shows that the property
depends on that line of the code.

### EventQueue and EventChannel

`event_queue`, `event_count` are the static variables of `event.c:32-33`; slots are numbered
from 0 as in the array. `mem` is the heap: the content of each block malloc can return.
`held` and `dropped` are history: blocks delivered to the caller, and blocks whose last
pointer `init` erased. `result` is what the last call returned. One action per function
(`fossil_sys_event_init`, ...), with `post` split by its outcomes: full, payload copied,
malloc failed, no payload. A post that fails after writing the slot leaves the slot written,
as the code does. `CallerFree` and `CallerWrite` are what a caller may do with a payload
delivered to it.

`ImplementsChannel` is the refinement: the first `event_count` slots, with each payload
replaced by the bytes at its block, are the channel's queue (`Pending`). The channel's
alphabet is accept, refuse, deliver, empty, reset. It is the reason stale slots and shared
blocks matter: if a queued payload were freed, reused or written by a caller, the mapped queue
would change in a step in which the channel's does not.

### EventWait

The same array and counter without payloads, shared by two threads without a lock. Each
C statement is split at its loads and stores (`event_count++` is `PostLoad`, `PostStore`).
A data race has no defined meaning in C, so the model takes the outcomes a build can produce:
every later read of the counter gives either the current value or the one the thread read
last (`\E n \in {event_count, post_load}`: a compiler may keep a static variable in a register),
and the poster's stores to the slot and to the counter may become visible in either order
(`PostSlot`'s two branches; `stores` remembers whether they were seen out of order).
Torn words are not modelled: a `size_t` and a pointer are stored in one piece on the targets
the build names. `WaitSpin(now)` is one round of the loop with a reading of `clock()`;
`ElapsedMs` computes in a signed `clock_t` of `CLOCK_MOD` values, divides towards zero and
casts to `uint32_t` (`UINT32_MOD`).

### Dynamic

`obj` maps each object to its descriptor with `loaded_`, or to NULL when it is not
constructed. The loader is external: `refs` counts open handles per library and a load or
close may fail at any time. `leaked` counts handles no descriptor holds. `raw` records that
the C functions were used through `raw()`, which makes `loaded_` and the handle part ways.
Actions: the constructors, `Load`, `Unload`, `Destroy`, `MoveConstruct`, `MoveAssign`, and
the C functions on `raw()`. `symbol`'s success and `is_loaded` change nothing. String pointers
are abstracted to where they come from (`Origin`), which is what decides whether they
outlive a call. `validate_path` and `resolve_path` are abstracted to the three facts about a
path that they test.

### Process

`proc` is the kernel's table for the pids other than the program's own: nobody, a child (with
its state, its image, a pending fatal signal and its wait status) or a stranger. Exec, exit,
death by signal, and strangers taking and leaving free pids interleave with everything.
The caller may pass any pid to the signalling calls and to `exists`, 0 and its own (`SELF`) included;
`careless` records that it has signalled one that is not in `known`. `terminate`, `suspend` and `resume`
refuse the program's own pid (`SelfRefused`), `send_signal` does not (`KillSelf`), and none
refuses 0, which names the whole process group (`KillGroup`). `self` is what became of the program.
`wpc, wpid, timeout, waited, status` are the control point and
the locals of `fossil_sys_process_wait`: `WaitForever` is the blocking `waitpid`, `WaitPoll` and
`WaitNap` a round of the loop, then `WaitTimedOut` or `WaitReported`; `WaitInterrupted` is the blocking
`waitpid` that a signal handler ends with -1 (`process.c:248`). `slept` is the time really
slept and `owed` the time that signals took from the naps, which `nanosleep` reports and the code does not
look at. `waited` wraps like an `int`. `result` is what the last call returned, and nothing while `wait`
runs. Priorities are single system calls that neither read nor change anything the
other operations use, and are left out.

### Env and EnvForeach

`Env` holds the two tables of the code as data: `GetTable` (`resolve_id`) and `SetTable`
(`set`). `environ` maps every variable name to its value. A value is a record of what the
parsers tell apart: the number it spells or the kind of word it is (`"true"` covers true and yes,
`"false"` false and no). A number is taken to be spelled canonically ("1", not "01").
`Platform` identifiers are answered by the platform (`Sys`) and never by the environment.
`last` is the last call of `set`, if it succeeded. `get_or` is one conditional over `get` and is
left out.

`EnvForeach` follows one loop. The C library's array is external: replacing a variable changes
its entry in place and unsetting one moves the later entries down. A callback that *adds* a
variable makes the library reallocate the array, and the loop would go on in freed memory;
that is undefined behaviour, and is left out.

### ProcessList

/proc is external: `alive` are the processes there are, `PidOf` gives each its pid, and a pid may be
used again once its process has ended. A call reads one file at a time (`ReadName`, `ReadStat`,
`ReadStatm`, `ReadStatus` are the four files `get_info` opens one after another), and each reading is
of whichever process has the pid at that moment, or of none. An entry of `table` records
for each field which process it was read from, so that an entry mixed from two can be told. The table
is the caller's and keeps what the last call left: `Cleared` is the `memset` that `get_info` starts with.
`readdir` may return a pid that was there at any time of the call (`may`) and must return one that
was there all the time (`must`). `Stat` is what stands in `/proc/<pid>/stat` behind the pid, and `Scan` the
`sscanf` that reads it, both in `get_info` and in `get_ppid`: one word, one character, one number. A name with
blanks is several words (`Words`), and the number is then read from the wrong place. `answer` is what the
last `get_info` or `get_ppid` returned. `lived` and `held` are history: who was there during the call, and who held
the entry's pid while it was read.

### Files

The file system is external: a tree of nodes, any of which may be a file, a directory or a link to
another. `stack` holds the nested calls of `delete_directory_recursive`, `listing` the call of
`list_directory`; both go one `readdir` at a time, with another program (`Other`) creating and removing
files and links in between. `Stat` follows links, as `stat` at `syscall.c:230` does; `Live` is whether the
path that is put together from names still leads to the open directory. What the operating system may
refuse it may refuse at any time (`Pass`, and `rmdir` in `DeleteEnd`). `obstacles` and `scope` are
history: what stood in the way of a deletion, and what can be reached from its directory by way of links.
Names are nodes, so that the cutting of a path at `PATH_MAX` is the bound `MAX_DEPTH`: the entry is then passed
over, while the code would go on with the cut path (`syscall.c:227` does not look at what `snprintf`
returns), which may name something else. `stat` and the call that follows it on the same path
(`syscall.c:230`) are one step: what the other program may do between them leaves the tree as a removal of its own or a
refusal by the system does, and both of these the model has. Two nodes never
share a name in one directory.

### Memory

`len` and `mem` are the blocks of the heap and their bytes, `ptr` and `size` the caller's pointers and
what it takes their sizes to be. malloc may fail at any time and returns any bytes. The functions on bytes
(`fill`, `swap`, `find`, ...) are operators on sequences of bytes, translated loop by loop, and
`Write`, `Copy` and `Exchange` apply them to what a variable points to. Without memory `resize` returns the
old pointer, not a null one (`ResizeRefused`), and the caller of the model, which tests for null only,
goes on with the new size. A caller that compared the pointers
could tell: `memory.c:213` always allocates, so a success is another block.
A write past a block or through a null pointer ends the behaviour (`broken`).

### Calls, Bits and Hostinfo

These layers keep no state: the only variable is the call at hand, and each function is an operator
from its arguments to its result. In `Bits` a word is the set of its bits and a text the sequence of the
for the next name. `lookup`, the operators and the name and count functions of `bitwise.c` are carried so that the
program of `Stateless` calls all of that file; each is one expression, and no property is about them.
In `Hostinfo`
the arguments are what the system answers: the lines of `/proc/cpuinfo`, the file of a battery or none,
two readings of a clock. `NULL` is no answer and `Bad` one that cannot be read as a number. A structure
that the class passes without initialising it holds `Garbage` (or `Empty`, if the stack happens to hold zeros) in
every field; `get_power` and `get_architecture` do not clear it, so they take it as an argument.
`get_cpuid` is external: the compiler's `__get_cpuid`, which compares the leaf with the highest basic
leaf and, if it is above, fails and leaves the registers alone. `fossil_detect_vm_cpuid` ignores that
failure, as the code does. Texts are cut
where their length matters (`Cut`, `fossil_sys_strcpy`) and are values elsewhere.

## 3. The runs

| run (config) | question | states | result |
|---|---|---|---|
| `queue` (`MCEventQueue.cfg`) | one owner per block; implements the channel | 63 208 (symmetry) | holds |
| `wait_race` (`MCEventWait.cfg`) | bounds, phantom events, timeout, termination under the race | 484 160 | holds |
| `wait_zero` (`MCEventWaitZero.cfg`) | is a wait with timeout 0 infinite? | - | violated, see Findings |
| `dynamic` (`MCDynamic.cfg`) | handle accounting through moves, failures, `raw()` | 23 686 (symmetry) | holds |
| `dynamic_id` (`MCDynamicId.cfg`) | does the id survive a load? | - | violated, see Findings |
| `process` (`MCProcess.cfg`) | control: exact view of children, no stranger signalled, timeouts and termination with any pids and interrupts; queries: who is listed, and whose fields, while pids change hands | 907 533 | holds |
| `get_ppid` (`MCProcessPpid.cfg`) | is the answer of `get_ppid` the parent? | - | violated, see Findings |
| `env` (`MCEnv.cfg`) | tables agree and do not interfere; `foreach`: nothing twice, bounded misses, termination | 38 327 | holds |
| `memory` (`MCMemory.cfg`) | owners, contents, bounds, and the byte functions | 9 606 (symmetry) | holds |
| `files` (`MCFiles.cfg`) | what deletion deletes and leaves, what a listing holds | 106 605 | holds |
| `stateless` (`MCStateless.cfg`) | `format` and `parse`; every host query on every answer | 707 288 | holds |
| `utc_offset` (`MCStatelessOffset.cfg`) | is the UTC offset in the range the test asserts? | - | violated, see Findings |

`stateless` enumerates inputs rather than interleavings: each state is one call with its arguments
and result, and the properties compare the result with a definition that does not follow the code.

### The properties

- `OneOwner`: every allocated block is in exactly one live slot, or the caller's, or was
  dropped by `init`. It excludes double frees, delivered payloads freed by `shutdown`, and
  leaks other than those of `init`.
- `ImplementsChannel`: order, exactly-once delivery and content.
- `IndicesInBounds`: no slot index, `memmove` length or decrement leaves the array, whatever
  increments and decrements of the counter are lost in the race.
- `NoPhantomEvent`: a wait that reports an event delivers an identifier that was posted. It is
  conditional on the stores having been seen in order: when the counter is seen first, a
  zeroed slot can be delivered (TLC shows it at once without the condition).
- `TimeoutNotEarly` (events): no timeout above 0 is reported before `timeout_ms` of processor time, as long
  as the product in `event.c:81` fits `clock_t`.
- `WaitReturns` (events): every wait with a timeout above 0 ends, with or without posts, also when `clock_t`
  overflows. What the code does with a timeout of 0 is the finding `ZeroIsInfinite`.
- `HandlesCounted`: the loader's count per library equals the descriptors that hold it plus
  the leaked ones. Two descriptors closing one handle, or one unmapped under an object, would
  break it.
- `LoadedIffHandle`, `LeakReported`: unless the C functions have been used through `raw()`, the
  flag and the handle agree, and a handle is lost only in a step where `dlclose` failed and
  the error buffer says so.
- `ChildrenKnown`: the pids the caller believes to be its children are exactly the children
  the kernel still has for it. A timed wait that gives up has therefore not consumed the
  status, and no zombie is out of reach. This rests on the order of `process.c:258-267`: the
  loop is left on a reaped child *before* `waited` grows, so `waited < timeout_ms` still holds.
- `NoStrangerHit`: a caller that has signalled nothing but pids of children it has not been told are gone
  never hits a process that reuses a pid.
- `TimeoutNotEarly` (processes) is a step property: a wait gives up only when the time it has slept, with what signals took
  from its naps, makes up its timeout, also when `waited` overflows. `WaitReturns`: a timed wait ends, interrupted or not, if the
  count of its polls fits an `int` (`CountFits`); an infinite one if the child is dead. `CountFits` is
  needed: within 10 of `INT_MAX` the counter wraps below the timeout and the loop goes round again, for good in
  the worst case (TLC shows it without the condition).
- `RoundTrip`, `NoInterference`: the two tables agree for all identifiers but six, and no two
  identifiers interfere unless they stand for one variable. The six are the four the platform
  answers for, `fossil.user.id` and `fossil.temp.dir`: setting them creates a variable
  with the identifier as its name, which no `get` reads.
- `NoneTwice`, `MissesAtMostUnset`, `ForeachEnds`: a callback that unsets variables sees
  none twice, and each unset hides at most one other variable from it.
- `ListComplete`, `FieldsOfHolder`: no pid is listed twice and none that was there all the time
  is missing, unless the table is full; a field comes from a process that had the pid during the call,
  never from an earlier call. Entries
  that mix two processes do occur: `FieldsOfHolder` bounds them to pids that changed hands while
  the entry was read.
- `OneOwner` (memory), `ContentKept`: blocks are exactly what the caller's pointers point to, and keep
  the bytes the caller may use when they move. `OverrunOnlyAfterRefusal`: the one way for a careful
  caller to leave a block is the refusal of `resize`, which looks like success (`memory.c:217`).
  `BytesRight`: `fill`, `swap` and `find` against definitions without loops, overlapping regions included.
- `DeletesAll`: a recursive deletion that returns 0 has deleted everything below; one that fails has
  deleted all that nothing stood in the way of, although it ignores what its inner calls return. `OnlyReached`:
  it deletes nothing that its directory does not lead to. It does leave the directory through links to
  other directories, which is why the property speaks of what is reached and not of what lies below; the targets
  of links to files count as reached, although `unlink` takes the link and not its target.
  `ListingRight`: completeness, uniqueness and the array, also when memory runs out half way.
- `FormatParses`, `FormatFits`: what `format` prints `parse` reads again, with the exact conditions for
  tables of overlapping flags; `format` never writes behind its buffer, and refuses one that is large enough
  in a single case, a lone name that fits exactly (`bitwise.c:67`).
- `NothingStale`: which calls may return a structure with uninitialised fields, and which fields:
  `get_architecture`'s processor name and frequency when `/proc/cpuinfo` does not give them, and three
  functions that fail before they write.
- `CpuAgree`: `get_cpu` and `get_architecture` agree on every `/proc/cpuinfo` of one package, that is, one
  whose lines of a model name, of the cores and of the siblings say the same each time (`Alike`). The numbers
  of its processors and the frequencies differ, as they do.
- `ClocksRight`: the boot time is right up to the delay between two readings; the UTC offset is right, up to the
  quarters of an hour that the code drops, while no midnight lies between local time and UTC. What it is
  with a midnight between them is the finding `OffsetInRange`.
- `ContainerSeen`: containers are missed only without `/proc/1/cgroup`; a virtual machine is reported exactly when the processor's
  hypervisor bit or a known product name says so, and in the second case by that name. Nothing is
  promised of the name in the first case, because of `hostinfo.c:1310` (see below).
- `GpuRead`: the quoted texts of lspci's line, with the one shape of it that ends in a null pointer.

### Bounds, and why they are enough

- `MAX_EVENTS = 3` (256 in the code): a first, a middle and a last slot, so `memmove` has
  something to move and something to leave behind; the code treats all slots alike. Three
  blocks: every slot can own one, and malloc fails when they are used up (it may also fail
  earlier). Two identifiers and two contents distinguish order and bytes.
- `EventWait`: `MULT = 2`, `CLOCKS_PER_SEC = 4` keep a clock tick below one unit of the timeout,
  as 1000 and 1 000 000 do. `CLOCK_MOD = 32` and `UINT32_MOD = 8` are a `clock_t` of 5 bits and a
  `uint32_t` of 3. `MAX_CPU = 9` ticks outlast every timeout in {0, 3, 5}: 3 expires properly
  and 5 only through the overflow.
- Three objects let a chain of moves pass through a third one; two libraries let an object
  take another than it had; `MAX_REFS = 3` is one handle for each object.
- `Process`: two pids, one being waited for while the other is reused, pid 0 and the program's own. `INTERVAL = 6` and `INT_MAX = 15`
  are scaled so that the counter can overflow: timeouts -1, 0, 3, 12 and 15 give an infinite wait, no poll, one,
  two and three polls, the third of which counts to 18 and wraps to -14. `MAX_SLEPT = 18` lies past every
  timeout; signals may take `MAX_OWED = 6`, the whole of a nap, from a wait.
- `Env`: all identifiers and one plain name; at most `MAX_SET = 2` variables at a time, enough
  for one to disturb another; 4-bit ints (`INT_MAX = 7`), 6-bit longs (`LONG_MAX = 31`), and 40,
  a number that fits neither, so that every branch of the typed getters is taken.
- `EnvForeach`: up to `MAX_ENTRIES = 3` entries, so a callback can unset before, at and behind
  the position; one long name, and entries without `=`.

- `ProcessList`: four processes, two of which share a pid one after the other; `MAX = 2` (1024 in the code), so
  that the table is full with one process to spare; names without a blank, and with one before a
  word, a letter and a number.
- `Memory`: two pointers, and three blocks because `resize` holds the old block and the new one at a time;
  blocks of up to 3 bytes, so that a pattern of two leaves a rest; bytes of 3 values.
- `Files`: seven nodes: a directory with a file and a subdirectory that has a file, and another directory
  with a file; each of the inner three may be a link, to a file, to the other directory, back to the top. One link
  per path (40 in Linux) and four directories, so that loops reach their bound. The array starts
  with one slot (10 in the code) and grows with the second entry.
- `Bits`: tables of up to three entries over two bits, names of one and three characters, buffers from
  0 to 12 bytes: the longest text needs 12. `Hostinfo`: files of up to three lines, `WORD = 64` values of a
  `uint64_t`, two clock steps a second, boot times before and after 1970, all times of day and time zones
  in quarters of an hour, lines with up to nine quotes and characters against fields of 3 bytes.

Symmetry is used where blocks, identifiers, data, pointers, objects or libraries are interchangeable.
No liveness property is checked under symmetry; the refinement `ImplementsChannel` is a step
property without fairness and treats the permuted values alike.

### Fairness

- `EventWait`: weak fairness of the spinning step that reads an advanced clock and of the steps of
  the final poll. A spinning thread uses processor time, and processor time is what `clock()`
  counts. Nothing is assumed of the poster.
- `Process` (`Fairness`): weak fairness of the steps of `wait`, which the program's own thread takes. Nothing is assumed of
  children, nor of signals: `WaitInterrupted` is not among the fair steps. An infinite
  wait is promised to end only when the child is dead: a suspended child blocks it for good.
- `EnvForeach` (`ForeachFairness`): weak fairness of the loop's own steps.

Deadlock checking is off where the program really may stop: a loop followed to its end
(`env`), and an infinite wait for a suspended child or a program that stopped or killed itself
(`process`).

### Findings

Four runs check what a header or a test says of the code and find it violated:

- `dynamic_id` (`IdOutlivesLoad`), `dynamic.c:189`: a successful load points `id` and `path` at a local array of the
  function that returns, and overwrites the id the constructor stored, while `dynamic.h:197` says that loading sets
  the library's id.
- `wait_zero` (`ZeroIsInfinite`), `event.c:82`: a wait with timeout 0 returns 0 in its first round if there is no event;
  `event.h:82` says that 0 is infinite. The properties of `wait_race` speak of timeouts above 0.
- `get_ppid` (`PpidIsParent`), `process.c:319`: a blank in the name of a process shifts the fields of its `stat` file, and the number
  that `get_ppid` returns is nobody's parent; `process.h:182` promises the parent's pid, 0 or -1.
- `utc_offset` (`OffsetInRange`), `hostinfo.c:1699`: the UTC offset is a difference of hours of the day, a day off when midnight
  lies between local time and UTC, outside the range that `code/tests/cases/test_hostinfo.c:203` asserts.

Divergences seen while modelling that have no run of their own:

- `event.c:45`: a second `init` erases pointers to queued payloads (`dropped` in `EventQueue`); `event.h:99` says
  shutdown releases all resources.
- `process.c:167`: `terminate(0)` passes the test against `getpid()` and signals the caller's process group; the
  comment on the next line says terminating self is not allowed. `process.c:326`: `send_signal` makes no such test at all, so
  a program can stop or kill itself with its own pid. The model has both steps; no property is claimed of them.
- `env.c:438`: a callback that unsets variables makes the loop pass over others; `env.h:222` says it iterates
  over all. `MissesAtMostUnset` bounds them.
- `memory.h:45` and its like (`memory.h:157` for `resize`) say that a function exits when there is no memory; all of
  `memory.c` returns NULL, `resize` the old pointer, and `strdup` writes through the null pointer (`memory.c:333`). `memory.h:232` describes
  statistics that nothing updates.
- `bitwise.c:67`: a buffer in which a single name fits exactly is refused (`FormatFits`).
- `syscall.c:100`: `sleep` takes seconds and is given milliseconds times 1000, in an `int` that overflows.
- `syscall.c:129`: `delete_file` removes empty directories as well.
- `hostinfo.c:1310`: leaf 0x40000000 of CPUID is above the highest basic leaf, so `__get_cpuid` refuses it, and the failure is not
  looked at: the "hypervisor" is spelled by the registers of leaf 1, whose first byte is usually 0, and a virtual machine
  that has a signature comes back without a name. `hostinfo.h:148` gives KVM, VMware and Hyper-V as examples of the name.
- `hostinfo.c:404`: cores are those of one package, threads those of the machine.
- `hostinfo.c:159`: the type of "/" is that of its first line in /proc/mounts, which a later mount may have covered.
- `get_network` reports every interface it finds as up.
- `event.h:73` documents `poll` as 0 for an event and 1 for none; the code (`event.c:58,66`)
  returns 1 for an event and 0 for none.
- `event.c:81`: with a 32-bit `clock_t` the product overflows after about two seconds of processor
  time and the wait may report a timeout early. `TimeoutNotEarly` names the condition.
- `dynamic.h:343`: `raw()` exposes the descriptor; after a raw unload `is_loaded()` still says true,
  and a load through the object is refused.
- `dynamic.c:55,65`: any dot in the path counts as an extension, so `libfoo.1` gets none.
- `process.c:264-265`: an interrupted `nanosleep` counts as 10 ms slept, so a wait may give up early by as much as signals
  took (`owed`), and `waited` overflows an `int` for timeouts within 10 of `INT_MAX`: the wait then ends late or
  never (`CountFits`).
- `process.h:157` promises a negative value when spawning fails; a failed exec is reported as 0 and
  seen only as exit code 127 (`process.c:291`).
- A `pid` above `INT_MAX` reaches `kill` and `waitpid` as a negative number, which names a group or
  every process; the model's pids are positive or 0.
- `env.c:379` casts a `long` to `int`, so a large number changes its value; `env.h:192-193` promises the integer value, or the
  default if it cannot be parsed. The model has the cast (`ToInt`); no property is claimed of it.

## 4. The proofs

TLAPS proves, for every value of the constants allowed by the named assumptions in each module:

| theorem | statement |
|---|---|
| `EventProofs!TypeCorrect`, `OwnersCorrect` | `Spec => []TypeOK`, `[]OneOwner` of `EventQueue` |
| `EventProofs!ChannelImplemented` | `Spec => ImplementsChannel` (`EventQueue` refines `EventChannel`) |
| `EventProofs!RaceTypeCorrect`, `BoundsCorrect`, `NoPhantomCorrect`, `TimeoutCorrect` | `RaceSpec => []RaceTypeOK`, `[]IndicesInBounds`, `[]NoPhantomEvent`, `[]TimeoutNotEarly` of `EventWait` |
| `DynamicProofs!TypeCorrect`, `HandlesCorrect`, `LoadedCorrect` | `Spec => []TypeOK`, `[]HandlesCounted`, `[]LoadedIffHandle` |
| `DynamicProofs!LeakCorrect` | `Spec => LeakReported` |
| `ProcessProofs!TypeCorrect`, `ChildrenCorrect`, `SignalsCorrect` | `Spec => []TypeOK`, `[]ChildrenKnown`, `[]NoStrangerHit` of `Process` |
| `ProcessProofs!TimeoutCorrect` | `Spec => TimeoutNotEarly` of `Process` |
| `ProcessProofs!QueryTypeCorrect`, `ListCorrect`, `FieldsCorrect` | `QuerySpec => []QueryTypeOK`, `[]ListComplete`, `[]FieldsOfHolder` of `ProcessList` |
| `EnvProofs!RoundTripCorrect` | `Spec => []RoundTrip` of `Env` |
| `EnvProofs!NoInterferenceCorrect` | `Spec => NoInterference` |
| `EnvProofs!NoneTwiceCorrect`, `MissesCorrect` | `ForeachSpec => []NoneTwice`, `[]MissesAtMostUnset` of `EnvForeach` |
| `MemoryProofs!TypeCorrect`, `OwnersCorrect`, `OverrunCorrect`, `BytesCorrect` | `Spec => []TypeOK`, `[]OneOwner`, `[]OverrunOnlyAfterRefusal`, `[]BytesRight` |
| `MemoryProofs!ContentCorrect` | `Spec => ContentKept` |
| `FilesProofs!DeletesCorrect`, `ReachedCorrect`, `ListingCorrect` | `Spec => DeletesAll`, `OnlyReached`, `ListingRight` |
| `StatelessProofs!FitsCorrect`, `ParsesCorrect` | `Spec => []FormatFits`, `[]FormatParses` of `Bits` |
| `StatelessProofs!StaleCorrect`, `CpuCorrect`, `ClocksCorrect`, `ContainerCorrect`, `GpuCorrect` | `Spec => []NothingStale`, `[]CpuAgree`, `[]ClocksRight`, `[]ContainerSeen`, `[]GpuRead` of `Hostinfo` |

These are all the invariants and action properties that the passing runs check, and the type invariants on which
they rest. The assumptions are the named
`ASSUME`s of the component modules, which TLC evaluates on every run: ranges and sizes (no numeral is
that of the configurations), markers such as `NULL`, `Garbage` or `UNKNOWN` that are no values of the
program (`MarkAssumption`, `EntryAssumption`, `SlotsAssumption`, `ListingAssumption`), and, for `Files`, that the
nodes are finitely many and form a tree (`TreeAssumption`: whoever goes up from directory to directory
arrives at the root; stated as well-foundedness, which needs no recursion). Links are not restricted.

### Loops

Many functions of the library are loops over data: bytes of a block, entries of a table, lines of a file,
components of a path. The modules write them as recursive functions, and what such a function yields for
data of any size is proved by induction. The library's induction theorems take the
property as an operator, which the provers cannot instantiate, so `Loops` states induction over *sets*:
`Induct` says that a set of positions which has 0, and with each its successor, has them all, and
`Recursion` that a function defined by a step at a time exists and has the type of its steps. Both rest on `Least`
(a set of naturals has a least element), which comes from the well-foundedness of inclusion among finite sets.
A proof about a loop then has three parts: the function is a run of its body (`ReachRun`, `PathRun`, ...), the
positions at which the loop's invariant holds are a set to which `Induct` applies, and the
invariant at the last position says what the loop returns.

The arguments:

- *OneOwner* is inductive together with `TypeOK`. The hard steps are a post (`OwnerPosted`: the new
  block is free, so it is in no live slot) and a delivery (`OwnerTaken`: shifting the live slots
  removes exactly the first one's payload from `Queued`, although the slot behind the new counter
  still holds a copy). The bound on the number of slots plays no role.
- *ImplementsChannel*: `Pending` is a sequence of what the live slots show (`View`). Each step of the
  queue is one of three things for it: the live slots look as before (`LiveKept`, so `PendingSame`), one
  more slot is live and shows the new event (`PendingAppended`), or the slots have moved down by one
  (`PendingTaken`). What the caller does to its blocks is a stutter, and here `OneOwner` is needed: the
  blocks in `held` are not those of a live slot, so writing or freeing them is not seen.
- *HandlesCounted* is inductive as part of `Books`: for every library the loader's count is the
  number of descriptors that hold it plus the handles that were leaked. Every operation replaces
  one descriptor or moves one to another object, and `CountReplaced` and its companions say by how
  much the number of holders changes; the loader's count and `leaked` change by the same amount.
  That no count falls below zero (`TypeOK`) follows from the balance, and is no assumption.
  *LoadedIffHandle* is inductive (`AllAgree`) as long as `raw` is "unused". *LeakReported* looks
  at the steps that change `leaked` one by one.
- *IndicesInBounds* is part of an inductive invariant `Bounded` (with `TypeOK`). The point is that the
  poster can only raise the counter, the waiter only lower it, and each is the only one to do so:
  from the poster's test `event_count < MAX_EVENTS` on, nobody but itself can make the counter grow past
  what it read, and from the waiter's sight of a non-zero counter on, nobody but itself can make it
  zero. So a stale value errs on the safe side: a lost update makes the counter wrong but leaves
  it within 0..MAX_EVENTS.
- *NoPhantomEvent* needs `Posted`: while stores are in order, all slots below the counter, and below
  every value of it a thread has read or is about to store, are filled with posted identifiers,
  and an identifier once in a slot is only ever replaced by another.
- *ChildrenKnown* is not inductive alone. `IInv` adds the types and `DoneInTime`: a wait that has
  reaped its child has `waited < timeout` or no timeout, so the branch that reports a timeout cannot be
  taken with a consumed status. *NoStrangerHit* follows because a known pid is a child or is being
  reaped, and only an idle program signals: a signal that reaches a stranger was sent to a pid that is not
  known, and makes the caller `careless`.
- *RoundTrip* rests on `TablesAgree`: for the identifiers not listed in `OneWay`, both tables give the
  same variable. The rest is one lemma about `set` followed by `get`. *NoInterference* needs the
  converse for all keys (`WritesOwn`): an identifier that reads the variable a `set` wrote to stands for
  the same variable, because no row of the table leads to the name of an identifier.

- *TimeoutNotEarly* (events) rests on `ElapsedBound`, the arithmetic of `event.c:81`: while the product fits, the
  remainder and the division only make the number smaller that is compared with the timeout. *TimeoutNotEarly*
  (processes) needs `CountedSlept`: during a wait no more has been counted than was slept or taken by signals; an overflow of
  the counter only makes it smaller.
- *ProcessList*: the invariant ties the slot being filled to the pid and to `held` (`HeldRight`), the
  listed pids to those `readdir` has returned (`SeenRight`), and the end of a list to one of its two reasons
  (`Finished`). What starts and ends meanwhile only adds to `lived` and `held`, or takes from `must`, so it
  can break none of them.
- *OneOwner* (memory) is inductive; three lemmas cover what all functions are made of: a block is given to a
  variable without one, released, or moved to a free one. *OverrunOnlyAfterRefusal* needs `SizesRight`: until
  `resize` has been refused, the sizes the caller believes in are those of its blocks.
- *NoneTwice* needs that no entry from the loop's position on has been handed out (`Fresh`): taking an entry out moves
  the later ones down by one, and the position has already moved up. *MissesAtMostUnset* counts (`Counted`): an
  unset can lose the one entry that moves down onto the position that is being left, and a variable that was
  unset does not come back to be unset again.

- *Memory's bytes*: the invariant of the other theorems is extended by the contents (`BytesType`, part of `IInv`): every block holds bytes
  of its length, whatever the loops write. *BytesRight* is then a fact about
  sequences of bytes of any length, by induction over the loops of `fill`, `swap` and `find`: at the i-th turn what lies before
  the position is final and what lies behind it is as it was. *ContentKept* follows the block through each function: only
  `realloc` and `resize` give a variable another block, and `Move` and `ResizeMoves` copy as many bytes as both have.
- *Files*: `Inv` holds the types and that whatever exists lies in a directory (`Tree`). Two facts about trees carry the rest, both by
  going up (`Climb`): nothing exists below what is no directory (`NothingBelow`), and what exists below a directory lies below
  one of its entries (`EntryAbove`).
  - *OnlyReached* needs `ScopeInv`: `scope` is closed under what lies below and where links lead (`Closed`), and has
    every open directory and every entry that `readdir` may still return. `ReachedClosed` shows that as many rounds as
    there are nodes make a set closed, because a round that adds nothing ends them; `Followed`, that a path with any number of links
    stays in a closed set. The other program's links make `scope` grow, and its other steps only take away.
  - *DeletesAll* needs `FramesInv`, about the stack of calls. Each open directory (`Frame`) has all its entries in `must`
    but for those the other program made, which are obstacles and no directories; what an entry was opened as is
    what it is, or it has vanished, or it is an obstacle. As long as the path to the innermost directory has no link
    (`Straight`), the directories lie one below the other, and every entry that was returned is `Done`, that is, whatever is left
    of it has an obstacle at or below it; the one exception is the entry whose deletion is the next call of the stack
    (`Chain`). When a call returns, `KeptDone` turns what is known of its entries into the fact that its directory is done, for the caller above.
    Off a straight path nothing is promised, and nothing need be: what was entered by way of a link does not lie
    below the directory that is deleted. `NoLinks` is why it suffices to look at the path: a directory entry replaced by a
    link has nothing below it, so the calls inside it find nothing.
  - *ListingRight* needs `Copied`: names and null pointers in the array are together as many as the entries read,
    each name once.
- *Bits*: the loop of `format` has after k entries written the names of those among them that the word touches, and an offset
  that is the sum of their lengths and separators, less one; from this come both the room it takes
  (*FormatFits*) and the text that `parse` takes apart again (*FormatParses*).
- *Hostinfo*: a property of a call says nothing between calls, so each is a fact about one function, and the proof a case distinction over
  what the system answers. *CpuAgree* compares the first and the last line that has a key (`FirstPosition`), which say the same
  in a file of one package (`AlikeValue`); *ContainerSeen* rests on what the two calls of `get_cpuid` leave in the
  registers (`CpuidSays`); *GpuRead* finds the n-th
  quote by its rank among the quotes; *ClocksRight* is arithmetic of quotients, of the wrap of an unsigned word, for any width, and of
  the hours of two times of one day (`OffsetRight`).

Only model-checked, because the prover treats neither fairness nor ENABLED: `WaitReturns` (of events and of processes) and
`ForeachEnds`. `IdOutlivesLoad`, `ZeroIsInfinite`, `PpidIsParent` and `OffsetInRange` are violated, as the findings say.

## 5. Not modelled

- The Windows and macOS halves, and the C++ wrappers that only forward (`Event`, `Process`, `Env`).
- System calls: `getpid`, `exit`, `sleep`, `execute` and `execute_capture`, whose effect is that of the system or of
  the program they start.
- Process queries: `get_name` by itself, `get_environment`, `get_exe_path`; priorities. Each is one reading or one
  system call that nothing else depends on.
- `cnullptr.h` (macros over one expression), `framework.h`, build files.
- Two pollers or two posters at once: `event.c` says nothing of threads at all; one poster and one
  waiter is the least that makes `wait` useful.
- Lifetimes of strings that callers pass in and the library keeps (`event.c:98`); a callback of `foreach` that
  adds a variable; pids above `INT_MAX`.

## 6. Order of the work

The event subsystem, dynamic libraries, process control and the environment came first, because they hold
state and meet other actors; then the layers that work on state of others (memory, files, the list of
processes), then those without state. What could follow: several pollers and posters in `EventWait`;
`execute_capture` with its pipe; the Windows halves, whose control flow differs in
`process.c` and `syscall.c`.

To run a check: `tlc -config MCEventQueue.cfg MCEventQueue.tla`; to check a proof module:
`tlapm EventProofs.tla`.
