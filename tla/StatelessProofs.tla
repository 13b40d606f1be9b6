--------------------------- MODULE StatelessProofs ---------------------------
(***************************************************************************)
(* What the calls of a program that keeps no state return, for any number  *)
(* of lines, any clock and any answers of the system.  A property of the   *)
(* calls says nothing between two of them; for each call it is a fact      *)
(* about the function that is called.                                      *)
(***************************************************************************)
EXTENDS Stateless, Loops

LEMMA FirstPosition ==
  ASSUME NEW N \in Nat, NEW S, S \subseteq 1 .. N, S # {}
  PROVE  /\ Min(S) \in S /\ \A m \in S : Min(S) <= m
         /\ Max(S) \in S /\ \A m \in S : m <= Max(S)
  <1>1. PICK n \in S : \A m \in S : n <= m
    BY FirstAndLast
  <1>2. PICK x \in S : \A m \in S : m <= x
    BY FirstAndLast
  <1>3. \A m \in S : x >= m
    BY <1>2
  <1> QED
    BY <1>1, <1>3 DEF Min, Max

\* What may be asked of a host falls into four groups, told apart by the function's name.
MachineCalls == {"cpu", "architecture", "system", "memory", "endianness", "limits", "power"}
ClockCalls == {"uptime", "time"}
DeviceCalls == {"gpu", "display", "network", "storage", "hardware"}
SettingCalls == {"environment", "process", "virtualization"}
FlagCalls == {"format", "parse", "lookup", "inspect", "operator"}

LEMMA CallNames ==
  /\ CallMachine => call'.fn \in MachineCalls
  /\ CallClocks => call'.fn \in ClockCalls
  /\ CallDevices => call'.fn \in DeviceCalls
  /\ CallSetting => call'.fn \in SettingCalls
  /\ Bitwise => call'.fn \in FlagCalls
  /\ Forget => call'.fn = "none"
  <1>0. \A fn, args, result : Called(fn, args, result) => call'.fn = fn
    BY DEF Called
  <1>1. CallMachine => call'.fn \in MachineCalls
    BY <1>0 DEF CallMachine, MachineCalls
  <1>2. CallClocks => call'.fn \in ClockCalls
    BY <1>0 DEF CallClocks, ClockCalls
  <1>3. CallDevices => call'.fn \in DeviceCalls
    BY <1>0 DEF CallDevices, DeviceCalls
  <1>4. CallSetting => call'.fn \in SettingCalls
    BY <1>0 DEF CallSetting, SettingCalls
  <1>5. Bitwise => call'.fn \in FlagCalls
    BY <1>0 DEF Bitwise, FlagCalls
  <1>6. Forget => call'.fn = "none"
    BY DEF Forget, NoCall
  <1> QED
    BY <1>1, <1>2, <1>3, <1>4, <1>5, <1>6
-----------------------------------------------------------------------------
(* Clocks *)

\* Whole seconds of two times are at most one apart from those of their sum.
LEMMA SecondsAdd ==
  ASSUME NEW s \in Int, NEW t \in Int
  PROVE  (s + t) \div TICKS - t \div TICKS \in (s \div TICKS) .. (s \div TICKS) + 1
  <1> DEFINE a == s \div TICKS
             b == t \div TICKS
             c == (s + t) \div TICKS
  <1>1. TICKS \in Nat \ {0}
    BY HostinfoAssumption
  <1>2. \A x \in Int : /\ x \div TICKS \in Int /\ x % TICKS \in 0 .. TICKS - 1
                       /\ x = TICKS * (x \div TICKS) + (x % TICKS)
    BY <1>1
  <1>3. a \in Int /\ b \in Int /\ c \in Int
    BY <1>2
  <1>4. /\ TICKS * a <= s /\ s < TICKS * a + TICKS
        /\ TICKS * b <= t /\ t < TICKS * b + TICKS
        /\ TICKS * c <= s + t /\ s + t < TICKS * c + TICKS
    BY <1>1, <1>2
  <1>5. TICKS * (c - a - b) < 2 * TICKS /\ -TICKS < TICKS * (c - a - b)
    BY <1>1, <1>3, <1>4
  <1>6. c - a - b \in {0, 1}
    <2> DEFINE d == c - a - b
    <2>1. d \in Int /\ TICKS * d < 2 * TICKS /\ -TICKS < TICKS * d
      BY <1>3, <1>5
    <2>2. \A e \in Int : (e >= 2 => TICKS * e >= 2 * TICKS) /\ (e <= -1 => TICKS * e <= -TICKS)
      BY <1>1
    <2> HIDE DEF d
    <2>3. ~(d >= 2) /\ ~(d <= -1)
      BY <1>1, <2>1, <2>2
    <2> QED
      BY <2>1, <2>3 DEF d
  <1> QED
    BY <1>3, <1>6

\* Whole seconds are in the order of the times.
LEMMA SecondsGrow ==
  ASSUME NEW s \in Int, NEW t \in Int, s <= t
  PROVE  s \div TICKS <= t \div TICKS
  <1>1. TICKS \in Nat \ {0}
    BY HostinfoAssumption
  <1>2. \A x \in Int : /\ x \div TICKS \in Int /\ x % TICKS \in 0 .. TICKS - 1
                       /\ x = TICKS * (x \div TICKS) + (x % TICKS)
    BY <1>1
  <1>3. TICKS * (s \div TICKS) < TICKS * (t \div TICKS) + TICKS
    BY <1>1, <1>2
  <1>4. \A e \in Int : e >= 1 => TICKS * e >= TICKS
    BY <1>1
  <1>5. s \div TICKS - t \div TICKS >= 1 =>
          TICKS * (s \div TICKS - t \div TICKS) >= TICKS
    BY <1>2, <1>4
  <1>6. TICKS * (s \div TICKS - t \div TICKS) = TICKS * (s \div TICKS) - TICKS * (t \div TICKS)
    BY <1>1, <1>2
  <1> QED
    BY <1>1, <1>2, <1>3, <1>5, <1>6

\* The second in which the host booted, of the two readings.
LEMMA BootSecond ==
  ASSUME NEW boot \in Int, NEW up \in Nat, NEW delay \in Nat
  PROVE  ((boot + up + delay) \div TICKS) - Seconds(up)
           \in (boot \div TICKS) .. ((boot + delay) \div TICKS) + 1
  <1> DEFINE s == boot + delay
  <1>0. s \in Int /\ up \in Int
    OBVIOUS
  <1>1. (s + up) \div TICKS - up \div TICKS \in (s \div TICKS) .. (s \div TICKS) + 1
    <2> HIDE DEF s
    <2> QED
      BY <1>0, SecondsAdd
  <1>2. boot \div TICKS <= (boot + delay) \div TICKS
    BY SecondsGrow
  <1>3. boot \div TICKS \in Int /\ (boot + delay) \div TICKS \in Int
    BY HostinfoAssumption
  <1>4. (boot + delay) + up = boot + up + delay
    OBVIOUS
  <1> QED
    BY <1>1, <1>2, <1>3, <1>4 DEF Seconds

\* The hours of two times of one day, which has 96 quarters.
LEMMA OffsetRight ==
  ASSUME NEW utc \in 0 .. 95, NEW zone \in -48 .. 56, utc + zone \in 0 .. 95
  PROVE  /\ 4 * (Hour(utc + zone) - Hour(utc)) - zone \in -3 .. 3
         /\ zone % 4 = 0 => 4 * (Hour(utc + zone) - Hour(utc)) = zone
  <1>1. ASSUME NEW t \in 0 .. 95
        PROVE  Hour(t) \in 0 .. 23 /\ t - 4 * Hour(t) \in 0 .. 3
    <2>1. t \div 4 \in 0 .. 23 /\ t - 4 * (t \div 4) \in 0 .. 3
      OBVIOUS
    <2>2. \A u \in 0 .. 23 : u % 24 = u
      OBVIOUS
    <2> QED
      BY <2>1, <2>2 DEF Hour
  <1> DEFINE q == Hour(utc + zone)
             u == Hour(utc)
  <1>2. /\ q \in Int /\ u \in Int /\ zone \in Int /\ utc \in Int
        /\ utc + zone - 4 * q \in 0 .. 3 /\ utc - 4 * u \in 0 .. 3
    <2>1. q \in 0 .. 23 /\ utc + zone - 4 * q \in 0 .. 3
      BY <1>1
    <2>2. u \in 0 .. 23 /\ utc - 4 * u \in 0 .. 3
      BY <1>1
    <2> HIDE DEF q, u
    <2> QED
      BY <2>1, <2>2
  <1> HIDE DEF q, u
  <1>3. 4 * (q - u) - zone \in -3 .. 3
    BY <1>2
  <1>4. zone % 4 = 0 => 4 * (q - u) = zone
    <2>1. ASSUME zone % 4 = 0 PROVE \E z \in Int : zone = 4 * z
      BY <1>2, <2>1
    <2> QED
      BY <1>2, <1>3, <2>1
  <1> QED
    BY <1>3, <1>4 DEF q, u

LEMMA ClocksStep == Idle /\ CallClocks => ClocksRight'
  <1>1. ASSUME NEW boot \in Instant, NEW up \in {i \in Instant : i >= 0},
               NEW delay \in 0 .. MAX_DELAY,
               Called("uptime", [boot |-> boot, file |-> up, delay |-> delay],
                      fossil_sys_hostinfo_get_uptime(up, boot + up + delay))
        PROVE  ClocksRight'
    <2>1. boot \in Int /\ up \in Nat /\ delay \in Nat
      BY HostinfoAssumption
    <2> DEFINE x == ((boot + up + delay) \div TICKS) - Seconds(up)
               result == fossil_sys_hostinfo_get_uptime(up, boot + up + delay)
    <2>2. x \in (boot \div TICKS) .. ((boot + delay) \div TICKS) + 1
      BY <2>1, BootSecond
    <2>3. result.ret = 0 => result.info.boot_time_epoch = x % WORD
      <3>1. up = NULL => result.ret = -2
        BY DEF fossil_sys_hostinfo_get_uptime, Fails
      <3>2. up # NULL /\ up = Bad => result.ret = -3
        BY DEF fossil_sys_hostinfo_get_uptime, Fails
      <3>3. up # NULL /\ up # Bad => result.info.boot_time_epoch = x % WORD
        BY DEF fossil_sys_hostinfo_get_uptime, Done
      <3> QED
        BY <3>1, <3>2, <3>3
    <2> HIDE DEF x, result
    <2>4. /\ call'.fn = "uptime" /\ call'.result = result
          /\ call'.args.boot = boot /\ call'.args.delay = delay
      BY <1>1 DEF Called, result
    <2> QED
      BY <2>2, <2>3, <2>4 DEF ClocksRight, Info
  <1>2. ASSUME NEW file \in {NULL, Bad},
               Called("uptime", [file |-> file], fossil_sys_hostinfo_get_uptime(file, 0))
        PROVE  ClocksRight'
    <2>1. fossil_sys_hostinfo_get_uptime(file, 0).ret # 0
      BY DEF fossil_sys_hostinfo_get_uptime, Fails
    <2> QED
      BY <1>2, <2>1 DEF Called, ClocksRight
  <1>3. ASSUME NEW utc \in Quarter, NEW zone \in Zone, NEW locale \in OrNull(Answer),
               Called("time", [utc |-> utc, zone |-> zone],
                      fossil_sys_hostinfo_get_time(utc, zone, locale))
        PROVE  ClocksRight'
    <2>1. utc \in 0 .. 95 /\ zone \in -48 .. 56
      BY HostinfoAssumption
    <2>2. /\ call'.fn = "time" /\ call'.args.utc = utc /\ call'.args.zone = zone
          /\ call'.result.info.utc_offset = 4 * (Hour(utc + zone) - Hour(utc))
      BY <1>3 DEF Called, fossil_sys_hostinfo_get_time, Done
    <2> DEFINE offset == 4 * (Hour(utc + zone) - Hour(utc))
    <2>3. utc + zone \in 0 .. 95 =>
            offset - zone \in -3 .. 3 /\ (zone % 4 = 0 => offset = zone)
      BY <2>1, OffsetRight
    <2>4. call'.result.info.utc_offset = offset
      BY <2>2
    <2> HIDE DEF offset
    <2> QED
      BY <2>2, <2>3, <2>4 DEF ClocksRight, Info
  <1> QED
    BY <1>1, <1>2, <1>3 DEF CallClocks
-----------------------------------------------------------------------------
(* Virtualization *)

LEMMA ShortSeq ==
  ASSUME NEW S, NEW n \in Nat, NEW s \in BoundedSeq(S, n)
  PROVE  s \in Seq(S) /\ Len(s) \in 0 .. n /\ DOMAIN s = 1 .. Len(s)
  BY DEF BoundedSeq, SeqOf

LEMMA RuntimeNamed == \A line : RuntimeOf(line) \in Literal
  BY DEF RuntimeOf, Literal

\* A container is found if its cgroup names one or a marker file is there.
LEMMA ContainerFound ==
  ASSUME NEW cgroup \in Seq(SUBSET Runtime), cgroup # NULL,
         NEW markers \in SUBSET {"/.dockerenv", "/run/.containerenv"}
  PROVE  fossil_detect_container_linux(cgroup, markers) = NULL =>
           markers = {} /\ \A i \in DOMAIN cgroup : cgroup[i] = {}
  <1> DEFINE named == {i \in DOMAIN cgroup : cgroup[i] # {}}
  <1>1. CASE named # {}
    <2>1. fossil_detect_container_linux(cgroup, markers) = RuntimeOf(cgroup[Min(named)])
      BY <1>1 DEF fossil_detect_container_linux
    <2> QED
      BY <2>1, RuntimeNamed, MarkAssumption
  <1>2. CASE named = {}
    <2>1. "docker" # NULL /\ "podman" # NULL
      BY MarkAssumption DEF Literal
    <2> QED
      BY <1>2, <2>1 DEF fossil_detect_container_linux
  <1> QED
    BY <1>1, <1>2

\* The types of containers are texts.
LEMMA ContainerNamed ==
  ASSUME NEW cgroup, NEW markers
  PROVE  fossil_detect_container_linux(cgroup, markers) \in Literal \cup {NULL}
  BY RuntimeNamed DEF fossil_detect_container_linux, Literal

\* The processor says that it is a virtual one by its bit, whatever its name.
LEMMA CpuidSays ==
  ASSUME NEW cpu \in Cpu
  PROVE  /\ fossil_detect_vm_cpuid(cpu) # NULL <=> cpu.highest >= 1 /\ cpu.leaf[1].bit
         /\ fossil_detect_vm_cpuid(cpu) \in Answer \cup {Empty, NULL}
  <1>1. cpu.highest \in {0, 13} /\ cpu.leaf[1] \in Registers
    BY DEF Cpu
  <1>2. cpu.highest < HYPERVISOR_LEAF
    BY <1>1 DEF HYPERVISOR_LEAF
  <1>3. fossil_detect_vm_cpuid(cpu)
          = IF cpu.highest >= 1 /\ cpu.leaf[1].bit THEN cpu.leaf[1].text ELSE NULL
    <2>1. CASE cpu.highest = 0
      BY <1>2, <2>1 DEF fossil_detect_vm_cpuid, get_cpuid
    <2>2. CASE cpu.highest = 13
      BY <1>2, <2>2 DEF fossil_detect_vm_cpuid, get_cpuid, HYPERVISOR_LEAF
    <2> QED
      BY <1>1, <2>1, <2>2
  <1>4. cpu.leaf[1].text \in Answer \cup {Empty} /\ cpu.leaf[1].text # NULL
    BY <1>1, MarkAssumption DEF Registers
  <1> QED
    BY <1>3, <1>4

LEMMA ContainerStep == Idle /\ CallSetting => ContainerSeen'
  <1>1. ASSUME NEW env, Called("environment", [env |-> env], fossil_sys_hostinfo_get_environment(env))
        PROVE  ContainerSeen'
    BY <1>1 DEF Called, ContainerSeen
  <1>2. ASSUME NEW cwd, NEW exe, NEW root,
               Called("process", [cwd |-> cwd], fossil_sys_hostinfo_get_process(cwd, exe, root))
        PROVE  ContainerSeen'
    BY <1>2 DEF Called, ContainerSeen
  <1>3. ASSUME NEW cgroup \in OrNull(BoundedSeq(SUBSET Runtime, 2)),
               NEW markers \in SUBSET {"/.dockerenv", "/run/.containerenv"},
               NEW cpu \in Cpu, NEW product \in OrNull([name : Answer, known : BOOLEAN]),
               Called("virtualization", [cgroup |-> cgroup, markers |-> markers,
                                         cpu |-> cpu, product |-> product],
                      fossil_sys_hostinfo_get_virtualization(cgroup, markers, cpu, product))
        PROVE  ContainerSeen'
    <2> DEFINE container == fossil_detect_container_linux(cgroup, markers)
               known == product # NULL /\ product.known
               dmi == IF known THEN product.name ELSE NULL
               cpuid == fossil_detect_vm_cpuid(cpu)
               bit == cpu.highest >= 1 /\ cpu.leaf[1].bit
               hypervisor == IF cpuid = NULL THEN dmi ELSE cpuid
               info == call'.result.info
    <2>1. /\ call'.fn = "virtualization"
          /\ call'.args.cgroup = cgroup /\ call'.args.markers = markers
          /\ call'.args.cpu = cpu /\ call'.args.product = product
      BY <1>3 DEF Called
    <2>2. /\ info.is_container = Flag(container # NULL)
          /\ info.container_type = OrEmpty(container)
          /\ info.is_virtual_machine = Flag(hypervisor # NULL)
          /\ info.hypervisor = OrEmpty(hypervisor)
      BY <1>3 DEF Called, fossil_sys_hostinfo_get_virtualization, Done
    <2>3. container = NULL /\ cgroup # NULL =>
            markers = {} /\ \A i \in DOMAIN cgroup : cgroup[i] = {}
      <3>1. cgroup # NULL => cgroup \in Seq(SUBSET Runtime)
        BY ShortSeq DEF OrNull
      <3> QED
        BY <3>1, ContainerFound
    <2>4. container # NULL => container # Empty
      BY ContainerNamed, MarkAssumption
    <2>5. known => product.name # NULL
      BY MarkAssumption DEF OrNull
    <2>11. cpuid # NULL <=> bit
      BY CpuidSays
    <2> HIDE DEF container, cpuid, known, bit
    <2>12. hypervisor # NULL <=> bit \/ known
      BY <2>5, <2>11
    <2>13. ~bit /\ known => hypervisor = product.name
      BY <2>11
    <2> HIDE DEF dmi, hypervisor
    <2>6. info.is_container = 0 <=> container = NULL
      BY <2>2 DEF Flag
    <2>7. info.is_virtual_machine = 0 <=> hypervisor = NULL
      BY <2>2 DEF Flag
    <2>8. info.container_type = Empty <=> container = NULL
      BY <2>2, <2>4 DEF OrEmpty
    <2>9. /\ hypervisor = NULL => info.hypervisor = Empty
          /\ hypervisor # NULL => info.hypervisor = hypervisor
      BY <2>2 DEF OrEmpty
    <2>10. info.is_virtual_machine = 1 <=> hypervisor # NULL
      BY <2>2 DEF Flag
    <2>14. ~bit /\ known => info.hypervisor = product.name
      BY <2>5, <2>9, <2>13
    <2> HIDE DEF info
    <2>15. /\ call'.result.info = info
           /\ bit <=> call'.args.cpu.highest >= 1 /\ call'.args.cpu.leaf[1].bit
           /\ known <=> call'.args.product # NULL /\ call'.args.product.known
      BY <2>1 DEF info, bit, known
    <2> QED
      BY <2>1, <2>3, <2>6, <2>7, <2>8, <2>9, <2>10, <2>12, <2>14, <2>15 DEF ContainerSeen, Info
  <1> QED
    BY <1>1, <1>2, <1>3 DEF CallSetting
-----------------------------------------------------------------------------
(* The processor *)

LEMMA PositionsFinite ==
  ASSUME NEW N \in Nat, NEW S \in SUBSET (1 .. N)
  PROVE  IsFiniteSet(S) /\ Cardinality(S) \in Nat
  <1>1. IsFiniteSet(1 .. N)
    BY FS_Interval
  <1>2. IsFiniteSet(S)
    BY <1>1, FS_Subset
  <1> QED
    BY <1>2, FS_CardinalityType

\* What stands at the first of some positions.
LEMMA FirstOrIn ==
  ASSUME NEW N \in Nat, NEW at, at \subseteq 1 .. N, NEW S, NEW default \in S,
         NEW s, \A i \in at : s[i] \in S
  PROVE  FirstOr(s, at, default) \in S
  BY FirstPosition DEF FirstOr

\* What is read of a line is the value of a line with its key, and a number.
LEMMA ValueFound ==
  ASSUME NEW lines \in Seq(CpuLine), NEW key, NEW default
  PROVE  /\ ValuesOf(lines, key) = {} =>
              /\ FirstValue(lines, key, default) = default
              /\ LastValue(lines, key, default) = default
         /\ ValuesOf(lines, key) # {} =>
              /\ \E i \in ValuesOf(lines, key) : FirstValue(lines, key, default) = lines[i].value
              /\ \E i \in ValuesOf(lines, key) : LastValue(lines, key, default) = lines[i].value
         /\ \A i \in ValuesOf(lines, key) : lines[i].value \in Count
  <1> DEFINE at == ValuesOf(lines, key)
  <1>1. at \subseteq 1 .. Len(lines) /\ Len(lines) \in Nat /\ DOMAIN lines = 1 .. Len(lines)
    BY DEF ValuesOf, LinesOf
  <1>2. at = {} => /\ FirstValue(lines, key, default) = default
                   /\ LastValue(lines, key, default) = default
    BY DEF FirstValue, LastValue, FirstOr, LastOr
  <1>3. ASSUME at # {}
        PROVE  /\ \E i \in at : FirstValue(lines, key, default) = lines[i].value
               /\ \E i \in at : LastValue(lines, key, default) = lines[i].value
    <2>1. Min(at) \in at /\ Max(at) \in at
      <3> HIDE DEF at
      <3> QED
        BY <1>1, <1>3, FirstPosition
    <2>2. FirstValue(lines, key, default) = lines[Min(at)].value
      BY <1>1, <1>3, <2>1 DEF FirstValue, FirstOr, ValueAt
    <2>3. LastValue(lines, key, default) = lines[Max(at)].value
      BY <1>1, <1>3, <2>1 DEF LastValue, LastOr, ValueAt
    <2> HIDE DEF at
    <2> QED
      BY <2>1, <2>2, <2>3
  <1>4. \A i \in at : lines[i].value \in Count
    <2>1. \A i \in at : lines[i] \in CpuLine /\ lines[i].value # NULL
      BY <1>1 DEF ValuesOf
    <2> HIDE DEF at
    <2> QED
      BY <2>1 DEF CpuLine, OrNull
  <1> QED
    BY <1>2, <1>3, <1>4

\* Lines with one value have the same first and last value.
LEMMA AlikeValue ==
  ASSUME NEW lines \in Seq(CpuLine), NEW key, NEW default,
         \A i, j \in ValuesOf(lines, key) : lines[i].value = lines[j].value
  PROVE  FirstValue(lines, key, default) = LastValue(lines, key, default)
  BY ValueFound

LEMMA LastNatural ==
  ASSUME NEW lines \in Seq(CpuLine), NEW key, NEW default \in Nat
  PROVE  LastValue(lines, key, default) \in Nat
  <1>1. CASE ValuesOf(lines, key) = {}
    BY <1>1 DEF LastValue, LastOr
  <1>2. CASE ValuesOf(lines, key) # {}
    <2>1. PICK i \in ValuesOf(lines, key) : LastValue(lines, key, default) = lines[i].value
      BY <1>2, ValueFound
    <2> QED
      BY <2>1, ValueFound, HostinfoAssumption
  <1> QED
    BY <1>1, <1>2

LEMMA CpuDefaultsPositive ==
  ASSUME NEW cores \in Nat, NEW threads \in Nat
  PROVE  /\ CpuDefaults(cores, threads).cores > 0 /\ CpuDefaults(cores, threads).threads > 0
         /\ cores # 0 => CpuDefaults(cores, threads).cores = cores
         /\ threads # 0 => CpuDefaults(cores, threads).threads = threads
  BY DEF CpuDefaults

LEMMA CpuStep == Idle /\ CallMachine => CpuAgree'
  <1>1. CASE call'.fn # "cpu"
    BY <1>1 DEF CpuAgree
  <1>2. SUFFICES ASSUME NEW file \in OrNull(Cpuinfo), file # NULL,
                        Called("cpu", [file |-> file], fossil_sys_hostinfo_get_cpu(file))
                 PROVE  CpuAgree'
    <2>1. ASSUME NEW file \in OrNull(Cpuinfo),
                 Called("cpu", [file |-> file], fossil_sys_hostinfo_get_cpu(file))
          PROVE  CpuAgree'
      <3>1. file = NULL => fossil_sys_hostinfo_get_cpu(file).ret = -1
        BY DEF fossil_sys_hostinfo_get_cpu, Fails
      <3>2. file = NULL => call'.result.ret = -1
        BY <2>1, <3>1 DEF Called
      <3>3. CASE file = NULL
        BY <3>2, <3>3 DEF CpuAgree
      <3> QED
        BY <1>2, <2>1, <3>3
    <2>2. CallMachine /\ call'.fn = "cpu" =>
            \E file \in OrNull(Cpuinfo) :
              Called("cpu", [file |-> file], fossil_sys_hostinfo_get_cpu(file))
      BY DEF CallMachine, Called
    <2> QED
      BY <1>1, <2>1, <2>2
  <1> DEFINE n == Cardinality(LinesOf(file, "processor"))
             threads == IF n = 0 THEN Unknown ELSE n
             cores == LastValue(file, "cpu cores", 0)
             d == CpuDefaults(cores, n)
             model == FirstValue(file, "model name", Unknown)
             info == call'.result.info
             arch == fossil_sys_hostinfo_get_architecture(All(ArchFields, Empty), Garbage, file, n)
  <1>3. file \in Seq(CpuLine)
    BY <1>2, ShortSeq, HostinfoAssumption DEF OrNull, Cpuinfo
  <1>4. n \in Nat
    <2>1. LinesOf(file, "processor") \in SUBSET (1 .. Len(file)) /\ Len(file) \in Nat
      BY <1>3 DEF LinesOf
    <2> QED
      BY <2>1, PositionsFinite
  <1>5. cores \in Nat
    BY <1>3, LastNatural
  <1>6. /\ call'.args.file = file
        /\ info.model = model /\ info.cores = d.cores /\ info.threads = d.threads
    BY <1>2 DEF Called, fossil_sys_hostinfo_get_cpu, Done
  <1>7. /\ arch.info.cpu = LastValue(file, "model name", Unknown)
        /\ arch.info.cpu_cores = LastValue(file, "cpu cores", Unknown)
        /\ arch.info.cpu_threads = LastValue(file, "siblings", threads)
    BY <1>2, MarkAssumption
       DEF fossil_sys_hostinfo_get_architecture, Done, All, ArchFields, ArchText, ArchNumber
  <1> HIDE DEF n, threads, cores, d, model, info, arch
  <1>8. info.cores > 0 /\ info.threads > 0
    BY <1>4, <1>5, <1>6, CpuDefaultsPositive DEF d
  <1>9. ASSUME Alike(file) PROVE info.model = arch.info.cpu
    <2>1. \A i, j \in ValuesOf(file, "model name") : file[i].value = file[j].value
      BY <1>9 DEF Alike
    <2> QED
      BY <1>3, <1>6, <1>7, <2>1, AlikeValue DEF model
  <1>10. ASSUME Alike(file) PROVE arch.info.cpu_cores \in {info.cores, 0, Unknown}
    <2>1. CASE ValuesOf(file, "cpu cores") = {}
      BY <1>3, <1>7, <2>1, ValueFound
    <2>2. CASE ValuesOf(file, "cpu cores") # {}
      <3>1. arch.info.cpu_cores = cores
        BY <1>7, <2>2 DEF cores, LastValue, LastOr
      <3> QED
        BY <1>4, <1>5, <1>6, <3>1, CpuDefaultsPositive DEF d
    <2> QED
      BY <2>1, <2>2
  <1>11. ASSUME Alike(file)
         PROVE  /\ arch.info.cpu_threads \in {info.threads, 0, Unknown}
                /\ n > 0 => arch.info.cpu_threads = info.threads
    <2>1. LastValue(file, "siblings", n) = n
      BY <1>11 DEF Alike, n
    <2>2. n > 0 => arch.info.cpu_threads = n
      <3>1. n > 0 => threads = n
        BY DEF threads
      <3> QED
        BY <1>7, <2>1, <3>1
    <2>3. n = 0 => arch.info.cpu_threads \in {0, Unknown}
      <3>1. n = 0 => threads = Unknown
        BY DEF threads
      <3> QED
        BY <1>7, <2>1, <3>1 DEF LastValue, LastOr
    <2> QED
      BY <1>4, <1>5, <1>6, <2>2, <2>3, CpuDefaultsPositive DEF d
  <1> QED
    BY <1>6, <1>8, <1>9, <1>10, <1>11 DEF CpuAgree, Info, n, arch, info
-----------------------------------------------------------------------------
(* What stands in a structure *)

\* What a call fills in: numbers and texts.
Filled == Int \cup Answer \cup Literal \cup {Unknown, Empty}
Fresh(info) == \A f \in DOMAIN info : info[f] \in Filled

LEMMA TextFilled ==
  ASSUME NEW answer \in OrNull(Answer)
  PROVE  OrUnknown(answer) \in Filled /\ OrEmpty(answer) \in Filled
  BY DEF OrNull, OrUnknown, OrEmpty, Filled

LEMMA FlagFilled == \A b : Flag(b) \in Filled
  BY DEF Flag, Filled

LEMMA DisplayFresh ==
  ASSUME NEW fb \in OrNull(Count)
  PROVE  Fresh(fossil_sys_hostinfo_get_display(fb).info)
  BY HostinfoAssumption DEF fossil_sys_hostinfo_get_display, Done, Fresh, Filled, OrNull

LEMMA ElementOf == ASSUME NEW S, NEW s \in Seq(S) PROVE \A i \in DOMAIN s : s[i] \in S
  OBVIOUS

LEMMA StorageFresh ==
  ASSUME NEW vfs \in OrNull([blocks : Count, bfree : Count]),
         NEW mounts \in Seq([mnt : {"/", "/proc"}, type : Answer])
  PROVE  Fresh(fossil_sys_hostinfo_get_storage(vfs, mounts).info)
  <1> DEFINE root == {i \in DOMAIN mounts : mounts[i].mnt = "/"}
             type == FirstOr([i \in root |-> mounts[i].type], root, Unknown)
  <1>1. type \in Filled
    <2> DEFINE s == [i \in root |-> mounts[i].type]
    <2>1. root \subseteq 1 .. Len(mounts) /\ Len(mounts) \in Nat /\ Unknown \in Filled
      BY DEF Filled
    <2>2. \A i \in root : s[i] \in Filled
      <3>1. \A i \in root : mounts[i] \in [mnt : {"/", "/proc"}, type : Answer]
        BY ElementOf
      <3>2. \A i \in root : mounts[i].type \in Filled
        BY <3>1 DEF Filled
      <3> HIDE DEF root
      <3> QED
        BY <3>2
    <2> HIDE DEF root, s
    <2>3. FirstOr(s, root, Unknown) \in Filled
      BY <2>1, <2>2, FirstOrIn
    <2> QED
      BY <2>3 DEF s
  <1> HIDE DEF type, root
  <1>2. CASE vfs = NULL
    BY <1>2 DEF fossil_sys_hostinfo_get_storage, Fails, Fresh, Filled
  <1>3. CASE vfs # NULL
    <2>0. vfs \in [blocks : Count, bfree : Count]
      BY <1>3 DEF OrNull
    <2>1. vfs.blocks \in Int /\ vfs.bfree \in Int
      <3>1. vfs.blocks \in Count /\ vfs.bfree \in Count
        BY <2>0
      <3>2. Count \subseteq Int
        BY HostinfoAssumption
      <3> QED
        BY <3>1, <3>2
    <2>2. fossil_sys_hostinfo_get_storage(vfs, mounts).info
            = [device |-> "/", total |-> vfs.blocks, free |-> vfs.bfree,
               used |-> vfs.blocks - vfs.bfree, type |-> type]
      BY <1>3 DEF fossil_sys_hostinfo_get_storage, Done, type, root
    <2>3. "/" \in Filled /\ vfs.blocks \in Filled /\ vfs.bfree \in Filled
            /\ vfs.blocks - vfs.bfree \in Filled
      BY <2>1 DEF Filled, Literal
    <2> QED
      BY <1>1, <2>2, <2>3 DEF Fresh
  <1> QED
    BY <1>2, <1>3

\* A number of /sys is a number, or what stood there.
LEMMA NumberFilled ==
  ASSUME NEW old \in Filled, NEW file \in {NULL, Bad} \cup Int
  PROVE  Scanned(old, file) \in Filled
  BY DEF Scanned, Filled

LEMMA PowerFresh ==
  ASSUME NEW old, NEW ac \in [1 .. 3 -> {NULL, Bad, 0, 1}], NEW bat \in [1 .. 2 -> OrNull(Battery)]
  PROVE  Fresh(fossil_sys_hostinfo_get_power(All(PowerFields, old), ac, bat).info)
  <1> DEFINE mains == FirstOr(ac, {i \in DOMAIN ac : ac[i] # NULL}, NULL)
             b == FirstOr(bat, {i \in DOMAIN bat : bat[i] # NULL}, NULL)
             structure == [PowerFields -> Filled]
             start == [All(PowerFields, old) EXCEPT
                         !.on_ac_power = -1, !.battery_present = 0, !.battery_charging = -1,
                         !.battery_percentage = -1, !.battery_seconds_left = -1]
             plugged == [start EXCEPT !.on_ac_power = Scanned(@, mains),
                                      !.battery_present = Flag(b # NULL)]
             full == [plugged EXCEPT !.battery_charging = Charging(@, b.status),
                                     !.battery_percentage = Scanned(@, b.capacity),
                                     !.battery_seconds_left = Scanned(@, b.left)]
  <1>1. mains \in {NULL, Bad} \cup Int
    <2> DEFINE at == {i \in DOMAIN ac : ac[i] # NULL}
    <2>1. at \subseteq 1 .. 3 /\ \A i \in at : ac[i] \in {NULL, Bad} \cup Int
      OBVIOUS
    <2>2. 3 \in Nat /\ NULL \in {NULL, Bad} \cup Int
      OBVIOUS
    <2> HIDE DEF at
    <2>3. FirstOr(ac, at, NULL) \in {NULL, Bad} \cup Int
      BY <2>1, <2>2, FirstOrIn
    <2> QED
      BY <2>3 DEF at
  <1>2. b \in Battery \cup {NULL}
    <2> DEFINE at == {i \in DOMAIN bat : bat[i] # NULL}
    <2>1. at \subseteq 1 .. 2 /\ \A i \in at : bat[i] \in Battery \cup {NULL}
      BY DEF OrNull
    <2>2. 2 \in Nat /\ NULL \in Battery \cup {NULL}
      OBVIOUS
    <2> HIDE DEF at
    <2>3. FirstOr(bat, at, NULL) \in Battery \cup {NULL}
      BY <2>1, <2>2, FirstOrIn
    <2> QED
      BY <2>3 DEF at
  <1>3. -1 \in Filled /\ 0 \in Filled /\ 1 \in Filled
    BY DEF Filled
  <1>4. fossil_sys_hostinfo_get_power(All(PowerFields, old), ac, bat).info
          = IF b = NULL THEN plugged ELSE full
    BY DEF fossil_sys_hostinfo_get_power, Done
  <1> HIDE DEF mains, b
  <1>5. start \in structure
    <2>1. start = [f \in PowerFields |-> IF f = "battery_present" THEN 0 ELSE -1]
      BY DEF All, PowerFields
    <2> QED
      BY <1>3, <2>1
  <1> HIDE DEF start
  <1>6. plugged \in structure
    <2>1. start["on_ac_power"] \in Filled
      BY <1>5 DEF PowerFields
    <2>2. Scanned(start["on_ac_power"], mains) \in Filled /\ Flag(b # NULL) \in Filled
      BY <1>1, <2>1, NumberFilled, FlagFilled
    <2> QED
      BY <1>5, <2>2
  <1> HIDE DEF plugged
  <1>7. b # NULL => full \in structure
    <2>1. SUFFICES ASSUME b \in Battery PROVE full \in structure
      BY <1>2
    <2>2. b.capacity \in {NULL, Bad} \cup Int /\ b.left \in {NULL, Bad} \cup Int
      BY <2>1 DEF Battery
    <2>3. /\ plugged["battery_charging"] \in Filled /\ plugged["battery_percentage"] \in Filled
          /\ plugged["battery_seconds_left"] \in Filled
      BY <1>6 DEF PowerFields
    <2>4. /\ Charging(plugged["battery_charging"], b.status) \in Filled
          /\ Scanned(plugged["battery_percentage"], b.capacity) \in Filled
          /\ Scanned(plugged["battery_seconds_left"], b.left) \in Filled
      BY <1>3, <2>2, <2>3, NumberFilled DEF Charging
    <2> QED
      BY <1>6, <2>4
  <1> HIDE DEF full
  <1> QED
    BY <1>4, <1>6, <1>7 DEF Fresh

LEMMA NetworkFresh ==
  ASSUME NEW host \in OrNull(Answer),
         NEW interfaces \in OrNull(BoundedSeq([ip : Answer, name : Answer, mac : OrNull(Answer),
                                    family : {"inet", "other"}, loopback : BOOLEAN], 2))
  PROVE  Fresh(fossil_sys_hostinfo_get_network(host, interfaces).info)
  <1> DEFINE up == {i \in DOMAIN interfaces :
                      interfaces[i].family = "inet" /\ ~interfaces[i].loopback}
             first == interfaces[Min(up)]
             Interface == [ip : Answer, name : Answer, mac : OrNull(Answer),
                           family : {"inet", "other"}, loopback : BOOLEAN]
             info(ip, name, mac) == [hostname |-> OrUnknown(host), primary_ip |-> ip,
                                     interface_name |-> name, mac_address |-> mac, is_up |-> 1]
  <1>1. ASSUME NEW ip \in Filled, NEW name \in Filled, NEW mac \in Filled
        PROVE  Fresh(info(ip, name, mac))
    <2>1. OrUnknown(host) \in Filled /\ 1 \in Filled
      BY TextFilled DEF Filled
    <2> QED
      BY <2>1 DEF Fresh
  <1>2. Unknown \in Filled /\ Empty \in Filled
    BY DEF Filled
  <1>3. CASE interfaces = NULL
    <2>1. fossil_sys_hostinfo_get_network(host, interfaces).info = info(Unknown, Unknown, Unknown)
      BY <1>3 DEF fossil_sys_hostinfo_get_network, Done
    <2> QED
      BY <1>1, <1>2, <2>1
  <1>4. CASE interfaces # NULL /\ up = {}
    <2>1. fossil_sys_hostinfo_get_network(host, interfaces).info = info(Empty, Empty, Empty)
      BY <1>4 DEF fossil_sys_hostinfo_get_network, Done
    <2> QED
      BY <1>1, <1>2, <2>1
  <1>5. CASE interfaces # NULL /\ up # {}
    <2>1. interfaces \in Seq(Interface) /\ DOMAIN interfaces = 1 .. Len(interfaces)
            /\ Len(interfaces) \in Nat
      <3>1. interfaces \in BoundedSeq(Interface, 2)
        BY <1>5 DEF OrNull
      <3> HIDE DEF Interface
      <3> QED
        BY <3>1, ShortSeq
    <2>2. Min(up) \in up
      <3>1. up \subseteq 1 .. Len(interfaces)
        BY <2>1
      <3> HIDE DEF up
      <3> QED
        BY <1>5, <2>1, <3>1, FirstPosition
    <2>3. first \in Interface
      <3>1. Min(up) \in DOMAIN interfaces
        BY <2>2
      <3> HIDE DEF up, Interface
      <3> QED
        BY <2>1, <3>1, ElementOf
    <2>4. fossil_sys_hostinfo_get_network(host, interfaces).info
            = info(first.ip, first.name, OrUnknown(first.mac))
      BY <1>5 DEF fossil_sys_hostinfo_get_network, Done
    <2> HIDE DEF first, up
    <2>5. first.ip \in Answer /\ first.name \in Answer /\ first.mac \in OrNull(Answer)
      BY <2>3
    <2>6. first.ip \in Filled /\ first.name \in Filled /\ OrUnknown(first.mac) \in Filled
      BY <2>5, TextFilled DEF Filled
    <2> HIDE DEF info
    <2> QED
      BY <1>1, <2>4, <2>6
  <1> QED
    BY <1>3, <1>4, <1>5

LEMMA SettingFresh ==
  /\ \A env \in [{"SHELL", "HOME", "LANG", "PATH", "TERM", "USER"} -> OrNull(Answer)] :
       Fresh(fossil_sys_hostinfo_get_environment(env).info)
  /\ \A cwd, exe \in OrNull(Answer), root \in BOOLEAN :
       Fresh(fossil_sys_hostinfo_get_process(cwd, exe, root).info)
  <1>1. ASSUME NEW env \in [{"SHELL", "HOME", "LANG", "PATH", "TERM", "USER"} -> OrNull(Answer)]
        PROVE  Fresh(fossil_sys_hostinfo_get_environment(env).info)
    <2>1. \A v \in {"SHELL", "HOME", "LANG", "PATH", "TERM", "USER"} : env[v] \in OrNull(Answer)
      OBVIOUS
    <2> QED
      BY <2>1, TextFilled DEF fossil_sys_hostinfo_get_environment, Done, Fresh
  <1>2. ASSUME NEW cwd \in OrNull(Answer), NEW exe \in OrNull(Answer), NEW root \in BOOLEAN
        PROVE  Fresh(fossil_sys_hostinfo_get_process(cwd, exe, root).info)
    <2>1. OrUnknown(cwd) \in Filled /\ OrUnknown(exe) \in Filled /\ Flag(root) \in Filled
            /\ "process" \in Filled
      BY TextFilled, FlagFilled DEF Filled, Literal
    <2> QED
      BY <2>1 DEF fossil_sys_hostinfo_get_process, Done, Fresh
  <1> QED
    BY <1>1, <1>2

LEMMA VirtualizationFresh ==
  ASSUME NEW cgroup, NEW markers, NEW cpu \in Cpu,
         NEW product \in OrNull([name : Answer, known : BOOLEAN])
  PROVE  Fresh(fossil_sys_hostinfo_get_virtualization(cgroup, markers, cpu, product).info)
  <1> DEFINE container == fossil_detect_container_linux(cgroup, markers)
             dmi == IF product # NULL /\ product.known THEN product.name ELSE NULL
             cpuid == fossil_detect_vm_cpuid(cpu)
             hypervisor == IF cpuid = NULL THEN dmi ELSE cpuid
  <1>1. OrEmpty(container) \in Filled
    BY ContainerNamed DEF OrEmpty, Filled
  <1>2. OrEmpty(hypervisor) \in Filled
    <2>1. dmi \in Answer \cup {NULL}
      BY DEF OrNull
    <2>2. cpuid \in Answer \cup {Empty, NULL}
      BY CpuidSays
    <2> HIDE DEF dmi, cpuid
    <2> QED
      BY <2>1, <2>2 DEF OrEmpty, OrNull, Filled
  <1>3. fossil_sys_hostinfo_get_virtualization(cgroup, markers, cpu, product).info
          = [is_container |-> Flag(container # NULL), container_type |-> OrEmpty(container),
             is_virtual_machine |-> Flag(hypervisor # NULL), hypervisor |-> OrEmpty(hypervisor)]
    BY DEF fossil_sys_hostinfo_get_virtualization, Done
  <1> HIDE DEF container, hypervisor
  <1> QED
    BY <1>1, <1>2, <1>3, FlagFilled DEF Fresh

LEMMA UptimeFresh ==
  ASSUME NEW file \in {NULL, Bad} \cup Int, NEW now \in Int
  PROVE  Fresh(fossil_sys_hostinfo_get_uptime(file, now).info)
  <1>1. 0 \in Filled
    BY DEF Filled
  <1>2. CASE file \in {NULL, Bad}
    BY <1>1, <1>2 DEF fossil_sys_hostinfo_get_uptime, Fails, Fresh
  <1>3. CASE file \notin {NULL, Bad}
    <2>1. Seconds(file) \in Int /\ now \div TICKS \in Int
      BY <1>3, HostinfoAssumption DEF Seconds
    <2>2. (now \div TICKS - Seconds(file)) % WORD \in Int
      BY <2>1, HostinfoAssumption
    <2>3. Seconds(file) \in Filled /\ (now \div TICKS - Seconds(file)) % WORD \in Filled
      BY <2>1, <2>2 DEF Filled
    <2> QED
      BY <1>3, <2>3 DEF fossil_sys_hostinfo_get_uptime, Done, Fresh
  <1> QED
    BY <1>2, <1>3

LEMMA TimeFresh ==
  ASSUME NEW utc \in Int, NEW zone \in Int, NEW locale \in OrNull(Answer)
  PROVE  Fresh(fossil_sys_hostinfo_get_time(utc, zone, locale).info)
  <1>1. \A t \in Int : Hour(t) \in Int
    BY DEF Hour
  <1>2. 4 * (Hour(utc + zone) - Hour(utc)) \in Filled /\ OrUnknown(locale) \in Filled
    BY <1>1, TextFilled DEF Filled
  <1> QED
    BY <1>2 DEF fossil_sys_hostinfo_get_time, Done, Fresh

LEMMA CpuFresh ==
  ASSUME NEW file \in OrNull(Cpuinfo)
  PROVE  Fresh(fossil_sys_hostinfo_get_cpu(file).info)
  <1>1. CASE file = NULL
    BY <1>1 DEF fossil_sys_hostinfo_get_cpu, Fails, Fresh, Filled
  <1>2. CASE file # NULL
    <2> DEFINE n == Cardinality(LinesOf(file, "processor"))
               cores == LastValue(file, "cpu cores", 0)
               d == CpuDefaults(cores, n)
               model == FirstValue(file, "model name", Unknown)
               mhz == FirstValue(file, "cpu MHz", 0)
    <2>1. file \in Seq(CpuLine)
      BY <1>2, ShortSeq, HostinfoAssumption DEF OrNull, Cpuinfo
    <2>2. n \in Nat
      <3>1. LinesOf(file, "processor") \in SUBSET (1 .. Len(file)) /\ Len(file) \in Nat
        BY <2>1 DEF LinesOf
      <3> QED
        BY <3>1, PositionsFinite
    <2>3. model \in Filled /\ mhz \in Int /\ cores \in Int
      <3>1. ASSUME NEW key, NEW default
            PROVE  /\ FirstValue(file, key, default) \in Count \cup {default}
                   /\ LastValue(file, key, default) \in Count \cup {default}
        <4>1. CASE ValuesOf(file, key) = {}
          BY <4>1 DEF FirstValue, LastValue, FirstOr, LastOr
        <4>2. CASE ValuesOf(file, key) # {}
          BY <2>1, <4>2, ValueFound
        <4> QED
          BY <4>1, <4>2
      <3>2. Count \subseteq Int
        BY HostinfoAssumption
      <3>3. model \in Count \cup {Unknown} /\ mhz \in Count \cup {0} /\ cores \in Count \cup {0}
        BY <3>1
      <3> HIDE DEF model, mhz, cores
      <3> QED
        BY <3>2, <3>3 DEF Filled
    <2>4. fossil_sys_hostinfo_get_cpu(file).info
            = [model |-> model, mhz |-> mhz, cores |-> d.cores, threads |-> d.threads]
      BY <1>2 DEF fossil_sys_hostinfo_get_cpu, Done
    <2> HIDE DEF n, cores, model, mhz
    <2>5. d.cores \in Int /\ d.threads \in Int
      BY <2>2, <2>3 DEF CpuDefaults
    <2> HIDE DEF d
    <2>6. mhz \in Filled /\ d.cores \in Filled /\ d.threads \in Filled
      BY <2>3, <2>5 DEF Filled
    <2> QED
      BY <2>3, <2>4, <2>6 DEF Fresh
  <1> QED
    BY <1>1, <1>2

LEMMA SimpleFresh ==
  /\ \A bytes : Fresh(fossil_sys_hostinfo_get_endianness(bytes).info)
  /\ \A nofile \in OrNull(Count), page \in Count :
       Fresh(fossil_sys_hostinfo_get_limits(nofile, page).info)
  /\ \A dmi \in [{"sys_vendor", "product_name", "product_serial", "bios_version"}
                   -> OrNull(Answer)] :
       Fresh(fossil_sys_hostinfo_get_hardware(dmi).info)
  <1>1. ASSUME NEW bytes PROVE Fresh(fossil_sys_hostinfo_get_endianness(bytes).info)
    BY FlagFilled DEF fossil_sys_hostinfo_get_endianness, Done, Fresh
  <1>2. ASSUME NEW nofile \in OrNull(Count), NEW page \in Count
        PROVE  Fresh(fossil_sys_hostinfo_get_limits(nofile, page).info)
    <2>1. Count \subseteq Filled /\ 0 \in Filled
      BY HostinfoAssumption DEF Filled
    <2> QED
      BY <2>1 DEF fossil_sys_hostinfo_get_limits, Done, Fresh, OrNull
  <1>3. ASSUME NEW dmi \in [{"sys_vendor", "product_name", "product_serial", "bios_version"}
                              -> OrNull(Answer)]
        PROVE  Fresh(fossil_sys_hostinfo_get_hardware(dmi).info)
    <2>1. \A f \in DOMAIN dmi : dmi[f] \in OrNull(Answer)
      OBVIOUS
    <2> QED
      BY <2>1, TextFilled DEF fossil_sys_hostinfo_get_hardware, Done, Fresh
  <1> QED
    BY <1>1, <1>2, <1>3

LEMMA SystemFresh ==
  ASSUME NEW info, NEW uname \in OrNull(Answer), NEW host \in OrNull(Answer),
         NEW env \in [{"USER", "DOMAINNAME"} -> OrNull(Answer)]
  PROVE  fossil_sys_hostinfo_get_system(info, uname, host, env).ret = 0 =>
           Fresh(fossil_sys_hostinfo_get_system(info, uname, host, env).info)
  <1>1. CASE uname = NULL
    BY <1>1 DEF fossil_sys_hostinfo_get_system, Fails
  <1>2. CASE uname # NULL
    <2>1. OrUnknown(host) \in Filled /\ OrUnknown(env["USER"]) \in Filled
            /\ OrUnknown(env["DOMAINNAME"]) \in Filled
      BY TextFilled
    <2>2. uname \in Filled /\ "Unix" \in Filled
      BY <1>2 DEF OrNull, Filled, Literal
    <2> DEFINE result == fossil_sys_hostinfo_get_system(info, uname, host, env)
               filled == [f \in SystemFields |->
                            IF f = "hostname" THEN OrUnknown(host)
                            ELSE IF f = "username" THEN OrUnknown(env["USER"])
                            ELSE IF f = "domain_name" THEN OrUnknown(env["DOMAINNAME"])
                            ELSE IF f = "platform" THEN "Unix" ELSE uname]
    <2>3. result.info = filled
      BY <1>2 DEF fossil_sys_hostinfo_get_system, Done
    <2>4. \A f \in DOMAIN filled : filled[f] \in Filled
      BY <2>1, <2>2
    <2> QED
      BY <2>3, <2>4 DEF Fresh
  <1> QED
    BY <1>1, <1>2

LEMMA MemoryFresh ==
  ASSUME NEW info, NEW s \in OrNull([total : Count, free : Count])
  PROVE  fossil_sys_hostinfo_get_memory(info, s).ret = 0 =>
           Fresh(fossil_sys_hostinfo_get_memory(info, s).info)
  <1>1. CASE s = NULL
    BY <1>1 DEF fossil_sys_hostinfo_get_memory, Fails
  <1>2. CASE s # NULL
    <2>1. s.total \in Count /\ s.free \in Count
      BY <1>2 DEF OrNull
    <2>2. s.total \in Int /\ s.free \in Int
      <3>1. Count \subseteq Int
        BY HostinfoAssumption
      <3> QED
        BY <2>1, <3>1
    <2>3. s.total \in Filled /\ s.free \in Filled /\ s.total - s.free \in Filled
      BY <2>2 DEF Filled
    <2> DEFINE filled == [f \in MemoryFields |-> IF f = "total" THEN s.total
                                                 ELSE IF f = "used" THEN s.total - s.free
                                                 ELSE s.free]
    <2>4. fossil_sys_hostinfo_get_memory(info, s).info = filled
      BY <1>2 DEF fossil_sys_hostinfo_get_memory, Done
    <2>5. \A f \in DOMAIN filled : filled[f] \in Filled
      BY <2>3
    <2> QED
      BY <2>4, <2>5 DEF Fresh
  <1> QED
    BY <1>1, <1>2

\* get_architecture fills in every field but the two that are looked at before they are.
ArchFilled(info, file) ==
  \A f \in DOMAIN info :
    \/ info[f] \in Filled
    \/ f = "cpu" /\ (file = NULL \/ ValuesOf(file, "model name") = {})
    \/ f = "cpu_frequency" /\ (file = NULL \/ ValuesOf(file, "cpu MHz") = {})

LEMMA ArchitectureFresh ==
  ASSUME NEW old \in Stale, NEW file \in OrNull(Cpuinfo), NEW uname \in OrNull(Answer),
         NEW again \in Nat, uname # NULL
  PROVE  ArchFilled(fossil_sys_hostinfo_get_architecture(All(ArchFields, old), uname, file,
                                                         again).info, file)
  <1> DEFINE lines == IF file = NULL THEN <<>> ELSE file
             text(key) == ArchText(old, lines, key)
             cores == ArchNumber(old, lines, "cpu cores", Unknown)
             counted == IF again = 0 THEN Unknown ELSE again
             threads == ArchNumber(old, lines, "siblings", counted)
             filled == [f \in ArchFields |->
                          IF f = "cpu" THEN text("model name")
                          ELSE IF f = "cpu_frequency" THEN text("cpu MHz")
                          ELSE IF f = "cpu_cores" THEN cores
                          ELSE IF f = "cpu_threads" THEN threads
                          ELSE uname]
  <1>1. lines \in Seq(CpuLine)
    <2>1. CASE file = NULL
      BY <2>1
    <2>2. CASE file # NULL
      BY <2>2, ShortSeq, HostinfoAssumption DEF OrNull, Cpuinfo
    <2> QED
      BY <2>1, <2>2
  <1>2. fossil_sys_hostinfo_get_architecture(All(ArchFields, old), uname, file, again).info = filled
    BY DEF fossil_sys_hostinfo_get_architecture, Done, All
  <1>3. Count \subseteq Filled
    BY HostinfoAssumption DEF Filled
  <1> HIDE DEF lines
  <1>4. ASSUME NEW key, NEW default
        PROVE  /\ LastValue(lines, key, default) \in Count \cup {default}
               /\ ValuesOf(lines, key) # {} => LastValue(lines, key, default) \in Count
    <2>1. CASE ValuesOf(lines, key) = {}
      BY <2>1 DEF LastValue, LastOr
    <2>2. CASE ValuesOf(lines, key) # {}
      BY <1>1, <2>2, ValueFound
    <2> QED
      BY <2>1, <2>2
  <1>5. cores \in Filled
    <2>1. cores \in Count \cup {Unknown}
      BY <1>4 DEF ArchNumber
    <2> HIDE DEF cores
    <2> QED
      BY <1>3, <2>1 DEF Filled
  <1>6. threads \in Filled
    <2>1. counted \in Filled
      BY DEF Filled
    <2> HIDE DEF counted
    <2>2. threads \in Count \cup {counted}
      BY <1>4 DEF ArchNumber
    <2> HIDE DEF threads
    <2> QED
      BY <1>3, <2>1, <2>2
  <1>7. uname \in Filled
    BY DEF OrNull, Filled
  <1>8. ASSUME NEW key
        PROVE  text(key) \in Filled \/ file = NULL \/ ValuesOf(file, key) = {}
    <2>1. file # NULL => lines = file
      BY DEF lines
    <2>2. ValuesOf(lines, key) # {} => text(key) \in Count
      BY <1>4 DEF ArchText
    <2> HIDE DEF text
    <2> QED
      BY <1>3, <2>1, <2>2
  <1> DEFINE model == text("model name")
             mhz == text("cpu MHz")
  <1>9. /\ model \in Filled \/ file = NULL \/ ValuesOf(file, "model name") = {}
        /\ mhz \in Filled \/ file = NULL \/ ValuesOf(file, "cpu MHz") = {}
    BY <1>8
  <1>10. filled = [f \in ArchFields |-> IF f = "cpu" THEN model
                                        ELSE IF f = "cpu_frequency" THEN mhz
                                        ELSE IF f = "cpu_cores" THEN cores
                                        ELSE IF f = "cpu_threads" THEN threads
                                        ELSE uname]
    OBVIOUS
  <1> HIDE DEF model, mhz, cores, threads, filled
  <1>11. \A f \in DOMAIN filled :
           \/ filled[f] \in Filled
           \/ f = "cpu" /\ (file = NULL \/ ValuesOf(file, "model name") = {})
           \/ f = "cpu_frequency" /\ (file = NULL \/ ValuesOf(file, "cpu MHz") = {})
    BY <1>5, <1>6, <1>7, <1>9, <1>10
  <1> QED
    BY <1>2, <1>11 DEF ArchFilled

\* With every field filled in nothing is stale.
LEMMA FreshNotStale ==
  ASSUME NEW fn, NEW args, NEW result, Called(fn, args, result),
         \/ Fresh(result.info)
         \/ fn \in {"system", "memory"} /\ (result.ret = 0 => Fresh(result.info))
         \/ fn = "gpu"
  PROVE  NothingStale'
  <1>1. call'.fn = fn /\ call'.result = result
    BY DEF Called
  <1>2. \A x \in Filled : x # Garbage
    BY MarkAssumption DEF Filled
  <1>3. Fresh(result.info) => {f \in DOMAIN result.info : result.info[f] = Garbage} = {}
    BY <1>2 DEF Fresh
  <1>4. CASE Fresh(result.info)
    BY <1>1, <1>3, <1>4 DEF NothingStale, Info
  <1>5. CASE fn \in {"system", "memory"} /\ (result.ret = 0 => Fresh(result.info))
    BY <1>1, <1>3, <1>5 DEF NothingStale, Info
  <1>6. CASE fn = "gpu"
    BY <1>1, <1>6 DEF NothingStale
  <1> QED
    BY <1>4, <1>5, <1>6

LEMMA ArchitectureNotStale ==
  ASSUME NEW old \in Stale, NEW file \in OrNull(Cpuinfo), NEW uname \in OrNull(Answer),
         NEW again \in Nat,
         Called("architecture", [file |-> file, uname |-> uname],
                fossil_sys_hostinfo_get_architecture(All(ArchFields, old), uname, file, again))
  PROVE  NothingStale'
  <1> DEFINE result == fossil_sys_hostinfo_get_architecture(All(ArchFields, old), uname, file, again)
             stale == {f \in DOMAIN result.info : result.info[f] = Garbage}
  <1>1. call'.fn = "architecture" /\ call'.args.file = file /\ call'.result = result
    BY DEF Called
  <1>2. CASE uname = NULL
    <2>1. result.ret = -1
      BY <1>2 DEF fossil_sys_hostinfo_get_architecture, Fails
    <2> HIDE DEF result
    <2> QED
      BY <1>1, <2>1 DEF NothingStale, Info
  <1>3. CASE uname # NULL
    <2>1. ArchFilled(result.info, file)
      BY <1>3, ArchitectureFresh
    <2>2. \A x \in Filled : x # Garbage
      BY MarkAssumption DEF Filled
    <2>3. result.ret = 0
      BY <1>3 DEF fossil_sys_hostinfo_get_architecture, Done
    <2> HIDE DEF result
    <2>4. /\ stale \subseteq {"cpu", "cpu_frequency"}
          /\ "cpu" \in stale => file = NULL \/ ValuesOf(file, "model name") = {}
          /\ "cpu_frequency" \in stale => file = NULL \/ ValuesOf(file, "cpu MHz") = {}
      BY <2>1, <2>2 DEF ArchFilled
    <2> QED
      BY <1>1, <2>3, <2>4 DEF NothingStale, Info
  <1> QED
    BY <1>2, <1>3

LEMMA StaleStep == Hostinfo => NothingStale'
  <1>1. ASSUME CallMachine PROVE NothingStale'
    <2>1. ASSUME NEW file \in OrNull(Cpuinfo),
                 Called("cpu", [file |-> file], fossil_sys_hostinfo_get_cpu(file))
          PROVE  NothingStale'
      BY <2>1, CpuFresh, FreshNotStale
    <2>2. ASSUME NEW file \in OrNull(Cpuinfo), NEW old \in Stale, NEW uname \in OrNull(Answer),
                 NEW again \in {0} \cup Count,
                 Called("architecture", [file |-> file, uname |-> uname],
                        fossil_sys_hostinfo_get_architecture(All(ArchFields, old), uname, file,
                                                             again))
          PROVE  NothingStale'
      <3>1. again \in Nat
        BY HostinfoAssumption
      <3> QED
        BY <2>2, <3>1, ArchitectureNotStale
    <2>3. ASSUME NEW old \in Stale, NEW answer \in OrNull(Answer), NEW host \in OrNull(Answer),
                 NEW env \in [{"USER", "DOMAINNAME"} -> OrNull(Answer)],
                 Called("system", [uname |-> answer],
                        fossil_sys_hostinfo_get_system(All(SystemFields, old), answer, host, env))
          PROVE  NothingStale'
      BY <2>3, SystemFresh, FreshNotStale
    <2>4. ASSUME NEW old \in Stale, NEW s \in OrNull([total : Count, free : Count]),
                 Called("memory", [sysinfo |-> s],
                        fossil_sys_hostinfo_get_memory(All(MemoryFields, old), s))
          PROVE  NothingStale'
      BY <2>4, MemoryFresh, FreshNotStale
    <2>5. ASSUME NEW bytes,
                 Called("endianness", [bytes |-> bytes], fossil_sys_hostinfo_get_endianness(bytes))
          PROVE  NothingStale'
      BY <2>5, SimpleFresh, FreshNotStale
    <2>6. ASSUME NEW nofile \in OrNull(Count), NEW page \in Count,
                 Called("limits", [nofile |-> nofile], fossil_sys_hostinfo_get_limits(nofile, page))
          PROVE  NothingStale'
      BY <2>6, SimpleFresh, FreshNotStale
    <2>7. ASSUME NEW old \in Stale, NEW ac \in [1 .. 3 -> {NULL, Bad, 0, 1}],
                 NEW bat \in [1 .. 2 -> OrNull(Battery)],
                 Called("power", [ac |-> ac, bat |-> bat],
                        fossil_sys_hostinfo_get_power(All(PowerFields, old), ac, bat))
          PROVE  NothingStale'
      BY <2>7, PowerFresh, FreshNotStale
    <2> QED
      BY <1>1, <2>1, <2>2, <2>3, <2>4, <2>5, <2>6, <2>7 DEF CallMachine
  <1>2. ASSUME CallClocks PROVE NothingStale'
    <2>1. ASSUME NEW boot \in Instant, NEW up \in {i \in Instant : i >= 0},
                 NEW delay \in 0 .. MAX_DELAY,
                 Called("uptime", [boot |-> boot, file |-> up, delay |-> delay],
                        fossil_sys_hostinfo_get_uptime(up, boot + up + delay))
          PROVE  NothingStale'
      <3>1. up \in {NULL, Bad} \cup Int /\ boot + up + delay \in Int
        BY HostinfoAssumption
      <3> QED
        BY <2>1, <3>1, UptimeFresh, FreshNotStale
    <2>2. ASSUME NEW file \in {NULL, Bad},
                 Called("uptime", [file |-> file], fossil_sys_hostinfo_get_uptime(file, 0))
          PROVE  NothingStale'
      <3>1. file \in {NULL, Bad} \cup Int /\ 0 \in Int
        OBVIOUS
      <3> QED
        BY <2>2, <3>1, UptimeFresh, FreshNotStale
    <2>3. ASSUME NEW utc \in Quarter, NEW zone \in Zone, NEW locale \in OrNull(Answer),
                 Called("time", [utc |-> utc, zone |-> zone],
                        fossil_sys_hostinfo_get_time(utc, zone, locale))
          PROVE  NothingStale'
      <3>1. utc \in Int /\ zone \in Int
        BY HostinfoAssumption
      <3> QED
        BY <2>3, <3>1, TimeFresh, FreshNotStale
    <2> QED
      BY <1>2, <2>1, <2>2, <2>3 DEF CallClocks
  <1>3. ASSUME CallDevices PROVE NothingStale'
    <2>1. ASSUME NEW line, NEW version,
                 Called("gpu", [line |-> line], fossil_sys_hostinfo_get_gpu(line, version))
          PROVE  NothingStale'
      BY <2>1, FreshNotStale
    <2>2. ASSUME NEW fb \in OrNull(Count),
                 Called("display", [fb |-> fb], fossil_sys_hostinfo_get_display(fb))
          PROVE  NothingStale'
      BY <2>2, DisplayFresh, FreshNotStale
    <2>3. ASSUME NEW interfaces \in OrNull(BoundedSeq([ip : Answer, name : Answer,
                       mac : OrNull(Answer), family : {"inet", "other"}, loopback : BOOLEAN], 2)),
                 NEW host \in OrNull(Answer),
                 Called("network", [interfaces |-> interfaces],
                        fossil_sys_hostinfo_get_network(host, interfaces))
          PROVE  NothingStale'
      BY <2>3, NetworkFresh, FreshNotStale
    <2>4. ASSUME NEW vfs \in OrNull([blocks : Count, bfree : Count]),
                 NEW mounts \in BoundedSeq([mnt : {"/", "/proc"}, type : Answer], MAX_LINES),
                 Called("storage", [vfs |-> vfs, mounts |-> mounts],
                        fossil_sys_hostinfo_get_storage(vfs, mounts))
          PROVE  NothingStale'
      <3>1. mounts \in Seq([mnt : {"/", "/proc"}, type : Answer])
        BY ShortSeq, HostinfoAssumption
      <3> QED
        BY <2>4, <3>1, StorageFresh, FreshNotStale
    <2>5. ASSUME NEW dmi \in [{"sys_vendor", "product_name", "product_serial", "bios_version"}
                                -> OrNull(Answer)],
                 Called("hardware", [dmi |-> dmi], fossil_sys_hostinfo_get_hardware(dmi))
          PROVE  NothingStale'
      BY <2>5, SimpleFresh, FreshNotStale
    <2> QED
      BY <1>3, <2>1, <2>2, <2>3, <2>4, <2>5 DEF CallDevices
  <1>4. ASSUME CallSetting PROVE NothingStale'
    <2>1. ASSUME NEW env \in [{"SHELL", "HOME", "LANG", "PATH", "TERM", "USER"} -> OrNull(Answer)],
                 Called("environment", [env |-> env], fossil_sys_hostinfo_get_environment(env))
          PROVE  NothingStale'
      BY <2>1, SettingFresh, FreshNotStale
    <2>2. ASSUME NEW cwd \in OrNull(Answer), NEW exe \in OrNull(Answer), NEW root \in BOOLEAN,
                 Called("process", [cwd |-> cwd], fossil_sys_hostinfo_get_process(cwd, exe, root))
          PROVE  NothingStale'
      BY <2>2, SettingFresh, FreshNotStale
    <2>3. ASSUME NEW cgroup, NEW markers, NEW cpu \in Cpu,
                 NEW product \in OrNull([name : Answer, known : BOOLEAN]),
                 Called("virtualization", [cgroup |-> cgroup, markers |-> markers,
                                           cpu |-> cpu, product |-> product],
                        fossil_sys_hostinfo_get_virtualization(cgroup, markers, cpu, product))
          PROVE  NothingStale'
      BY <2>3, VirtualizationFresh, FreshNotStale
    <2> QED
      BY <1>4, <2>1, <2>2, <2>3 DEF CallSetting
  <1> QED
    BY <1>1, <1>2, <1>3, <1>4 DEF Hostinfo
-----------------------------------------------------------------------------
(* Graphics: the quotes of lspci's line *)

\* The rank of a position in a set: how many of its elements are not behind it.
LEMMA RankProperties ==
  ASSUME NEW N \in Nat, NEW S, S \subseteq 1 .. N
  PROVE  /\ Rank(S, 0) = 0
         /\ \A k \in 0 .. N : Rank(S, k) \in Nat
         /\ Cardinality(S) \in Nat
         /\ \A k \in 0 .. N, m \in S :
              k < m /\ (\A j \in S : k < j => m <= j) => Rank(S, m) = Rank(S, k) + 1
         /\ \A k \in 0 .. N : (\A j \in S : j <= k) => Rank(S, k) = Cardinality(S)
         /\ \A k \in 0 .. N : Rank(S, k) <= Cardinality(S)
         /\ \A k, m \in S : k < m => Rank(S, k) < Rank(S, m)
  <1>0. \A j \in S : j \in Int /\ j > 0
    OBVIOUS
  <1>1. \A T \in SUBSET S : IsFiniteSet(T) /\ Cardinality(T) \in Nat
    BY PositionsFinite
  <1>2. Rank(S, 0) = 0
    <2>0. \A j \in S : ~(j <= 0)
      BY <1>0
    <2>1. {j \in S : j <= 0} = {}
      BY <2>0, Zenon
    <2> QED
      BY <2>1, FS_EmptySet DEF Rank
  <1>3. ASSUME NEW k \in 0 .. N
        PROVE  Rank(S, k) \in Nat /\ Rank(S, k) <= Cardinality(S)
    <2>1. {j \in S : j <= k} \in SUBSET S
      OBVIOUS
    <2>2. IsFiniteSet(S)
      BY <1>1
    <2> QED
      BY <1>1, <2>1, <2>2, FS_Subset DEF Rank
  <1>4. ASSUME NEW k \in 0 .. N, NEW m \in S, k < m, \A j \in S : k < j => m <= j
        PROVE  Rank(S, m) = Rank(S, k) + 1
    <2> DEFINE T == {j \in S : j <= k}
    <2>0. k \in Int /\ m \in Int
      BY <1>0
    <2>1. {j \in S : j <= m} = T \cup {m} /\ m \notin T
      <3>1. \A j \in S : j <= m <=> j <= k \/ j = m
        BY <1>0, <1>4, <2>0
      <3>2. ~(m <= k)
        BY <1>4, <2>0
      <3> QED
        BY <3>1, <3>2, Zenon
    <2>2. IsFiniteSet(T)
      BY <1>1
    <2> HIDE DEF T
    <2>3. Cardinality(T \cup {m}) = Cardinality(T) + 1
      BY <2>1, <2>2, FS_AddElement
    <2> QED
      BY <2>1, <2>3 DEF Rank, T
  <1>5. ASSUME NEW k \in 0 .. N, \A j \in S : j <= k
        PROVE  Rank(S, k) = Cardinality(S)
    <2>1. {j \in S : j <= k} = S
      BY <1>5
    <2> QED
      BY <2>1 DEF Rank
  <1>6. ASSUME NEW k \in S, NEW m \in S, k < m
        PROVE  Rank(S, k) < Rank(S, m)
    <2> DEFINE T == {j \in S : j <= k}
               U == {j \in S : j <= m}
    <2>0. m <= m /\ ~(m <= k) /\ \A j \in S : j <= k => j <= m
      BY <1>0, <1>6
    <2>1. T \subseteq U /\ m \in U /\ m \notin T
      BY <2>0, Zenon
    <2>2. IsFiniteSet(U) /\ IsFiniteSet(T) /\ Cardinality(T) \in Nat /\ Cardinality(U) \in Nat
      <3>1. U \in SUBSET S /\ T \in SUBSET S
        OBVIOUS
      <3> HIDE DEF T, U
      <3> QED
        BY <1>1, <3>1
    <2> HIDE DEF T, U
    <2>3. Cardinality(T) <= Cardinality(U) /\ (Cardinality(U) = Cardinality(T) => U = T)
      BY <2>1, <2>2, FS_Subset
    <2> QED
      BY <2>1, <2>2, <2>3 DEF Rank, T, U
  <1> QED
    BY <1>1, <1>2, <1>3, <1>4, <1>5, <1>6

Line == Seq({"quote", "text"})

\* What strchr finds behind a quote, or from the beginning, is the next one.
LEMMA NextQuote ==
  ASSUME NEW line \in Line, NEW k \in {0} \cup Quotes(line)
  PROVE  /\ strchr(line, k + 1) = NULL =>
              Cardinality(Quotes(line)) = Rank(Quotes(line), k)
         /\ strchr(line, k + 1) # NULL =>
              /\ strchr(line, k + 1) \in Quotes(line)
              /\ k < strchr(line, k + 1)
              /\ \A j \in Quotes(line) : k < j => strchr(line, k + 1) <= j
              /\ Rank(Quotes(line), strchr(line, k + 1)) = Rank(Quotes(line), k) + 1
              /\ Cardinality(Quotes(line)) > Rank(Quotes(line), k)
  <1> DEFINE N == Len(line)
             S == Quotes(line)
             q == {j \in k + 1 .. N : line[j] = "quote"}
             m == strchr(line, k + 1)
  <1>1. N \in Nat /\ S \subseteq 1 .. N /\ k \in 0 .. N /\ DOMAIN line = 1 .. N
    BY DEF Quotes, Line
  <1>2. q = {j \in S : k < j}
    BY <1>1 DEF Quotes
  <1>3. m = IF q = {} THEN NULL ELSE CHOOSE i \in q : \A j \in q : i <= j
    BY DEF strchr
  <1> HIDE DEF N, S, q, m
  <1>4. CASE q = {}
    <2>1. m = NULL
      BY <1>3, <1>4
    <2>2. \A j \in S : j <= k
      BY <1>1, <1>2, <1>4
    <2> QED
      BY <1>1, <2>1, <2>2, RankProperties DEF m, S
  <1>5. CASE q # {}
    <2>1. q \subseteq 1 .. N
      BY <1>1, <1>2
    <2>2. m \in q /\ \A j \in q : m <= j
      BY <1>1, <1>3, <1>5, <2>1, FirstAndLast
    <2>3. m # NULL
      BY <2>1, <2>2, MarkAssumption
    <2>4. m \in S /\ k < m /\ \A j \in S : k < j => m <= j
      BY <1>2, <2>2
    <2>5. Rank(S, m) = Rank(S, k) + 1 /\ Rank(S, m) <= Cardinality(S)
            /\ Rank(S, k) \in Nat /\ Cardinality(S) \in Nat
      <3>1. m \in 0 .. N
        BY <1>1, <2>1, <2>2
      <3>2. Rank(S, m) = Rank(S, k) + 1
        BY <1>1, <2>4, RankProperties
      <3>3. Rank(S, m) <= Cardinality(S) /\ Rank(S, k) \in Nat /\ Cardinality(S) \in Nat
        BY <1>1, <3>1, RankProperties
      <3> QED
        BY <3>2, <3>3
    <2>6. Cardinality(S) > Rank(S, k)
      BY <2>5
    <2> QED
      BY <2>3, <2>4, <2>5, <2>6 DEF m, S
  <1> QED
    BY <1>4, <1>5

LEMMA QuoteBehind ==
  ASSUME NEW line \in Line, NEW n \in Nat, NEW m, n + 1 = m,
         NEW k \in {0} \cup Quotes(line), Rank(Quotes(line), k) = n
  PROVE  /\ strchr(line, k + 1) = NULL => Cardinality(Quotes(line)) = n
         /\ strchr(line, k + 1) # NULL =>
              /\ strchr(line, k + 1) \in Quotes(line)
              /\ Rank(Quotes(line), strchr(line, k + 1)) = m
              /\ Cardinality(Quotes(line)) > n
  BY NextQuote

\* The text between two quotes that follow each other.
LEMMA TextBetween ==
  ASSUME NEW line \in Line, NEW n \in Nat, NEW a \in Quotes(line), NEW b \in Quotes(line),
         a < b, \A j \in Quotes(line) : a < j => b <= j,
         Rank(Quotes(line), a) = n, Rank(Quotes(line), b) = n + 1
  PROVE  /\ TextLength(line, n) = b - a - 1
         /\ Cut(line, a, b) # Unknown <=> b - a - 1 \in 1 .. NAME_SIZE - 1
         /\ Cut(line, a, b) # Unknown => Len(Cut(line, a, b)) = b - a - 1
  <1> DEFINE S == Quotes(line)
             N == Len(line)
  <1>1. N \in Nat /\ S \subseteq 1 .. N /\ DOMAIN line = 1 .. N /\ a \in 1 .. N /\ b \in 1 .. N
    BY DEF Quotes, Line
  <1>2. \A p, k \in S : Rank(S, k) = Rank(S, p) => k = p
    <2>1. \A p, k \in S : /\ Rank(S, k) \in Nat /\ Rank(S, p) \in Nat
                          /\ k < p => Rank(S, k) < Rank(S, p)
                          /\ p < k => Rank(S, p) < Rank(S, k)
      <3> HIDE DEF S, N
      <3>1. \A k \in S : k \in 0 .. N
        BY <1>1
      <3>2. \A k \in S : Rank(S, k) \in Nat
        BY <1>1, <3>1, RankProperties
      <3>3. \A k, m \in S : k < m => Rank(S, k) < Rank(S, m)
        BY <1>1, RankProperties
      <3> QED
        BY <3>2, <3>3
    <2> QED
      BY <1>1, <2>1
  <1>3. QuoteAt(line, n) = a /\ QuoteAt(line, n + 1) = b
    BY <1>2 DEF QuoteAt
  <1>4. {k \in a .. b : line[k] = "text"} = a + 1 .. b - 1
    <2>1. \A k \in a .. b : line[k] \in {"quote", "text"} /\ (line[k] = "quote" <=> k \in S)
      BY <1>1 DEF Quotes, Line
    <2>2. \A k \in a .. b : k \in S <=> k = a \/ k = b
      BY <1>1
    <2> QED
      BY <1>1, <2>1, <2>2
  <1>5. TextLength(line, n) = b - a - 1
    <2>1. Cardinality(a + 1 .. b - 1) = b - a - 1
      <3>1. a + 1 \in Int /\ b - 1 \in Int
        BY <1>1
      <3>2. Cardinality(a + 1 .. b - 1)
              = IF a + 1 > b - 1 THEN 0 ELSE (b - 1) - (a + 1) + 1
        BY <3>1, FS_Interval
      <3> QED
        BY <1>1, <3>2
    <2> QED
      BY <1>3, <1>4, <2>1 DEF TextLength
  <1>6. b # NULL
    BY <1>1, MarkAssumption
  <1>7. CASE b - a - 1 \in 1 .. NAME_SIZE - 1
    <2>1. Cut(line, a, b) = SubSeq(line, a + 1, b - 1)
      BY <1>1, <1>6, <1>7, HostinfoAssumption DEF Cut
    <2>2. SubSeq(line, a + 1, b - 1) \in Line /\ Len(SubSeq(line, a + 1, b - 1)) = b - a - 1
      BY <1>1 DEF Line
    <2> QED
      BY <1>5, <1>7, <2>1, <2>2, MarkAssumption DEF Line
  <1>8. CASE b - a - 1 \notin 1 .. NAME_SIZE - 1
    <2>1. Cut(line, a, b) = Unknown
      BY <1>1, <1>8, HostinfoAssumption DEF Cut
    <2> QED
      BY <1>5, <1>8, <2>1
  <1> QED
    BY <1>7, <1>8, <1>5

\* What is cut of the line between a quote of some rank and the next one.
LEMMA CutFits ==
  ASSUME NEW line \in Line, NEW n \in Nat, NEW a \in Quotes(line), Rank(Quotes(line), a) = n
  PROVE  /\ Cut(line, a, strchr(line, a + 1)) # Unknown <=> Fits(line, n)
         /\ Fits(line, n) => Len(Cut(line, a, strchr(line, a + 1))) = TextLength(line, n)
  <1> DEFINE b == strchr(line, a + 1)
             cut == Cut(line, a, b)
  <1>1. CASE b = NULL
    <2>1. Cardinality(Quotes(line)) = n
      BY <1>1, NextQuote
    <2>2. cut = Unknown
      BY <1>1 DEF Cut
    <2>3. ~Fits(line, n)
      BY <2>1 DEF Fits
    <2> QED
      BY <2>2, <2>3
  <1>2. CASE b # NULL
    <2>1. /\ b \in Quotes(line) /\ a < b /\ \A j \in Quotes(line) : a < j => b <= j
          /\ Rank(Quotes(line), b) = n + 1 /\ Cardinality(Quotes(line)) > n
      BY <1>2, NextQuote
    <2> HIDE DEF b
    <2>2. /\ TextLength(line, n) = b - a - 1
          /\ cut # Unknown <=> b - a - 1 \in 1 .. NAME_SIZE - 1
          /\ cut # Unknown => Len(cut) = b - a - 1
      BY <2>1, TextBetween
    <2> HIDE DEF cut
    <2>3. (cut # Unknown <=> Fits(line, n)) /\ (Fits(line, n) => Len(cut) = TextLength(line, n))
      BY <2>1, <2>2 DEF Fits
    <2> QED
      BY <2>3 DEF cut, b
  <1> QED
    BY <1>1, <1>2

\* The structure that GpuLine fills in, or the null pointer it runs into.
GpuLineRight(read, line) ==
  /\ read.ret = NULL <=> Cardinality(Quotes(line)) = 3
  /\ read.ret # NULL =>
       /\ read.vendor # Unknown <=> Fits(line, 3)
       /\ read.name # Unknown <=> Fits(line, 5)
       /\ Fits(line, 3) => Len(read.vendor) = TextLength(line, 3)
       /\ Fits(line, 5) => Len(read.name) = TextLength(line, 5)

LEMMA GpuLineReads == ASSUME NEW line \in Line PROVE GpuLineRight(GpuLine(line), line)
  <1> DEFINE S == Quotes(line)
             c == Cardinality(S)
             none == [ret |-> 0, vendor |-> Unknown, name |-> Unknown]
             open == strchr(line, 1)
             close == strchr(line, open + 1)
             vendor == strchr(line, close + 1)
             vendor_end == strchr(line, vendor + 1)
             name == strchr(line, vendor_end + 1)
             vendor_cut == Cut(line, vendor, vendor_end)
             name_cut == Cut(line, name, strchr(line, name + 1))
  <1>1. /\ open = NULL => c = 0
        /\ open # NULL => open \in S /\ Rank(S, open) = 1
    <2>1. 0 + 1 = 1
      OBVIOUS
    <2>2. Rank(S, 0) = 0
      <3>1. Len(line) \in Nat /\ S \subseteq 1 .. Len(line)
        BY DEF Quotes, Line
      <3> QED
        BY <3>1, RankProperties
    <2>3. /\ strchr(line, 0 + 1) = NULL => c = Rank(S, 0)
          /\ strchr(line, 0 + 1) # NULL =>
               /\ strchr(line, 0 + 1) \in S
               /\ Rank(S, strchr(line, 0 + 1)) = Rank(S, 0) + 1
      BY NextQuote
    <2> HIDE DEF S, c
    <2> QED
      BY <2>1, <2>2, <2>3
  <1>2. open # NULL => /\ close = NULL => c = 1
                       /\ close # NULL => close \in S /\ Rank(S, close) = 2
    <2> SUFFICES ASSUME open # NULL
                 PROVE  /\ close = NULL => c = 1
                        /\ close # NULL => close \in S /\ Rank(S, close) = 2
      OBVIOUS
    <2>1. open \in {0} \cup Quotes(line) /\ Rank(Quotes(line), open) = 1 /\ 1 + 1 = 2 /\ 1 \in Nat
      BY <1>1
    <2> HIDE DEF open
    <2> QED
      BY <2>1, QuoteBehind
  <1>3. open # NULL /\ close # NULL =>
          /\ vendor = NULL => c = 2
          /\ vendor # NULL => vendor \in S /\ Rank(S, vendor) = 3
    <2> SUFFICES ASSUME open # NULL, close # NULL
                 PROVE  /\ vendor = NULL => c = 2
                        /\ vendor # NULL => vendor \in S /\ Rank(S, vendor) = 3
      OBVIOUS
    <2>1. close \in {0} \cup Quotes(line) /\ Rank(Quotes(line), close) = 2 /\ 2 + 1 = 3 /\ 2 \in Nat
      BY <1>2
    <2> HIDE DEF close
    <2> QED
      BY <2>1, QuoteBehind
  <1>4. open # NULL /\ close # NULL /\ vendor # NULL =>
          /\ vendor_end = NULL => c = 3
          /\ vendor_end # NULL => vendor_end \in S /\ Rank(S, vendor_end) = 4 /\ c > 3
          /\ vendor_cut # Unknown <=> Fits(line, 3)
          /\ Fits(line, 3) => Len(vendor_cut) = TextLength(line, 3)
    <2> SUFFICES ASSUME open # NULL, close # NULL, vendor # NULL
                 PROVE  /\ vendor_end = NULL => c = 3
                        /\ vendor_end # NULL => vendor_end \in S /\ Rank(S, vendor_end) = 4 /\ c > 3
                        /\ vendor_cut # Unknown <=> Fits(line, 3)
                        /\ Fits(line, 3) => Len(vendor_cut) = TextLength(line, 3)
      OBVIOUS
    <2> HIDE DEF vendor
    <2>1. vendor \in {0} \cup Quotes(line) /\ vendor \in Quotes(line)
            /\ Rank(Quotes(line), vendor) = 3 /\ 3 + 1 = 4 /\ 3 \in Nat
      BY <1>3
    <2>2. /\ vendor_end = NULL => c = 3
          /\ vendor_end # NULL => vendor_end \in S /\ Rank(S, vendor_end) = 4 /\ c > 3
      BY <2>1, QuoteBehind
    <2>3. /\ vendor_cut # Unknown <=> Fits(line, 3)
          /\ Fits(line, 3) => Len(vendor_cut) = TextLength(line, 3)
      BY <2>1, CutFits
    <2> QED
      BY <2>2, <2>3
  <1>5. open # NULL /\ close # NULL /\ vendor # NULL /\ vendor_end # NULL =>
          /\ name = NULL => c = 4
          /\ name # NULL => /\ name_cut # Unknown <=> Fits(line, 5)
                            /\ Fits(line, 5) => Len(name_cut) = TextLength(line, 5)
    <2> SUFFICES ASSUME open # NULL, close # NULL, vendor # NULL, vendor_end # NULL
                 PROVE  /\ name = NULL => c = 4
                        /\ name # NULL => /\ name_cut # Unknown <=> Fits(line, 5)
                                          /\ Fits(line, 5) => Len(name_cut) = TextLength(line, 5)
      OBVIOUS
    <2>1. vendor_end \in {0} \cup Quotes(line) /\ Rank(Quotes(line), vendor_end) = 4
            /\ 4 + 1 = 5 /\ 4 \in Nat /\ 5 \in Nat
      BY <1>4
    <2> HIDE DEF vendor_end
    <2>2. /\ name = NULL => c = 4
          /\ name # NULL => name \in S /\ Rank(S, name) = 5
      BY <2>1, QuoteBehind
    <2> HIDE DEF name
    <2>3. name # NULL => /\ name_cut # Unknown <=> Fits(line, 5)
                         /\ Fits(line, 5) => Len(name_cut) = TextLength(line, 5)
      BY <2>1, <2>2, CutFits
    <2> QED
      BY <2>2, <2>3
  <1>6. GpuLine(line) = IF open = NULL THEN none
                        ELSE IF close = NULL THEN none
                        ELSE IF vendor = NULL THEN none
                        ELSE IF vendor_end = NULL THEN [ret |-> NULL]
                        ELSE [ret |-> 0, vendor |-> vendor_cut,
                              name |-> IF name = NULL THEN Unknown ELSE name_cut]
    BY DEF GpuLine
  <1>7. (c = 0 \/ c = 1 \/ c = 2 \/ c = 3 => ~Fits(line, 3) /\ ~Fits(line, 5))
          /\ (c = 4 => ~Fits(line, 5)) /\ 0 # NULL
    BY MarkAssumption DEF Fits
  <1> DEFINE read == GpuLine(line)
  <1> HIDE DEF open, close, vendor, vendor_end, name, vendor_cut, name_cut, c
  <1>8. CASE open = NULL \/ close = NULL \/ vendor = NULL
    <2>1. read = none /\ c \in {0, 1, 2}
      BY <1>1, <1>2, <1>3, <1>6, <1>8
    <2>2. read.ret = 0 /\ read.vendor = Unknown /\ read.name = Unknown /\ c # 3
      BY <2>1
    <2> HIDE DEF read
    <2> QED
      BY <1>7, <2>1, <2>2 DEF GpuLineRight, read, c
  <1>9. CASE open # NULL /\ close # NULL /\ vendor # NULL /\ vendor_end = NULL
    <2>1. read.ret = NULL /\ c = 3
      BY <1>4, <1>6, <1>9
    <2> HIDE DEF read
    <2> QED
      BY <2>1 DEF GpuLineRight, read, c
  <1>10. CASE open # NULL /\ close # NULL /\ vendor # NULL /\ vendor_end # NULL
    <2> DEFINE n == IF name = NULL THEN Unknown ELSE name_cut
    <2>1. read.ret = 0 /\ read.vendor = vendor_cut /\ read.name = n
      BY <1>6, <1>10
    <2>2. c > 3
      BY <1>4, <1>10
    <2>3. /\ n # Unknown <=> Fits(line, 5)
          /\ Fits(line, 5) => Len(n) = TextLength(line, 5)
      BY <1>5, <1>7, <1>10
    <2> HIDE DEF read, n
    <2>4. c # 3
      BY <2>2
    <2> QED
      BY <1>4, <1>7, <1>10, <2>1, <2>3, <2>4 DEF GpuLineRight, read, c
  <1> QED
    BY <1>8, <1>9, <1>10

LEMMA GpuStep == Idle /\ CallDevices => GpuRead'
  <1>1. CASE call'.fn # "gpu"
    BY <1>1 DEF GpuRead
  <1>2. ASSUME NEW line \in OrNull(BoundedSeq({"quote", "text"}, MAX_CHARS)), NEW version,
               Called("gpu", [line |-> line], fossil_sys_hostinfo_get_gpu(line, version))
        PROVE  GpuRead'
    <2>1. call'.args.line = line /\ call'.result = fossil_sys_hostinfo_get_gpu(line, version)
      BY <1>2 DEF Called
    <2>2. CASE line = NULL
      BY <2>1, <2>2 DEF GpuRead
    <2>3. CASE line # NULL
      <3> DEFINE read == GpuLine(line)
                 result == fossil_sys_hostinfo_get_gpu(line, version)
      <3>1. line \in Line
        BY <2>3, ShortSeq, HostinfoAssumption DEF OrNull, Line
      <3>2. GpuLineRight(read, line)
        BY <3>1, GpuLineReads
      <3>3. /\ read.ret = NULL => result.ret = NULL
            /\ read.ret # NULL => /\ result.ret = 0 /\ 0 # NULL
                                  /\ result.info.vendor = read.vendor
                                  /\ result.info.name = read.name
        BY <2>3, MarkAssumption DEF fossil_sys_hostinfo_get_gpu, Done
      <3>4. call'.args.line = line /\ call'.result = result
        BY <2>1
      <3> HIDE DEF read, result
      <3>5. /\ result.ret = NULL <=> Cardinality(Quotes(line)) = 3
            /\ result.ret = 0 =>
                 /\ result.info.vendor # Unknown <=> Fits(line, 3)
                 /\ result.info.name # Unknown <=> Fits(line, 5)
                 /\ Fits(line, 3) => Len(result.info.vendor) = TextLength(line, 3)
                 /\ Fits(line, 5) => Len(result.info.name) = TextLength(line, 5)
        <4>1. 0 # NULL
          BY MarkAssumption
        <4>2. CASE read.ret = NULL
          BY <3>2, <3>3, <4>1, <4>2 DEF GpuLineRight
        <4>3. CASE read.ret # NULL
          <5>1. result.info.vendor = read.vendor /\ result.info.name = read.name /\ result.ret = 0
            BY <3>3, <4>3
          <5>2. Cardinality(Quotes(line)) # 3
            BY <3>2, <4>3 DEF GpuLineRight
          <5>3. /\ read.vendor # Unknown <=> Fits(line, 3)
                /\ read.name # Unknown <=> Fits(line, 5)
                /\ Fits(line, 3) => Len(read.vendor) = TextLength(line, 3)
                /\ Fits(line, 5) => Len(read.name) = TextLength(line, 5)
            BY <3>2, <4>3 DEF GpuLineRight
          <5> QED
            BY <4>1, <5>1, <5>2, <5>3
        <4> QED
          BY <4>2, <4>3
      <3> QED
        BY <3>4, <3>5 DEF GpuRead, Info
    <2> QED
      BY <2>2, <2>3
  <1>3. CallDevices /\ call'.fn = "gpu" =>
          \E line \in OrNull(BoundedSeq({"quote", "text"}, MAX_CHARS)), version \in OrNull(Answer) :
            Called("gpu", [line |-> line], fossil_sys_hostinfo_get_gpu(line, version))
    BY DEF CallDevices, Called
  <1> QED
    BY <1>1, <1>2, <1>3
-----------------------------------------------------------------------------
(* The theorems *)

LEMMA OtherCalls ==
  /\ call'.fn \notin ClockCalls => ClocksRight'
  /\ call'.fn \notin SettingCalls => ContainerSeen'
  /\ call'.fn \notin MachineCalls => CpuAgree'
  /\ call'.fn \notin DeviceCalls => GpuRead'
  /\ call'.fn \in FlagCalls \cup {"none"} => NothingStale'
  BY DEF ClockCalls, SettingCalls, MachineCalls, DeviceCalls, FlagCalls,
         ClocksRight, ContainerSeen, CpuAgree, GpuRead, NothingStale

LEMMA NextRight ==
  Next => ClocksRight' /\ ContainerSeen' /\ CpuAgree' /\ GpuRead' /\ NothingStale'
  <1> DEFINE Right == ClocksRight /\ ContainerSeen /\ CpuAgree /\ GpuRead /\ NothingStale
  <1>1. ASSUME Idle, CallMachine, Hostinfo PROVE Right'
    <2>1. call'.fn \notin ClockCalls \cup SettingCalls \cup DeviceCalls
      BY <1>1, CallNames DEF ClockCalls, SettingCalls, MachineCalls, DeviceCalls
    <2> QED
      BY <1>1, <2>1, OtherCalls, CpuStep, StaleStep
  <1>2. ASSUME Idle, CallClocks, Hostinfo PROVE Right'
    <2>1. call'.fn \notin MachineCalls \cup SettingCalls \cup DeviceCalls
      BY <1>2, CallNames DEF ClockCalls, SettingCalls, MachineCalls, DeviceCalls
    <2> QED
      BY <1>2, <2>1, OtherCalls, ClocksStep, StaleStep
  <1>3. ASSUME Idle, CallDevices, Hostinfo PROVE Right'
    <2>1. call'.fn \notin MachineCalls \cup SettingCalls \cup ClockCalls
      BY <1>3, CallNames DEF ClockCalls, SettingCalls, MachineCalls, DeviceCalls
    <2> QED
      BY <1>3, <2>1, OtherCalls, GpuStep, StaleStep
  <1>4. ASSUME Idle, CallSetting, Hostinfo PROVE Right'
    <2>1. call'.fn \notin MachineCalls \cup DeviceCalls \cup ClockCalls
      BY <1>4, CallNames DEF ClockCalls, SettingCalls, MachineCalls, DeviceCalls
    <2> QED
      BY <1>4, <2>1, OtherCalls, ContainerStep, StaleStep
  <1>5. ASSUME Bitwise \/ Forget PROVE Right'
    <2>1. call'.fn \in FlagCalls \cup {"none"}
      BY <1>5, CallNames
    <2>2. call'.fn \notin MachineCalls \cup DeviceCalls \cup ClockCalls \cup SettingCalls
      BY <2>1 DEF FlagCalls, ClockCalls, SettingCalls, MachineCalls, DeviceCalls
    <2> QED
      BY <2>1, <2>2, OtherCalls
  <1> QED
    BY <1>1, <1>2, <1>3, <1>4, <1>5 DEF Next, Hostinfo

LEMMA FirstRight ==
  CallsInit => ClocksRight /\ ContainerSeen /\ CpuAgree /\ GpuRead /\ NothingStale
  BY DEF CallsInit, NoCall, ClocksRight, ContainerSeen, CpuAgree, GpuRead, NothingStale

\* The boot time is right for any clock, and the UTC offset for any time zone while no
\* midnight lies between the two times of day (hostinfo.c, get_uptime and get_time).
THEOREM ClocksCorrect == Spec => []ClocksRight
  <1>1. CallsInit => ClocksRight
    BY FirstRight
  <1>2. ClocksRight /\ [Next]_call => ClocksRight'
    <2>1. ClocksRight /\ UNCHANGED call => ClocksRight'
      BY DEF ClocksRight, Info
    <2> QED
      BY <2>1, NextRight
  <1> QED
    BY <1>1, <1>2, PTL DEF Spec

\* A container is missed only without its cgroup file, for any lines in it, and a virtual
\* machine is what the bit or the product says (hostinfo.c, get_virtualization).
THEOREM ContainerCorrect == Spec => []ContainerSeen
  <1>1. CallsInit => ContainerSeen
    BY FirstRight
  <1>2. ContainerSeen /\ [Next]_call => ContainerSeen'
    <2>1. ContainerSeen /\ UNCHANGED call => ContainerSeen'
      BY DEF ContainerSeen, Info
    <2> QED
      BY <2>1, NextRight
  <1> QED
    BY <1>1, <1>2, PTL DEF Spec

\* get_cpu and get_architecture agree on every /proc/cpuinfo of one package, with any
\* number of processors.
THEOREM CpuCorrect == Spec => []CpuAgree
  <1>1. CallsInit => CpuAgree
    BY FirstRight
  <1>2. CpuAgree /\ [Next]_call => CpuAgree'
    <2>1. CpuAgree /\ UNCHANGED call => CpuAgree'
      BY DEF CpuAgree, Info
    <2> QED
      BY <2>1, NextRight
  <1> QED
    BY <1>1, <1>2, PTL DEF Spec

\* The vendor and the device are the second and the third quoted text of any line of
\* lspci (hostinfo.c, get_gpu).
THEOREM GpuCorrect == Spec => []GpuRead
  <1>1. CallsInit => GpuRead
    BY FirstRight
  <1>2. GpuRead /\ [Next]_call => GpuRead'
    <2>1. GpuRead /\ UNCHANGED call => GpuRead'
      BY DEF GpuRead, Info
    <2> QED
      BY <2>1, NextRight
  <1> QED
    BY <1>1, <1>2, PTL DEF Spec

\* No structure of class Hostinfo has an uninitialised field but those that NothingStale
\* names, whatever the system answers.
THEOREM StaleCorrect == Spec => []NothingStale
  <1>1. CallsInit => NothingStale
    BY FirstRight
  <1>2. NothingStale /\ [Next]_call => NothingStale'
    <2>1. NothingStale /\ UNCHANGED call => NothingStale'
      BY DEF NothingStale, Info
    <2> QED
      BY <2>1, NextRight
  <1> QED
    BY <1>1, <1>2, PTL DEF Spec
-----------------------------------------------------------------------------
(* Flags: what the loop of format does, for a table of any length *)

LEMMA EntryOf ==
  ASSUME NEW table \in Seq(Entry), NEW k \in 1 .. Len(table)
  PROVE  table[k].name \in Name /\ table[k].bit \in Word /\ Width[table[k].name] \in Nat \ {0}
  <1>1. table[k] \in Entry
    BY ElementOf
  <1>2. table[k].name \in Name /\ table[k].bit \in Word
    BY <1>1 DEF Entry
  <1> QED
    BY <1>2, BitsAssumption

\* The states of the loop, and that it runs through them.
Printing == [ret : {0, -1}, text : Seq(Name), offset : Nat]
PrintRun(z, bits, table, out_size) ==
  /\ z[0] = [ret |-> 0, text |-> <<>>, offset |-> 0]
  /\ \A k \in 1 .. Len(table) : z[k] = PutName(z[k - 1], bits, table, k, out_size)

LEMMA PutNameType ==
  ASSUME NEW bits, NEW table \in Seq(Entry), NEW k \in 1 .. Len(table), NEW out_size,
         NEW s \in Printing
  PROVE  PutName(s, bits, table, k, out_size) \in Printing
  <1> DEFINE n == Width[table[k].name]
             name == table[k].name
  <1>1. n \in Nat /\ name \in Name
    BY EntryOf
  <1>2. s.text \in Seq(Name) /\ s.offset \in Nat /\ s.ret \in {0, -1}
    BY DEF Printing
  <1> HIDE DEF n, name
  <1>3. Append(s.text, name) \in Seq(Name)
          /\ s.offset + (IF s.offset > 0 THEN 1 ELSE 0) + n \in Nat
    BY <1>1, <1>2
  <1>4. /\ [ret |-> -1, text |-> s.text, offset |-> s.offset] \in Printing
        /\ [ret |-> 0, text |-> Append(s.text, name),
            offset |-> s.offset + (IF s.offset > 0 THEN 1 ELSE 0) + n] \in Printing
    BY <1>2, <1>3 DEF Printing
  <1>5. \/ PutName(s, bits, table, k, out_size) = s
        \/ PutName(s, bits, table, k, out_size)
             = [ret |-> -1, text |-> s.text, offset |-> s.offset]
        \/ PutName(s, bits, table, k, out_size)
             = [ret |-> 0, text |-> Append(s.text, name),
                offset |-> s.offset + (IF s.offset > 0 THEN 1 ELSE 0) + n]
    BY DEF PutName, n, name
  <1> QED
    BY <1>4, <1>5

LEMMA FormatRuns ==
  ASSUME NEW bits, NEW table \in Seq(Entry), NEW out_size
  PROVE  \E z \in [0 .. Len(table) -> Printing] :
           PrintRun(z, bits, table, out_size) /\ Formatted(bits, table, out_size) = z[Len(table)]
  <1> DEFINE S == Printing
             N == Len(table)
             first == [ret |-> 0, text |-> <<>>, offset |-> 0]
             round(s, k) == PutName(s, bits, table, k, out_size)
             step == [k \in 1 .. N |-> [s \in S |-> round(s, k)]]
             F(f) == f = [k \in 0 .. N |-> IF k = 0 THEN first ELSE round(f[k - 1], k)]
             z == CHOOSE f : F(f)
  <1>1. Formatted(bits, table, out_size) = z[N]
    BY DEF Formatted, z
  <1>2. N \in Nat /\ first \in S
    BY DEF Printing
  <1>3. step \in [1 .. N -> [S -> S]]
    <2>1. ASSUME NEW k \in 1 .. N, NEW s \in S PROVE round(s, k) \in S
      BY PutNameType
    <2> HIDE DEF round, S, N
    <2> QED
      BY <2>1
  <1> HIDE DEF S, first, N
  <1>4. PICK f \in [0 .. N -> S] : IsRun(f, first, N, step)
    <2> HIDE DEF step
    <2> QED
      BY <1>2, <1>3, Recursion
  <1>5. F(f)
    <2> HIDE DEF round
    <2>1. ASSUME NEW k \in 1 .. N PROVE f[k] = round(f[k - 1], k)
      <3>1. f[k] = step[k][f[k - 1]] /\ f[k - 1] \in S
        <4> HIDE DEF step
        <4> QED
          BY <1>2, <1>4 DEF IsRun
      <3> QED
        BY <3>1
    <2>2. f[0] = first
      BY <1>4 DEF IsRun
    <2> QED
      BY <1>2, <1>4, <2>1, <2>2
  <1>6. F(z)
    BY <1>5, Zenon
  <1> HIDE DEF z
  <1>7. z[0] = first /\ \A k \in 1 .. N : z[k] = round(z[k - 1], k)
    <2> HIDE DEF round
    <2> QED
      BY <1>2, <1>6
  <1>8. z \in [0 .. N -> S]
    <2>1. DOMAIN z = 0 .. N /\ z = [k \in 0 .. N |-> z[k]]
      <3> HIDE DEF round
      <3> QED
        BY <1>6
    <2> DEFINE Right == {k \in 0 .. N : z[k] \in S}
    <2>2. 0 \in Right
      BY <1>2, <1>7
    <2>3. ASSUME NEW k \in 0 .. N - 1, k \in Right PROVE k + 1 \in Right
      <3>1. k + 1 \in 1 .. N /\ k + 1 - 1 = k
        BY <1>2
      <3>2. z[k + 1] = round(z[k], k + 1)
        <4> HIDE DEF round
        <4> QED
          BY <1>7, <3>1
      <3>3. z[k] \in S /\ k + 1 \in 1 .. Len(table)
        BY <2>3, <3>1 DEF N
      <3>4. round(z[k], k + 1) \in S
        BY <3>3, PutNameType DEF S
      <3> QED
        BY <1>2, <3>1, <3>2, <3>4
    <2> HIDE DEF Right
    <2>4. 0 .. N \subseteq Right
      BY <1>2, <2>2, <2>3, Induct
    <2>5. \A k \in 0 .. N : z[k] \in S
      BY <2>4 DEF Right
    <2> QED
      BY <2>1, <2>5
  <1> QED
    BY <1>1, <1>7, <1>8 DEF PrintRun, S, N, first

\* The same for the sum of the costs.
CostRun(n, bits, table) ==
  n[0] = 0 /\ \A k \in 1 .. Len(table) : n[k] = n[k - 1] + Cost(bits, table, k)

LEMMA CostType ==
  ASSUME NEW bits, NEW table \in Seq(Entry), NEW k \in 1 .. Len(table)
  PROVE  Cost(bits, table, k) \in Nat
  BY EntryOf DEF Cost

LEMMA NeededRuns ==
  ASSUME NEW bits, NEW table \in Seq(Entry)
  PROVE  \E n \in [0 .. Len(table) -> Nat] :
           /\ CostRun(n, bits, table)
           /\ Hits(bits, table) # {} => Needed(bits, table) = n[Len(table)]
  <1> DEFINE N == Len(table)
             round(s, k) == s + Cost(bits, table, k)
             step == [k \in 1 .. N |-> [s \in Nat |-> round(s, k)]]
             F(f) == f = [k \in 0 .. N |-> IF k = 0 THEN 0 ELSE round(f[k - 1], k)]
             n == CHOOSE f : F(f)
  <1>1. Hits(bits, table) # {} => Needed(bits, table) = n[N]
    BY DEF Needed, n
  <1>2. N \in Nat /\ 0 \in Nat
    OBVIOUS
  <1>3. \A k \in 1 .. N : \A s \in Nat : round(s, k) \in Nat
    BY CostType
  <1>4. step \in [1 .. N -> [Nat -> Nat]]
    <2> HIDE DEF round, N
    <2> QED
      BY <1>3
  <1> HIDE DEF N
  <1>5. PICK f \in [0 .. N -> Nat] : IsRun(f, 0, N, step)
    <2> HIDE DEF step
    <2> QED
      BY <1>2, <1>4, Recursion
  <1>6. F(f)
    <2> HIDE DEF round
    <2>1. ASSUME NEW k \in 1 .. N PROVE f[k] = round(f[k - 1], k)
      <3>1. f[k] = step[k][f[k - 1]] /\ f[k - 1] \in Nat
        <4> HIDE DEF step
        <4> QED
          BY <1>2, <1>5 DEF IsRun
      <3> QED
        BY <3>1
    <2>2. f[0] = 0
      BY <1>5 DEF IsRun
    <2> QED
      BY <1>2, <1>5, <2>1, <2>2
  <1>7. F(n)
    BY <1>6, Zenon
  <1> HIDE DEF n
  <1>8. DOMAIN n = 0 .. N /\ n = [k \in 0 .. N |-> n[k]]
    <2> HIDE DEF round
    <2> QED
      BY <1>7
  <1>9. n[0] = 0 /\ \A k \in 1 .. N : n[k] = round(n[k - 1], k)
    <2> HIDE DEF round
    <2> QED
      BY <1>2, <1>7
  <1>10. n \in [0 .. N -> Nat]
    <2> DEFINE Right == {k \in 0 .. N : n[k] \in Nat}
    <2>1. 0 \in Right
      BY <1>2, <1>9
    <2>2. ASSUME NEW k \in 0 .. N - 1, k \in Right PROVE k + 1 \in Right
      <3>1. k + 1 \in 1 .. N /\ k + 1 - 1 = k
        BY <1>2
      <3>2. n[k + 1] = round(n[k], k + 1)
        <4> HIDE DEF round
        <4> QED
          BY <1>9, <3>1
      <3>3. round(n[k], k + 1) \in Nat
        <4> HIDE DEF round
        <4> QED
          BY <1>3, <2>2, <3>1
      <3> QED
        BY <1>2, <3>1, <3>2, <3>3
    <2> HIDE DEF Right
    <2>3. 0 .. N \subseteq Right
      BY <1>2, <2>1, <2>2, Induct
    <2> QED
      BY <1>8, <2>3 DEF Right
  <1> QED
    BY <1>1, <1>9, <1>10 DEF CostRun, N

\* What the loop has done after k entries, of which c are printed with cost n: it has
\* gone on as long as there was room for a separator, needed or not.
FitsSoFar(s, c, n, out_size) ==
  /\ s.offset > 0 => s.offset < out_size
  /\ s.ret = 0 => /\ c = 0 => s.offset = 0 /\ n = 0
                  /\ c > 0 => s.offset = n - 1 /\ n > 1 /\ n - 1 < out_size
                  /\ c = 1 => n < out_size
  /\ s.ret = -1 => c > 0 /\ (n > out_size \/ (c = 1 /\ n = out_size))

\* One more entry.
LEMMA FitsOneMore ==
  ASSUME NEW bits, NEW table \in Seq(Entry), NEW k \in 1 .. Len(table), NEW out_size \in Nat,
         NEW s \in Printing, NEW c \in Nat, NEW n \in Nat, FitsSoFar(s, c, n, out_size)
  PROVE  FitsSoFar(PutName(s, bits, table, k, out_size),
                   IF k \in Hits(bits, table) THEN c + 1 ELSE c,
                   n + Cost(bits, table, k), out_size)
  <1> DEFINE w == Width[table[k].name]
             t == PutName(s, bits, table, k, out_size)
  <1>1. w \in Nat \ {0}
    BY EntryOf
  <1>2. s.offset \in Nat /\ s.ret \in {0, -1}
    BY DEF Printing
  <1>3. CASE k \notin Hits(bits, table)
    <2>1. t = s /\ Cost(bits, table, k) = 0
      BY <1>3 DEF PutName, Cost
    <2> HIDE DEF t
    <2>2. n + Cost(bits, table, k) = n
      BY <2>1
    <2> QED
      BY <1>3, <2>1, <2>2 DEF t
  <1>4. CASE k \in Hits(bits, table)
    <2>1. Cost(bits, table, k) = w + 1
      BY <1>4 DEF Cost
    <2>2. FitsSoFar(t, c + 1, n + (w + 1), out_size)
      <3>1. CASE s.ret = -1
        <4>1. t = s
          BY <3>1 DEF PutName
        <4>2. t.ret = -1 /\ t.ret # 0 /\ t.offset = s.offset
          BY <3>1, <4>1
        <4>3. (s.offset > 0 => s.offset < out_size) /\ c > 0 /\ n >= out_size
          BY <3>1 DEF FitsSoFar
        <4> HIDE DEF t, w
        <4>4. c + 1 > 0 /\ n + (w + 1) > out_size
          BY <1>1, <4>3
        <4> QED
          BY <4>2, <4>3, <4>4 DEF FitsSoFar
      <3>2. CASE s.ret = 0 /\ ~(s.offset + w + 1 < out_size)
        <4>1. t = [ret |-> -1, text |-> s.text, offset |-> s.offset]
          BY <1>4, <3>2 DEF PutName, Room
        <4>2. t.ret = -1 /\ t.ret # 0 /\ t.offset = s.offset
          BY <4>1
        <4>3. /\ s.offset > 0 => s.offset < out_size
              /\ c = 0 => s.offset = 0 /\ n = 0
              /\ c > 0 => s.offset = n - 1
          BY <3>2 DEF FitsSoFar
        <4> HIDE DEF t, w
        <4>4. c + 1 > 0 /\ (n + (w + 1) > out_size \/ (c + 1 = 1 /\ n + (w + 1) = out_size))
          <5>1. CASE c = 0
            BY <1>1, <3>2, <4>3, <5>1
          <5>2. CASE c > 0
            BY <1>1, <3>2, <4>3, <5>2
          <5> QED
            BY <5>1, <5>2
        <4> QED
          BY <4>2, <4>3, <4>4 DEF FitsSoFar
      <3>3. CASE s.ret = 0 /\ s.offset + w + 1 < out_size
        <4>1. t = [ret |-> 0, text |-> Append(s.text, table[k].name),
                   offset |-> s.offset + (IF s.offset > 0 THEN 1 ELSE 0) + w]
          BY <1>4, <3>3 DEF PutName, Room
        <4>2. t.ret = 0 /\ t.offset = s.offset + (IF s.offset > 0 THEN 1 ELSE 0) + w
          BY <4>1
        <4> HIDE DEF t, w
        <4>3. CASE c = 0
          BY <1>1, <1>2, <3>3, <4>2, <4>3 DEF FitsSoFar
        <4>4. CASE c > 0
          BY <1>1, <1>2, <3>3, <4>2, <4>4 DEF FitsSoFar
        <4> QED
          BY <4>3, <4>4
      <3> QED
        BY <1>2, <3>1, <3>2, <3>3
    <2> QED
      BY <1>4, <2>1, <2>2
  <1> QED
    BY <1>3, <1>4

\* The entries printed among the first k.
Among(bits, table, k) == Hits(bits, table) \cap (1 .. k)

LEMMA AmongOneMore ==
  ASSUME NEW bits, NEW table \in Seq(Entry), NEW k \in 0 .. Len(table) - 1
  PROVE  /\ Cardinality(Among(bits, table, k)) \in Nat
         /\ Cardinality(Among(bits, table, k + 1)) =
              IF k + 1 \in Hits(bits, table) THEN Cardinality(Among(bits, table, k)) + 1
              ELSE Cardinality(Among(bits, table, k))
  <1> DEFINE H == Among(bits, table, k)
  <1>1. k \in Nat /\ H \in SUBSET (1 .. k)
    BY DEF Among
  <1>2. IsFiniteSet(H) /\ Cardinality(H) \in Nat /\ k + 1 \notin H
    <2> HIDE DEF H
    <2>1. k + 1 \notin 1 .. k
      BY <1>1
    <2> QED
      BY <1>1, <2>1, PositionsFinite
  <1>3. Among(bits, table, k + 1) = IF k + 1 \in Hits(bits, table) THEN H \cup {k + 1} ELSE H
    BY <1>1 DEF Among
  <1>4. Cardinality(H \cup {k + 1}) = Cardinality(H) + 1
    <2> HIDE DEF H
    <2> QED
      BY <1>2, FS_AddElement
  <1> QED
    BY <1>2, <1>3, <1>4

LEMMA AmongEnds ==
  ASSUME NEW bits, NEW table \in Seq(Entry)
  PROVE  /\ Among(bits, table, 0) = {} /\ Cardinality(Among(bits, table, 0)) = 0
         /\ Among(bits, table, Len(table)) = Hits(bits, table)
         /\ Hits(bits, table) \subseteq 1 .. Len(table)
         /\ Cardinality(Hits(bits, table)) \in Nat
         /\ Cardinality(Hits(bits, table)) = 0 <=> Hits(bits, table) = {}
  <1>1. Hits(bits, table) \subseteq 1 .. Len(table) /\ Len(table) \in Nat
    BY DEF Hits
  <1>2. Among(bits, table, 0) = {}
    BY DEF Among
  <1>3. Among(bits, table, Len(table)) = Hits(bits, table)
    BY <1>1 DEF Among
  <1>4. IsFiniteSet(Hits(bits, table)) /\ Cardinality(Hits(bits, table)) \in Nat
    BY <1>1, PositionsFinite
  <1> QED
    BY <1>1, <1>2, <1>3, <1>4, FS_EmptySet

\* After the last entry.
LEMMA FitsAtEnd ==
  ASSUME NEW bits, NEW table \in Seq(Entry), NEW out_size \in Nat
  PROVE  \E n \in Nat : /\ Hits(bits, table) # {} => Needed(bits, table) = n
                        /\ Formatted(bits, table, out_size) \in Printing
                        /\ FitsSoFar(Formatted(bits, table, out_size),
                                     Cardinality(Hits(bits, table)), n, out_size)
  <1> DEFINE N == Len(table)
             c(k) == Cardinality(Among(bits, table, k))
  <1>1. PICK z \in [0 .. N -> Printing] :
          PrintRun(z, bits, table, out_size) /\ Formatted(bits, table, out_size) = z[N]
    BY FormatRuns
  <1>2. PICK n \in [0 .. N -> Nat] :
          CostRun(n, bits, table) /\ (Hits(bits, table) # {} => Needed(bits, table) = n[N])
    BY NeededRuns
  <1> DEFINE Right == {k \in 0 .. N : FitsSoFar(z[k], c(k), n[k], out_size)}
  <1>3. N \in Nat
    OBVIOUS
  <1>4. 0 \in Right
    <2>1. z[0].ret = 0 /\ z[0].ret # -1 /\ z[0].offset = 0 /\ n[0] = 0
      BY <1>1, <1>2 DEF PrintRun, CostRun
    <2>2. c(0) = 0
      BY AmongEnds
    <2>3. FitsSoFar(z[0], 0, 0, out_size)
      BY <2>1 DEF FitsSoFar
    <2> QED
      BY <1>3, <2>1, <2>2, <2>3
  <1>5. ASSUME NEW k \in 0 .. N - 1, k \in Right PROVE k + 1 \in Right
    <2>1. k + 1 \in 1 .. Len(table) /\ k + 1 \in 0 .. N /\ k + 1 - 1 = k /\ k \in 0 .. N
      BY <1>3
    <2>2. z[k] \in Printing /\ n[k] \in Nat
      BY <1>1, <1>2, <2>1
    <2>3. c(k) \in Nat /\ c(k + 1) = IF k + 1 \in Hits(bits, table) THEN c(k) + 1 ELSE c(k)
      BY AmongOneMore
    <2>4. z[k + 1] = PutName(z[k], bits, table, k + 1, out_size)
      BY <1>1, <2>1 DEF PrintRun
    <2>5. n[k + 1] = n[k] + Cost(bits, table, k + 1)
      BY <1>2, <2>1 DEF CostRun
    <2>6. FitsSoFar(z[k], c(k), n[k], out_size)
      BY <1>5
    <2>7. FitsSoFar(PutName(z[k], bits, table, k + 1, out_size),
                    IF k + 1 \in Hits(bits, table) THEN c(k) + 1 ELSE c(k),
                    n[k] + Cost(bits, table, k + 1), out_size)
      <3> HIDE DEF c, N, Right
      <3> QED
        BY <2>1, <2>2, <2>3, <2>6, FitsOneMore
    <2>8. FitsSoFar(z[k + 1], c(k + 1), n[k + 1], out_size)
      <3> HIDE DEF c, N, Right
      <3> QED
        BY <2>3, <2>4, <2>5, <2>7
    <2> QED
      BY <2>1, <2>8
  <1>6. N \in Right
    <2> HIDE DEF Right, N, c
    <2>1. 0 .. N \subseteq Right
      BY <1>3, <1>4, <1>5, Induct
    <2> QED
      BY <1>3, <2>1
  <1>7. FitsSoFar(z[N], Cardinality(Hits(bits, table)), n[N], out_size)
    BY <1>6, AmongEnds
  <1>8. z[N] \in Printing /\ n[N] \in Nat
    BY <1>1, <1>2, <1>3
  <1> QED
    BY <1>1, <1>2, <1>7, <1>8

\* What format returns, and that it stays within the buffer.
LEMMA FormatFitsAll ==
  ASSUME NEW bits, NEW table \in Seq(Entry), NEW out_size \in Nat
  PROVE  /\ fossil_sys_bitwise_format(bits, table, out_size).written <= out_size
         /\ fossil_sys_bitwise_format(bits, table, out_size).ret = -1 <=>
              \/ Needed(bits, table) > out_size
              \/ Cardinality(Hits(bits, table)) = 1 /\ Needed(bits, table) = out_size
  <1> DEFINE s == Formatted(bits, table, out_size)
             H == Hits(bits, table)
             c == Cardinality(H)
             need == Needed(bits, table)
             r == fossil_sys_bitwise_format(bits, table, out_size)
  <1>1. PICK n \in Nat : (H # {} => need = n) /\ s \in Printing /\ FitsSoFar(s, c, n, out_size)
    BY FitsAtEnd
  <1>2. s.offset \in Nat /\ s.ret \in {0, -1}
    BY <1>1 DEF Printing
  <1>3. c \in Nat /\ (c = 0 <=> H = {})
    BY AmongEnds
  <1>4. H = {} => need = 1
    BY DEF Needed
  <1>5. /\ r.ret = IF s.ret = 0 /\ s.offset < out_size THEN 0 ELSE -1
        /\ r.written = IF s.offset > 0 THEN s.offset + 1
                       ELSE IF s.ret = 0 /\ out_size > 0 THEN 1 ELSE 0
    BY DEF fossil_sys_bitwise_format
  <1> HIDE DEF s, H, c, need, r
  <1>6. /\ s.offset > 0 => s.offset < out_size
        /\ s.ret = 0 /\ c = 0 => s.offset = 0 /\ n = 0
        /\ s.ret = 0 /\ c > 0 => s.offset = n - 1 /\ n > 1 /\ n - 1 < out_size
        /\ s.ret = 0 /\ c = 1 => n < out_size
        /\ s.ret = -1 => c > 0 /\ (n > out_size \/ (c = 1 /\ n = out_size))
    BY <1>1 DEF FitsSoFar
  <1>7. r.written <= out_size
    BY <1>2, <1>5, <1>6
  <1>8. r.ret = -1 <=> (need > out_size \/ (c = 1 /\ need = out_size))
    <2>1. CASE H = {}
      BY <1>2, <1>3, <1>4, <1>5, <1>6, <2>1
    <2>2. CASE H # {}
      <3>1. c > 0 /\ need = n
        BY <1>1, <1>3, <2>2
      <3>2. CASE s.ret = -1
        BY <1>2, <1>5, <1>6, <3>1, <3>2
      <3>3. CASE s.ret = 0
        BY <1>2, <1>5, <1>6, <3>1, <3>3
      <3> QED
        BY <1>2, <3>2, <3>3
    <2> QED
      BY <2>1, <2>2
  <1> QED
    BY <1>7, <1>8 DEF s, H, c, need, r

-----------------------------------------------------------------------------
(* Flags: what format prints parse reads again *)

LEMMA RangeOfAppend ==
  ASSUME NEW S, NEW text \in Seq(S), NEW name \in S
  PROVE  Range(Append(text, name)) = Range(text) \cup {name}
  <1> DEFINE new == Append(text, name)
             N == Len(text)
  <1>1. /\ N \in Nat /\ DOMAIN text = 1 .. N /\ DOMAIN new = 1 .. N + 1
        /\ new[N + 1] = name /\ \A i \in 1 .. N : new[i] = text[i]
    OBVIOUS
  <1>2. \A i \in 1 .. N + 1 : i = N + 1 \/ i \in 1 .. N
    BY <1>1
  <1>3. \A i \in 1 .. N : i \in 1 .. N + 1
    BY <1>1
  <1>4. N + 1 \in 1 .. N + 1
    BY <1>1
  <1> HIDE DEF new, N
  <1> QED
    BY <1>1, <1>2, <1>3, <1>4 DEF Range

\* While the loop goes on the text is the names of the entries it has met.
NamesSoFar(s, bits, table, k) ==
  s.ret = 0 => Range(s.text) = {table[j].name : j \in Among(bits, table, k)}

LEMMA NamesOneMore ==
  ASSUME NEW bits, NEW table \in Seq(Entry), NEW k \in 0 .. Len(table) - 1, NEW out_size,
         NEW s \in Printing, NamesSoFar(s, bits, table, k)
  PROVE  NamesSoFar(PutName(s, bits, table, k + 1, out_size), bits, table, k + 1)
  <1> DEFINE t == PutName(s, bits, table, k + 1, out_size)
             name == table[k + 1].name
  <1>1. k \in Nat /\ k + 1 \in 1 .. Len(table)
    OBVIOUS
  <1>2. SUFFICES ASSUME t.ret = 0
                 PROVE  Range(t.text) = {table[j].name : j \in Among(bits, table, k + 1)}
    BY DEF NamesSoFar
  <1>3. s.text \in Seq(Name) /\ s.ret \in {0, -1} /\ name \in Name
    BY <1>1, EntryOf DEF Printing
  <1>4. CASE k + 1 \notin Hits(bits, table)
    <2>1. t = s
      BY <1>4 DEF PutName
    <2>2. Among(bits, table, k + 1) = Among(bits, table, k)
      BY <1>1, <1>4 DEF Among
    <2> HIDE DEF t
    <2> QED
      BY <1>2, <2>1, <2>2 DEF NamesSoFar
  <1>5. CASE k + 1 \in Hits(bits, table)
    <2>1. s.ret = 0 /\ t.text = Append(s.text, name)
      <3>1. s.ret # -1
        <4>1. s.ret = -1 => t = s
          BY DEF PutName
        <4> HIDE DEF t
        <4> QED
          BY <1>2, <4>1
      <3>2. \/ t = [ret |-> -1, text |-> s.text, offset |-> s.offset]
            \/ t = [ret |-> 0, text |-> Append(s.text, name),
                    offset |-> s.offset + (IF s.offset > 0 THEN 1 ELSE 0)
                                 + Width[table[k + 1].name]]
        BY <1>5, <3>1 DEF PutName
      <3> HIDE DEF t, name
      <3> QED
        BY <1>2, <1>3, <3>1, <3>2
    <2>2. \A j : j \in Among(bits, table, k + 1) <=> j \in Among(bits, table, k) \/ j = k + 1
      BY <1>1, <1>5 DEF Among
    <2>3. Range(s.text) = {table[j].name : j \in Among(bits, table, k)}
      BY <2>1 DEF NamesSoFar
    <2>4. Range(t.text) = Range(s.text) \cup {name}
      <3> HIDE DEF t, name
      <3> QED
        BY <1>3, <2>1, RangeOfAppend
    <2>5. {table[j].name : j \in Among(bits, table, k + 1)}
            = {table[j].name : j \in Among(bits, table, k)} \cup {name}
      BY <2>2, Zenon
    <2> HIDE DEF t
    <2> QED
      BY <2>3, <2>4, <2>5
  <1> QED
    BY <1>4, <1>5

LEMMA NamesPrinted ==
  ASSUME NEW bits, NEW table \in Seq(Entry), NEW out_size,
         Formatted(bits, table, out_size).ret = 0
  PROVE  Range(Formatted(bits, table, out_size).text)
           = {table[j].name : j \in Hits(bits, table)}
  <1> DEFINE N == Len(table)
  <1>1. PICK z \in [0 .. N -> Printing] :
          PrintRun(z, bits, table, out_size) /\ Formatted(bits, table, out_size) = z[N]
    BY FormatRuns
  <1> DEFINE Right == {k \in 0 .. N : NamesSoFar(z[k], bits, table, k)}
  <1>2. N \in Nat
    OBVIOUS
  <1>3. 0 \in Right
    <2>1. z[0].text = <<>> /\ Among(bits, table, 0) = {}
      BY <1>1, AmongEnds DEF PrintRun
    <2>2. Range(<<>>) = {}
      BY DEF Range
    <2>3. {table[j].name : j \in {}} = {}
      OBVIOUS
    <2>4. NamesSoFar(z[0], bits, table, 0)
      BY <2>1, <2>2, <2>3 DEF NamesSoFar
    <2> QED
      BY <1>2, <2>4
  <1>4. ASSUME NEW k \in 0 .. N - 1, k \in Right PROVE k + 1 \in Right
    <2>1. k + 1 \in 1 .. Len(table) /\ k + 1 \in 0 .. N /\ k + 1 - 1 = k /\ k \in 0 .. N
      BY <1>2
    <2>2. z[k] \in Printing /\ NamesSoFar(z[k], bits, table, k)
      BY <1>1, <1>4, <2>1
    <2>3. z[k + 1] = PutName(z[k], bits, table, k + 1, out_size)
      BY <1>1, <2>1 DEF PrintRun
    <2>4. NamesSoFar(z[k + 1], bits, table, k + 1)
      BY <2>2, <2>3, NamesOneMore
    <2> QED
      BY <2>1, <2>4
  <1>5. N \in Right
    <2> HIDE DEF Right, N
    <2>1. 0 .. N \subseteq Right
      BY <1>2, <1>3, <1>4, Induct
    <2> QED
      BY <1>2, <2>1
  <1>6. NamesSoFar(z[N], bits, table, N) /\ Among(bits, table, N) = Hits(bits, table)
    BY <1>5, AmongEnds
  <1> QED
    BY <1>1, <1>6 DEF NamesSoFar

\* Where names differ each finds its own entry.
LEMMA NamedItself ==
  ASSUME NEW table \in Seq(Entry), NamesDiffer(table), NEW j \in DOMAIN table
  PROVE  Named(table, table[j].name) = table[j] /\ table[j] # NULL
  <1> DEFINE S == {i \in DOMAIN table : table[i].name = table[j].name}
  <1>1. S = {j}
    BY DEF NamesDiffer
  <1>2. Min(S) \in S
    <2>1. S \subseteq 1 .. Len(table) /\ S # {} /\ Len(table) \in Nat
      OBVIOUS
    <2> HIDE DEF S
    <2> QED
      BY <2>1, FirstPosition
  <1>3. Named(table, table[j].name) = IF S = {} THEN NULL ELSE table[Min(S)]
    BY DEF Named, First
  <1>4. table[j] \in Entry
    BY ElementOf
  <1> HIDE DEF S
  <1> QED
    BY <1>1, <1>2, <1>3, <1>4, EntryAssumption

\* A text of the names of some entries is read as the bits of these.
LEMMA ParsedNames ==
  ASSUME NEW table \in Seq(Entry), NamesDiffer(table), NEW text,
         NEW H, H \subseteq DOMAIN table, Range(text) = {table[j].name : j \in H}
  PROVE  Parsed(text, table) = UNION {table[j].bit : j \in H}
  <1> DEFINE Found == {Named(table, text[i]) : i \in DOMAIN text} \ {NULL}
  <1>1. ASSUME NEW j \in H PROVE table[j] \in Found
    <2>1. PICK i \in DOMAIN text : text[i] = table[j].name
      BY DEF Range
    <2>2. Named(table, table[j].name) = table[j] /\ table[j] # NULL
      BY NamedItself
    <2> QED
      BY <2>1, <2>2
  <1>2. ASSUME NEW f \in Found PROVE \E j \in H : f = table[j]
    <2>1. PICK i \in DOMAIN text : f = Named(table, text[i])
      OBVIOUS
    <2>2. PICK j \in H : text[i] = table[j].name
      BY DEF Range
    <2>3. Named(table, table[j].name) = table[j]
      BY NamedItself
    <2> QED
      BY <2>1, <2>2, <2>3
  <1>3. Parsed(text, table) = UNION {f.bit : f \in Found}
    BY DEF Parsed
  <1> HIDE DEF Found
  <1>4. ASSUME NEW b
        PROVE  (\E f \in Found : b \in f.bit) <=> (\E j \in H : b \in table[j].bit)
    BY <1>1, <1>2
  <1> QED
    BY <1>3, <1>4

\* format and parse, for any word and table.
LEMMA FormatParsesAll ==
  ASSUME NEW bits, NEW table \in Seq(Entry), NEW out_size, NamesDiffer(table),
         fossil_sys_bitwise_format(bits, table, out_size).ret = 0
  PROVE  LET back == Parsed(fossil_sys_bitwise_format(bits, table, out_size).text, table)
         IN  /\ back = UNION {x.bit : x \in {y \in Range(table) : y.bit \cap bits # {}}}
             /\ fossil_sys_bitwise_validate(bits, table) = 0 => bits \subseteq back
             /\ (\A i \in DOMAIN table : table[i].bit \cap bits # {} => table[i].bit \subseteq bits)
                  => back = bits \cap fossil_sys_bitwise_all(table)
  <1> DEFINE s == Formatted(bits, table, out_size)
             H == Hits(bits, table)
             back == Parsed(fossil_sys_bitwise_format(bits, table, out_size).text, table)
             all == fossil_sys_bitwise_all(table)
  <1>1. s.ret = 0 /\ fossil_sys_bitwise_format(bits, table, out_size).text = s.text
    BY DEF fossil_sys_bitwise_format
  <1>2. H \subseteq DOMAIN table
    BY DEF Hits
  <1>3. Range(s.text) = {table[j].name : j \in H}
    BY <1>1, NamesPrinted
  <1>4. back = UNION {table[j].bit : j \in H}
    <2> HIDE DEF s, H
    <2> QED
      BY <1>1, <1>2, <1>3, ParsedNames
  <1>5. {table[j].bit : j \in H} = {x.bit : x \in {y \in Range(table) : y.bit \cap bits # {}}}
    BY Zenon DEF Hits, Range
  <1>6. fossil_sys_bitwise_validate(bits, table) = 0 => bits \subseteq all
    BY DEF fossil_sys_bitwise_validate
  <1>7. \A b : b \in all <=> \E i \in DOMAIN table : b \in table[i].bit
    BY DEF fossil_sys_bitwise_all
  <1>8. \A b : b \in back <=> \E i \in DOMAIN table : bits \cap table[i].bit # {} /\ b \in table[i].bit
    BY <1>4 DEF Hits
  <1> HIDE DEF s, H, back, all
  <1>9. fossil_sys_bitwise_validate(bits, table) = 0 => bits \subseteq back
    BY <1>6, <1>7, <1>8
  <1>10. ASSUME \A i \in DOMAIN table : table[i].bit \cap bits # {} => table[i].bit \subseteq bits
         PROVE  back = bits \cap all
    BY <1>7, <1>8, <1>10
  <1> QED
    BY <1>4, <1>5, <1>9, <1>10 DEF back, all

\* Only format is what the two properties speak of.
LEMMA FlagsStep == Next => FormatFits' /\ FormatParses'
  <1> DEFINE Right == FormatFits /\ FormatParses
  <1>1. call'.fn # "format" => Right'
    BY DEF FormatFits, FormatParses
  <1>2. ASSUME NEW table \in Table, NEW bits \in Word, NEW out_size \in 0 .. MAX_OUT,
               Called("format", [bits |-> bits, table |-> table, out_size |-> out_size],
                      fossil_sys_bitwise_format(bits, table, out_size))
        PROVE  Right'
    <2> DEFINE r == fossil_sys_bitwise_format(bits, table, out_size)
    <2>1. table \in Seq(Entry) /\ out_size \in Nat
      BY ShortSeq, BitsAssumption DEF Table
    <2>2. /\ call'.fn = "format" /\ call'.result = r /\ call'.args.bits = bits
          /\ call'.args.table = table /\ call'.args.out_size = out_size
      <3> HIDE DEF r
      <3> QED
        BY <1>2 DEF Called, r
    <2>3. FormatFits'
      <3>1. /\ r.written <= out_size
            /\ r.ret = -1 <=> \/ Needed(bits, table) > out_size
                              \/ Cardinality(Hits(bits, table)) = 1
                                   /\ Needed(bits, table) = out_size
        BY <2>1, FormatFitsAll
      <3> HIDE DEF r
      <3> QED
        BY <2>2, <3>1 DEF FormatFits
    <2>4. FormatParses'
      <3>1. SUFFICES ASSUME r.ret = 0, NamesDiffer(table) PROVE FormatParses'
        <4> HIDE DEF r
        <4> QED
          BY <2>2 DEF FormatParses
      <3>2. LET back == Parsed(r.text, table)
            IN  /\ back = UNION {x.bit : x \in {y \in Range(table) : y.bit \cap bits # {}}}
                /\ fossil_sys_bitwise_validate(bits, table) = 0 => bits \subseteq back
                /\ (\A i \in DOMAIN table :
                      table[i].bit \cap bits # {} => table[i].bit \subseteq bits)
                     => back = bits \cap fossil_sys_bitwise_all(table)
        BY <2>1, <3>1, FormatParsesAll
      <3> HIDE DEF r
      <3> QED
        BY <2>2, <3>2 DEF FormatParses
    <2> QED
      BY <2>3, <2>4
  <1>3. Bitwise /\ call'.fn = "format" => Right'
    <2>1. \A fn, args, result : Called(fn, args, result) => call'.fn = fn
      BY DEF Called
    <2> HIDE DEF Right
    <2> QED
      BY <1>2, <2>1 DEF Bitwise
  <1>4. Hostinfo \/ Forget => call'.fn # "format"
    <2>1. Hostinfo => CallMachine \/ CallClocks \/ CallDevices \/ CallSetting
      BY DEF Hostinfo
    <2> QED
      BY <2>1, CallNames DEF MachineCalls, ClockCalls, DeviceCalls, SettingCalls
  <1> QED
    BY <1>1, <1>3, <1>4 DEF Next

LEMMA FlagsFirst == CallsInit => FormatFits /\ FormatParses
  BY DEF CallsInit, NoCall, FormatFits, FormatParses

\* bitwise.c, format: within the buffer, and refused for the two reasons only; for tables,
\* names and buffers of any size.
THEOREM FitsCorrect == Spec => []FormatFits
  <1>1. CallsInit => FormatFits
    BY FlagsFirst
  <1>2. FormatFits /\ [Next]_call => FormatFits'
    <2>1. FormatFits /\ UNCHANGED call => FormatFits'
      BY DEF FormatFits
    <2> QED
      BY <2>1, FlagsStep
  <1> QED
    BY <1>1, <1>2, PTL DEF Spec

\* bitwise.c, format and parse: what one prints the other reads, for tables of any size
\* and flags of any bits.
THEOREM ParsesCorrect == Spec => []FormatParses
  <1>1. CallsInit => FormatParses
    BY FlagsFirst
  <1>2. FormatParses /\ [Next]_call => FormatParses'
    <2>1. FormatParses /\ UNCHANGED call => FormatParses'
      BY DEF FormatParses
    <2> QED
      BY <2>1, FlagsStep
  <1> QED
    BY <1>1, <1>2, PTL DEF Spec
=============================================================================
