------------------------------ MODULE Hostinfo ------------------------------
(***************************************************************************)
(* What a program learns of its host: the Linux half of                    *)
(* code/logic/hostinfo.c and the class Hostinfo of hostinfo.h.  Each       *)
(* function asks the system (files of /proc and /sys, system calls,        *)
(* environment variables), whose answers are the arguments here, NULL for  *)
(* none, and fills in a structure.  The class passes a local structure     *)
(* that is not initialised and ignores the return code.                    *)
(***************************************************************************)
EXTENDS Integers, Sequences, SequencesExt, Calls

CONSTANTS Bad,         \* the content of a file that holds no number
          Garbage, Unknown, Empty,     \* not initialised, "Unknown", ""
          Answer,      \* texts the system answers with
          Count,       \* numbers in /proc/cpuinfo and in /sys
          MAX_LINES,   \* bound: the lines of a file, the interfaces of the host
          MAX_CHARS,   \* bound: the characters of lspci's line
          NAME_SIZE,   \* the size of the array for a name, 128
          TICKS,       \* the steps of the clock in a second
          WORD,        \* the number of values of a uint64_t, 2^64
          Instant,     \* times of the clock, in steps
          MAX_DELAY,   \* bound: steps between two readings of the clock
          Quarter,     \* times of the day, in quarters of an hour
          Zone         \* offsets of time zones, in quarters of an hour

ASSUME HostinfoAssumption ==
  /\ MAX_LINES \in Nat /\ MAX_CHARS \in Nat /\ NAME_SIZE \in Nat \ {0}
  /\ TICKS \in Nat \ {0} /\ WORD \in Nat \ {0} /\ MAX_DELAY \in Nat
  /\ Count \subseteq Nat /\ Instant \subseteq Int
  /\ Quarter \subseteq 0 .. 95 /\ Zone \subseteq -48 .. 56

\* What marks a field or an answer is none of the texts and numbers that may stand there.
Literal == {"/", "Unix", "process", "docker", "podman", "lxc", "kubernetes"}
ASSUME MarkAssumption ==
  /\ Garbage \notin Int \cup Answer \cup Literal \cup {NULL, Unknown, Empty}
  /\ Empty \notin Answer \cup Literal
  /\ NULL \notin Int \cup Answer \cup Literal \cup {Empty}
  /\ Unknown \notin Seq({"quote", "text"})

OrNull(S) == S \cup {NULL}
OrUnknown(answer) == IF answer = NULL THEN Unknown ELSE answer
OrEmpty(answer) == IF answer = NULL THEN Empty ELSE answer
Flag(b) == IF b THEN 1 ELSE 0
Done(info) == [ret |-> 0, info |-> info]
Fails(ret, info) == [ret |-> ret, info |-> info]
All(fields, value) == [f \in fields |-> value]

\* The loop for a string of at most size - 1 characters.
fossil_sys_strcpy(size, src) ==
  LET n[i \in 0 .. Len(src)] ==
        IF i + 1 < size /\ i < Len(src) THEN n[i + 1] ELSE SubSeq(src, 1, i)
  IN  n[0]

\* What stands at the first and at the last of some positions of a sequence, if any.
FirstOr(s, at, default) == IF at = {} THEN default ELSE s[Min(at)]
LastOr(s, at, default) == IF at = {} THEN default ELSE s[Max(at)]
-----------------------------------------------------------------------------
(* Storage, environment, system *)

\* statvfs of "/", and the type of the first line of /proc/mounts for "/".
fossil_sys_hostinfo_get_storage(vfs, mounts) ==
  LET root == {i \in DOMAIN mounts : mounts[i].mnt = "/"}
  IN  IF vfs = NULL
      THEN Fails(-1, [device |-> Unknown, total |-> 0, free |-> 0, used |-> 0, type |-> Unknown])
      ELSE Done([device |-> "/", total |-> vfs.blocks, free |-> vfs.bfree,
                 used |-> vfs.blocks - vfs.bfree,
                 type |-> FirstOr([i \in root |-> mounts[i].type], root, Unknown)])

fossil_sys_hostinfo_get_environment(env) ==
  Done([v \in {"SHELL", "HOME", "LANG", "PATH", "TERM", "USER"} |-> OrUnknown(env[v])])

SystemFields == {"os_name", "os_version", "kernel_version", "hostname", "username",
                 "domain_name", "machine_type", "platform"}
fossil_sys_hostinfo_get_system(info, uname, hostname, env) ==
  IF uname = NULL THEN Fails(-1, info)
  ELSE Done([f \in SystemFields |->
               IF f = "hostname" THEN OrUnknown(hostname)
               ELSE IF f = "username" THEN OrUnknown(env["USER"])
               ELSE IF f = "domain_name" THEN OrUnknown(env["DOMAINNAME"])
               ELSE IF f = "platform" THEN "Unix" ELSE uname])

MemoryFields == {"total", "free", "used", "available"}
fossil_sys_hostinfo_get_memory(info, sysinfo) ==
  IF sysinfo = NULL THEN Fails(-1, info)
  ELSE Done([f \in MemoryFields |-> IF f = "total" THEN sysinfo.total
                                    ELSE IF f = "used" THEN sysinfo.total - sysinfo.free
                                    ELSE sysinfo.free])

\* The first byte of the 16-bit number 1, which is stored as bytes.
fossil_sys_hostinfo_get_endianness(bytes) == Done([is_little_endian |-> Flag(bytes[1] # 0)])
-----------------------------------------------------------------------------
(* The processor: /proc/cpuinfo, a sequence of lines or NULL *)

Key == {"model name", "cpu MHz", "processor", "cpu cores", "siblings", "other"}
CpuLine == [key : Key, value : OrNull(Count)]      \* NULL: a line without a colon
Cpuinfo == BoundedSeq(CpuLine, MAX_LINES)
\* The positions of the lines with a key, those with a value, and two of the values.
LinesOf(lines, key) == {i \in DOMAIN lines : lines[i].key = key}
ValuesOf(lines, key) == {i \in LinesOf(lines, key) : lines[i].value # NULL}
ValueAt(lines) == [i \in DOMAIN lines |-> lines[i].value]
FirstValue(lines, key, default) == FirstOr(ValueAt(lines), ValuesOf(lines, key), default)
LastValue(lines, key, default) == LastOr(ValueAt(lines), ValuesOf(lines, key), default)

\* Slips for the mutation runs: threads set to the cores although they were counted, ...
CpuDefaultsOverwrite(cores, threads) ==
  LET c == IF cores # 0 THEN cores ELSE IF threads # 0 THEN threads ELSE 1
  IN  [cores |-> c, threads |-> c]

CpuDefaults(cores, threads) ==
  LET c == IF cores # 0 THEN cores ELSE IF threads # 0 THEN threads ELSE 1
  IN  [cores |-> c, threads |-> IF threads = 0 THEN c ELSE threads]

\* get_cpu keeps the first model and frequency and the last number of cores (of a
\* package), and counts the processors.  vendor_id and flags are read like the model.
fossil_sys_hostinfo_get_cpu(file) ==
  LET n == CpuDefaults(LastValue(file, "cpu cores", 0), Cardinality(LinesOf(file, "processor")))
  IN  IF file = NULL THEN Fails(-1, [model |-> Empty, mhz |-> 0, cores |-> 0, threads |-> 0])
      ELSE Done([model |-> FirstValue(file, "model name", Unknown),
                 mhz |-> FirstValue(file, "cpu MHz", 0),
                 cores |-> n.cores, threads |-> n.threads])

\* ... a number that counts as found when there is text in the field, ...
ArchNumberByText(old, lines, key, default) ==
  LastValue(lines, key, IF old = Empty THEN default ELSE old)

\* get_architecture keeps the last of each.  The structure is not zeroed: numbers have
\* a flag that says they were found, ...
ArchNumber(old, lines, key, default) == LastValue(lines, key, default)

\* ... but a name or a frequency is Unknown only where there is no text in the field.
ArchText(old, lines, key) == LastValue(lines, key, IF old = Empty THEN Unknown ELSE old)

ArchFields == {"architecture", "cpu", "cpu_cores", "cpu_threads", "cpu_frequency",
               "cpu_architecture"}
\* again: the processors counted when the file is read a second time, for the threads; 0
\* also where it cannot be opened any more.
fossil_sys_hostinfo_get_architecture(info, uname, file, again) ==
  LET lines == IF file = NULL THEN <<>> ELSE file
  IN  IF uname = NULL THEN Fails(-1, info)
      ELSE Done([f \in ArchFields |->
             IF f = "cpu" THEN ArchText(info[f], lines, "model name")
             ELSE IF f = "cpu_frequency" THEN ArchText(info[f], lines, "cpu MHz")
             ELSE IF f = "cpu_cores" THEN ArchNumber(info[f], lines, "cpu cores", Unknown)
             ELSE IF f = "cpu_threads"
                  THEN ArchNumber(info[f], lines, "siblings",
                                  IF again = 0 THEN Unknown ELSE again)
             ELSE uname])
-----------------------------------------------------------------------------
(* Graphics and display *)

\* The position of the first quote from i on, NULL when there is none.
strchr(line, i) ==
  LET q == {k \in i .. Len(line) : line[k] = "quote"}
  IN  IF q = {} THEN NULL ELSE CHOOSE k \in q : \A j \in q : k <= j

\* ... a text that leaves no room for the terminator, ...
CutFull(line, from, to) ==
  IF to = NULL \/ to - from - 1 > NAME_SIZE \/ to = from + 1 THEN Unknown
  ELSE SubSeq(line, from + 1, to - 1)

\* The text between two quotes, if the field has room for it.
Cut(line, from, to) ==
  IF to = NULL \/ to - from - 1 >= NAME_SIZE \/ to = from + 1 THEN Unknown
  ELSE SubSeq(line, from + 1, to - 1)

\* The line of lspci -mm: slot "class" "vendor" "device" ...; the pointer behind the
\* vendor's closing quote is used without a test (hostinfo.c:532).
GpuLine(line) ==
  LET none == [ret |-> 0, vendor |-> Unknown, name |-> Unknown]
      open == strchr(line, 1)
      close == strchr(line, open + 1)
      vendor == strchr(line, close + 1)
      vendor_end == strchr(line, vendor + 1)
      name == strchr(line, vendor_end + 1)
  IN  IF open = NULL THEN none
      ELSE IF close = NULL THEN none
      ELSE IF vendor = NULL THEN none
      ELSE IF vendor_end = NULL THEN [ret |-> NULL]
      ELSE [ret |-> 0, vendor |-> Cut(line, vendor, vendor_end),
            name |-> IF name = NULL THEN Unknown ELSE Cut(line, name, strchr(line, name + 1))]

\* NULL: the call does not return.
fossil_sys_hostinfo_get_gpu(line, version) ==
  LET read == GpuLine(IF line = NULL THEN <<>> ELSE line)
  IN  IF read.ret = NULL THEN [ret |-> NULL]
      ELSE Done([vendor |-> read.vendor, name |-> read.name,
                 driver_version |-> OrUnknown(version), memory_total |-> 0])

fossil_sys_hostinfo_get_display(fb) ==
  Done(IF fb = NULL THEN [display_count |-> 0, width |-> 0]
       ELSE [display_count |-> 1, width |-> fb])
-----------------------------------------------------------------------------
(* Power *)

PowerFields == {"on_ac_power", "battery_present", "battery_charging", "battery_percentage",
                "battery_seconds_left"}

\* A field is set to the number in a file if there is one.
Scanned(old, file) == IF file \in {NULL, Bad} THEN old ELSE file
Charging(old, status) ==
  IF status = NULL THEN old
  ELSE IF status = "Charging" THEN 1 ELSE IF status = "Discharging" THEN 0 ELSE -1

\* The first of the three names of the mains that can be opened, and the first battery
\* that has a directory; neither looks further when a file in it cannot be read.  The
\* structure is not zeroed, but each field is set first.
fossil_sys_hostinfo_get_power(info, ac, bat) ==
  LET mains == FirstOr(ac, {i \in DOMAIN ac : ac[i] # NULL}, NULL)
      b == FirstOr(bat, {i \in DOMAIN bat : bat[i] # NULL}, NULL)
      start == [info EXCEPT !.on_ac_power = -1, !.battery_present = 0,
                            !.battery_charging = -1, !.battery_percentage = -1,
                            !.battery_seconds_left = -1]
      plugged == [start EXCEPT !.on_ac_power = Scanned(@, mains),
                               !.battery_present = Flag(b # NULL)]
  IN  Done(IF b = NULL THEN plugged
           ELSE [plugged EXCEPT !.battery_charging = Charging(@, b.status),
                                !.battery_percentage = Scanned(@, b.capacity),
                                !.battery_seconds_left = Scanned(@, b.left)])
-----------------------------------------------------------------------------
(* Clocks *)

\* ... seconds rounded up, ...
SecondsUp(t) == -((-t) \div TICKS)

\* Whole seconds of a time: of the double in /proc/uptime, and of time().
Seconds(t) == t \div TICKS

\* time() is read after the file; the difference is taken in 64 bits without a sign.
fossil_sys_hostinfo_get_uptime(file, now) ==
  LET nothing == [uptime_seconds |-> 0, boot_time_epoch |-> 0]
  IN  IF file = NULL THEN Fails(-2, nothing)
      ELSE IF file = Bad THEN Fails(-3, nothing)
      ELSE Done([uptime_seconds |-> Seconds(file),
                 boot_time_epoch |-> ((now \div TICKS) - Seconds(file)) % WORD])

\* The hour of the day is all that is compared: offsets in quarters of an hour.
Hour(t) == (t \div 4) % 24
fossil_sys_hostinfo_get_time(utc, zone, locale) ==
  Done([utc_offset |-> 4 * (Hour(utc + zone) - Hour(utc)), locale |-> OrUnknown(locale)])
-----------------------------------------------------------------------------
(* Virtualization *)

Runtime == {"docker", "podman", "lxc", "kubepods"}
\* A line of /proc/1/cgroup is the set of the runtimes whose names stand in it.
RuntimeOf(line) ==
  IF "docker" \in line THEN "docker" ELSE IF "podman" \in line THEN "podman"
  ELSE IF "lxc" \in line THEN "lxc" ELSE "kubernetes"

\* ... and a search that gives up at the first line without a name, ...
ContainerFirstLine(cgroup, markers) ==
  LET line == IF cgroup = NULL \/ cgroup = <<>> THEN {} ELSE cgroup[1]
  IN  IF cgroup = NULL THEN NULL
      ELSE IF line # {} THEN RuntimeOf(line)
      ELSE IF "/.dockerenv" \in markers THEN "docker"
      ELSE IF "/run/.containerenv" \in markers THEN "podman"
      ELSE NULL

\* NULL for no container; the marker files count only when the cgroup file is readable.
fossil_detect_container_linux(cgroup, markers) ==
  LET named == {i \in DOMAIN cgroup : cgroup[i] # {}}
  IN  IF cgroup = NULL THEN NULL
      ELSE IF named # {} THEN RuntimeOf(cgroup[Min(named)])
      ELSE IF "/.dockerenv" \in markers THEN "docker"
      ELSE IF "/run/.containerenv" \in markers THEN "podman"
      ELSE NULL

\* What two leaves of CPUID hold: the hypervisor bit, and the text that ebx, ecx and edx
\* make up to their first zero byte.  The compiler's __get_cpuid refuses a leaf above the
\* highest of the basic leaves, and leaves the registers as they are.
HYPERVISOR_LEAF == 1073741824      \* 0x40000000
Registers == [bit : BOOLEAN, text : Answer \cup {Empty}]
Cpu == [highest : {0, 13}, leaf : [{1, HYPERVISOR_LEAF} -> Registers]]
get_cpuid(cpu, leaf, old) ==
  IF leaf <= cpu.highest THEN [ret |-> 1, regs |-> cpu.leaf[leaf]]
  ELSE [ret |-> 0, regs |-> old]

\* NULL for no virtual machine; what the second __get_cpuid returns is not looked at.
fossil_detect_vm_cpuid(cpu) ==
  LET features == get_cpuid(cpu, 1, NULL)
      hv == get_cpuid(cpu, HYPERVISOR_LEAF, features.regs).regs
  IN  IF features.ret = 0 THEN NULL
      ELSE IF features.regs.bit THEN hv.text ELSE NULL

\* product: the DMI name and whether it contains one of the eight known ones.
fossil_sys_hostinfo_get_virtualization(cgroup, markers, cpu, product) ==
  LET container == fossil_detect_container_linux(cgroup, markers)
      cpuid == fossil_detect_vm_cpuid(cpu)
      dmi == IF product # NULL /\ product.known THEN product.name ELSE NULL
      hypervisor == IF cpuid = NULL THEN dmi ELSE cpuid
  IN  Done([is_container |-> Flag(container # NULL), container_type |-> OrEmpty(container),
            is_virtual_machine |-> Flag(hypervisor # NULL),
            hypervisor |-> OrEmpty(hypervisor)])
-----------------------------------------------------------------------------
(* Network, process, limits, hardware *)

\* The first interface with an IPv4 address that is not the loopback.
fossil_sys_hostinfo_get_network(hostname, interfaces) ==
  LET up == {i \in DOMAIN interfaces :
               interfaces[i].family = "inet" /\ ~interfaces[i].loopback}
      first == interfaces[Min(up)]
      info(ip, name, mac) == Done([hostname |-> OrUnknown(hostname), primary_ip |-> ip,
                                   interface_name |-> name, mac_address |-> mac, is_up |-> 1])
  IN  IF interfaces = NULL THEN info(Unknown, Unknown, Unknown)
      ELSE IF up = {} THEN info(Empty, Empty, Empty)
      ELSE info(first.ip, first.name, OrUnknown(first.mac))

fossil_sys_hostinfo_get_process(cwd, exe, root) ==
  Done([executable_path |-> OrUnknown(exe), current_working_dir |-> OrUnknown(cwd),
        process_name |-> "process", is_elevated |-> Flag(root)])

fossil_sys_hostinfo_get_limits(nofile, page) ==
  Done([max_open_files |-> IF nofile = NULL THEN 0 ELSE nofile, max_processes |-> 0,
        page_size |-> page])

\* Four files of /sys/class/dmi/id, most of them for root only.
fossil_sys_hostinfo_get_hardware(dmi) == Done([f \in DOMAIN dmi |-> OrEmpty(dmi[f])])
-----------------------------------------------------------------------------
(* class Hostinfo: each method passes its own local structure *)

Stale == {Garbage, Empty}     \* what may stand in a field that was not initialised
Battery == [status : {"Charging", "Discharging", "Full", NULL}, capacity : {NULL, Bad, 50},
            left : {NULL, 50}]
CallMachine ==
  \/ \E file \in OrNull(Cpuinfo) :
       \/ Called("cpu", [file |-> file], fossil_sys_hostinfo_get_cpu(file))
       \/ \E old \in Stale, uname \in OrNull(Answer), again \in {0} \cup Count :
            Called("architecture", [file |-> file, uname |-> uname],
                   fossil_sys_hostinfo_get_architecture(All(ArchFields, old), uname, file, again))
  \/ \E old \in Stale, answer \in OrNull(Answer), host \in OrNull(Answer) :
       \E env \in [{"USER", "DOMAINNAME"} -> OrNull(Answer)] :
         Called("system", [uname |-> answer],
                fossil_sys_hostinfo_get_system(All(SystemFields, old), answer, host, env))
  \/ \E old \in Stale, s \in OrNull([total : Count, free : Count]) :
       /\ s # NULL => s.free <= s.total
       /\ Called("memory", [sysinfo |-> s],
                 fossil_sys_hostinfo_get_memory(All(MemoryFields, old), s))
  \/ \E bytes \in {<<1, 0>>, <<0, 1>>} :
       Called("endianness", [bytes |-> bytes], fossil_sys_hostinfo_get_endianness(bytes))
  \/ \E nofile \in OrNull(Count), page \in Count :
       Called("limits", [nofile |-> nofile], fossil_sys_hostinfo_get_limits(nofile, page))
  \/ \E old \in Stale, ac \in [1 .. 3 -> {NULL, Bad, 0, 1}], bat \in [1 .. 2 -> OrNull(Battery)] :
       Called("power", [ac |-> ac, bat |-> bat],
              fossil_sys_hostinfo_get_power(All(PowerFields, old), ac, bat))

CallClocks ==
  \/ \E boot \in Instant, up \in {i \in Instant : i >= 0}, delay \in 0 .. MAX_DELAY :
       Called("uptime", [boot |-> boot, file |-> up, delay |-> delay],
              fossil_sys_hostinfo_get_uptime(up, boot + up + delay))
  \/ \E file \in {NULL, Bad} :
       Called("uptime", [file |-> file], fossil_sys_hostinfo_get_uptime(file, 0))
  \/ \E utc \in Quarter, zone \in Zone, locale \in OrNull(Answer) :
       Called("time", [utc |-> utc, zone |-> zone],
              fossil_sys_hostinfo_get_time(utc, zone, locale))

CallDevices ==
  \/ \E line \in OrNull(BoundedSeq({"quote", "text"}, MAX_CHARS)), version \in OrNull(Answer) :
       Called("gpu", [line |-> line], fossil_sys_hostinfo_get_gpu(line, version))
  \/ \E fb \in OrNull(Count) : Called("display", [fb |-> fb], fossil_sys_hostinfo_get_display(fb))
  \/ \E interfaces \in OrNull(BoundedSeq([ip : Answer, name : Answer, mac : OrNull(Answer),
             family : {"inet", "other"}, loopback : BOOLEAN], 2)), host \in OrNull(Answer) :
       Called("network", [interfaces |-> interfaces],
              fossil_sys_hostinfo_get_network(host, interfaces))
  \/ \E vfs \in OrNull([blocks : Count, bfree : Count]),
        mounts \in BoundedSeq([mnt : {"/", "/proc"}, type : Answer], MAX_LINES) :
       /\ vfs # NULL => vfs.bfree <= vfs.blocks
       /\ Called("storage", [vfs |-> vfs, mounts |-> mounts],
                 fossil_sys_hostinfo_get_storage(vfs, mounts))
  \/ \E dmi \in [{"sys_vendor", "product_name", "product_serial", "bios_version"}
                   -> OrNull(Answer)] :
       Called("hardware", [dmi |-> dmi], fossil_sys_hostinfo_get_hardware(dmi))

CallSetting ==
  \/ \E env \in [{"SHELL", "HOME", "LANG", "PATH", "TERM", "USER"} -> OrNull(Answer)] :
       Called("environment", [env |-> env], fossil_sys_hostinfo_get_environment(env))
  \/ \E cwd \in OrNull(Answer), exe \in OrNull(Answer), root \in BOOLEAN :
       Called("process", [cwd |-> cwd], fossil_sys_hostinfo_get_process(cwd, exe, root))
  \/ \E cgroup \in OrNull(BoundedSeq(SUBSET Runtime, 2)),
        markers \in SUBSET {"/.dockerenv", "/run/.containerenv"},
        cpu \in Cpu, product \in OrNull([name : Answer, known : BOOLEAN]) :
       Called("virtualization", [cgroup |-> cgroup, markers |-> markers,
                                 cpu |-> cpu, product |-> product],
              fossil_sys_hostinfo_get_virtualization(cgroup, markers, cpu, product))

Hostinfo == Idle /\ (CallMachine \/ CallClocks \/ CallDevices \/ CallSetting)
-----------------------------------------------------------------------------
Info == call.result.info

\* A structure of the class that comes back with something uninitialised in it is that
\* of a system call that failed, which only system, architecture and memory leave as it
\* was; or the name or frequency of an architecture whose /proc/cpuinfo has no such line
\* (hostinfo.c:1008, 1041), as on ARM machines.  Every other path fills every field.
NothingStale ==
  call.fn \in {"cpu", "architecture", "system", "memory", "endianness", "limits", "power",
               "uptime", "time", "display", "network", "storage", "hardware", "environment",
               "process", "virtualization"} =>
    LET stale == {f \in DOMAIN Info : Info[f] = Garbage}
        absent(key) == call.args.file = NULL \/ ValuesOf(call.args.file, key) = {}
    IN  /\ call.result.ret # 0 /\ stale # {} => call.fn \in {"system", "architecture", "memory"}
        /\ call.result.ret = 0 /\ stale # {} =>
             /\ call.fn = "architecture" /\ stale \subseteq {"cpu", "cpu_frequency"}
             /\ "cpu" \in stale => absent("model name")
             /\ "cpu_frequency" \in stale => absent("cpu MHz")

\* get_cpu and get_architecture, which read the same file in their own ways, agree: both
\* counts are positive, and on a machine whose processors are all of one model and in one
\* package (as many processors as siblings) the two name the same processor, with the
\* same cores and threads, whatever the numbers and frequencies of its processors.
Alike(lines) ==
  /\ \A key \in {"model name", "cpu cores", "siblings"} :
       \A i, j \in ValuesOf(lines, key) : lines[i].value = lines[j].value
  /\ LastValue(lines, "siblings", Cardinality(LinesOf(lines, "processor")))
       = Cardinality(LinesOf(lines, "processor"))
CpuAgree ==
  call.fn = "cpu" /\ call.result.ret = 0 =>
    LET file == call.args.file
        n == Cardinality(LinesOf(file, "processor"))
        arch == fossil_sys_hostinfo_get_architecture(All(ArchFields, Empty), Garbage, file, n).info
    IN  /\ Info.cores > 0 /\ Info.threads > 0
        /\ Alike(file) =>
             /\ Info.model = arch.cpu
             /\ arch.cpu_cores \in {Info.cores, 0, Unknown}
             /\ arch.cpu_threads \in {Info.threads, 0, Unknown}
             /\ n > 0 => arch.cpu_threads = Info.threads

\* The boot time is the second in which the host booted, off by no more than the time
\* that passes between the two readings and one second of rounding, even where the clock
\* has been set back before 1970 and it wraps.  While no midnight lies between the two times
\* of day the UTC offset is that of the time zone, save for the fraction of an hour.
ClocksRight ==
  /\ call.fn = "uptime" /\ call.result.ret = 0 =>
       LET boot == call.args.boot
       IN  Info.boot_time_epoch \in
             {x % WORD : x \in (boot \div TICKS) .. ((boot + call.args.delay) \div TICKS) + 1}
  /\ call.fn = "time" /\ call.args.utc + call.args.zone \in 0 .. 95 =>
       /\ Info.utc_offset - call.args.zone \in -3 .. 3
       /\ call.args.zone % 4 = 0 => Info.utc_offset = call.args.zone

\* code/tests/cases/test_hostinfo.c:203 asserts of the UTC offset that it is at least -43200 s
\* and at most 50400 s, here in quarters of an hour.  Only the hours of the day are
\* subtracted (hostinfo.c:1699): with a midnight between the two it is a day off.
OffsetInRange == call.fn = "time" => Info.utc_offset \in -48 .. 56

\* A container that its cgroup names or that has a marker file is missed only where
\* /proc/1/cgroup cannot be opened, in which case the markers are not looked at
\* (hostinfo.c:1246); a type is given exactly for containers.  A virtual machine is one
\* whose processor says so or that has a known product name, which then names it where
\* the processor does not say so.
ContainerSeen ==
  call.fn = "virtualization" =>
    LET args == call.args
        named == args.cgroup # NULL /\ \E i \in DOMAIN args.cgroup : args.cgroup[i] # {}
        bit == args.cpu.highest >= 1 /\ args.cpu.leaf[1].bit
        known == args.product # NULL /\ args.product.known
    IN  /\ Info.is_container = 0 /\ (named \/ args.markers # {}) => args.cgroup = NULL
        /\ Info.is_container = 0 <=> Info.container_type = Empty
        /\ Info.is_virtual_machine = 1 <=> bit \/ known
        /\ Info.is_virtual_machine = 0 => Info.hypervisor = Empty
        /\ ~bit /\ known => Info.hypervisor = args.product.name

\* lspci's line, cut by quotes: the vendor and the device are its second and third quoted
\* texts where they are closed, and the call runs into the null pointer (hostinfo.c:532)
\* only for a line that ends within the vendor.
Quotes(line) == {k \in DOMAIN line : line[k] = "quote"}
Rank(S, k) == Cardinality({j \in S : j <= k})
QuoteAt(line, n) == CHOOSE k \in Quotes(line) : Rank(Quotes(line), k) = n
TextLength(line, n) ==
  Cardinality({k \in QuoteAt(line, n) .. QuoteAt(line, n + 1) : line[k] = "text"})
Fits(line, n) ==
  Cardinality(Quotes(line)) > n /\ TextLength(line, n) \in 1 .. NAME_SIZE - 1
GpuRead ==
  call.fn = "gpu" /\ call.args.line # NULL =>
    LET line == call.args.line
    IN  /\ call.result.ret = NULL <=> Cardinality(Quotes(line)) = 3
        /\ call.result.ret = 0 =>
             /\ Info.vendor # Unknown <=> Fits(line, 3)
             /\ Info.name # Unknown <=> Fits(line, 5)
             /\ Fits(line, 3) => Len(Info.vendor) = TextLength(line, 3)
             /\ Fits(line, 5) => Len(Info.name) = TextLength(line, 5)
=============================================================================
