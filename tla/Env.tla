--------------------------------- MODULE Env ---------------------------------
(***************************************************************************)
(* code/logic/env.c on POSIX: canonical identifiers ("fossil.sys.path")    *)
(* over the process environment.  get resolves an identifier to a platform *)
(* value or to an environment variable; set has a table of its own for the *)
(* way back.  The properties are about how far the two tables agree.       *)
(***************************************************************************)
EXTENDS Integers, FiniteSets

CONSTANTS Key,       \* the keys in use: canonical identifiers and plain names
          Value,     \* the values in use, see Values
          Sys,       \* what the platform answers, see Platform
          INT_MAX, LONG_MAX,
          MAX_SET,   \* bound: variables set at one time
          NULL

\* What the parsers tell apart in a value: the number it spells, a word they know, or
\* anything else.
Values == [kind : {"number", "true", "false", "other"}, n : Int]

\* Identifiers that the platform answers for, whatever the environment holds.
Platform == {"fossil.sys.name", "fossil.sys.arch", "fossil.sys.page_size",
             "fossil.sys.cpu_count"}

ASSUME EnvAssumption ==
  /\ Value \subseteq Values /\ Sys \in [Platform -> Values] /\ NULL \notin Values \cup Key
  /\ INT_MAX \in Nat /\ LONG_MAX \in Nat /\ INT_MAX <= LONG_MAX
  /\ MAX_SET \in Nat

\* The tables, as pairs of an identifier and its variable: resolve_id's, then set's.
GetTable ==
  {<<"fossil.sys.path", "PATH">>, <<"fossil.sys.home", "HOME">>,
   <<"fossil.sys.tmp", "TMPDIR">>, <<"fossil.temp.dir", "TMPDIR">>,
   <<"fossil.user.name", "USER">>, <<"fossil.user.id", "UID">>,
   <<"fossil.runtime.mode", "FOSSIL_RUNTIME_MODE">>,
   <<"fossil.runtime.debug", "FOSSIL_RUNTIME_DEBUG">>,
   <<"fossil.runtime.log.level", "FOSSIL_RUNTIME_LOG_LEVEL">>,
   <<"fossil.runtime.log.output", "FOSSIL_RUNTIME_LOG_OUTPUT">>,
   <<"fossil.runtime.seed", "FOSSIL_RUNTIME_SEED">>,
   <<"fossil.runtime.threads", "FOSSIL_RUNTIME_THREADS">>,
   <<"fossil.app.name", "FOSSIL_APP_NAME">>,
   <<"fossil.app.version", "FOSSIL_APP_VERSION">>,
   <<"fossil.app.instance", "FOSSIL_APP_INSTANCE">>,
   <<"fossil.temp.cache", "FOSSIL_TEMP_CACHE">>}

\* Slips for the mutation runs: a wrong row, ...
SetTableWrongRow ==
  {<<"fossil.sys.path", "PATH">>, <<"fossil.sys.home", "HOME">>,
   <<"fossil.sys.tmp", "TMPDIR">>, <<"fossil.user.name", "USER">>,
   <<"fossil.runtime.log.level", "FOSSIL_RUNTIME_LOG_OUTPUT">>,
   <<"fossil.runtime.log.output", "FOSSIL_RUNTIME_LOG_OUTPUT">>,
   <<"fossil.temp.cache", "FOSSIL_TEMP_CACHE">>}

SetTable ==
  {<<"fossil.sys.path", "PATH">>, <<"fossil.sys.home", "HOME">>,
   <<"fossil.sys.tmp", "TMPDIR">>, <<"fossil.user.name", "USER">>,
   <<"fossil.runtime.mode", "FOSSIL_RUNTIME_MODE">>,
   <<"fossil.runtime.debug", "FOSSIL_RUNTIME_DEBUG">>,
   <<"fossil.runtime.log.level", "FOSSIL_RUNTIME_LOG_LEVEL">>,
   <<"fossil.runtime.log.output", "FOSSIL_RUNTIME_LOG_OUTPUT">>,
   <<"fossil.runtime.seed", "FOSSIL_RUNTIME_SEED">>,
   <<"fossil.runtime.threads", "FOSSIL_RUNTIME_THREADS">>,
   <<"fossil.app.name", "FOSSIL_APP_NAME">>,
   <<"fossil.app.version", "FOSSIL_APP_VERSION">>,
   <<"fossil.app.instance", "FOSSIL_APP_INSTANCE">>,
   <<"fossil.temp.cache", "FOSSIL_TEMP_CACHE">>}

\* The variable an identifier stands for; one that has no row is a variable's name itself.
Rows(table, key) == {row \in table : row[1] = key}
Vars(table) == [key \in Key |-> IF Rows(table, key) = {} THEN key
                                ELSE (CHOOSE row \in Rows(table, key) : TRUE)[2]]
GetVar == Vars(GetTable)
SetVar == Vars(SetTable)

Canonical == Platform \cup {row[1] : row \in GetTable}
Name == {GetVar[k] : k \in Key} \cup {SetVar[k] : k \in Key}

VARIABLES env,       \* the environment: a variable's value, NULL when it is not set
          last       \* the last call of set, if it succeeded

vars == <<env, last>>

Failed == [key |-> NULL, value |-> NULL]

Init == /\ env \in [Name -> {NULL}]
        /\ last = Failed
-----------------------------------------------------------------------------
TmpPath == [kind |-> "other", n |-> 1]       \* "/tmp"

fossil_sys_env_resolve_id(key) ==
  CASE key \in Platform -> Sys[key]
    [] /\ key \in {"fossil.sys.tmp", "fossil.temp.dir"}
       /\ env["TMPDIR"] = NULL -> TmpPath
    [] OTHER -> env[GetVar[key]]

fossil_sys_env_get(key) == fossil_sys_env_resolve_id(key)
fossil_sys_env_exists(key) == fossil_sys_env_get(key) # NULL

\* ... a value that is stored only where there is none yet, ...
SetNoOverwrite(key, value) ==
  /\ env' = [env EXCEPT ![SetVar[key]] = IF value = NULL \/ @ = NULL THEN value ELSE @]
  /\ last' = [key |-> key, value |-> value]

\* setenv or, for a null value, unsetenv.
fossil_sys_env_set(key, value) ==
  /\ env' = [env EXCEPT ![SetVar[key]] = value]
  /\ last' = [key |-> key, value |-> value]

\* -1: a null key, no memory for setenv, a name with "=".
SetFails == last' = Failed /\ UNCHANGED env

\* strtol, which stops at the ends of long, then the cast to int.
ToLong(n) == IF n > LONG_MAX THEN LONG_MAX ELSE IF n < -LONG_MAX - 1 THEN -LONG_MAX - 1 ELSE n
ToInt(n) == ((n + INT_MAX + 1) % (2 * INT_MAX + 2)) - INT_MAX - 1

fossil_sys_env_get_int(key, default_value) ==
  LET v == fossil_sys_env_get(key)
  IN  IF v = NULL THEN default_value
      ELSE IF v.kind = "number" THEN ToInt(ToLong(v.n)) ELSE default_value

fossil_sys_env_parse_bool(v, default_value) ==
  IF v = NULL THEN default_value
  ELSE CASE v.kind = "true"  \/ (v.kind = "number" /\ v.n = 1) -> 1
         [] v.kind = "false" \/ (v.kind = "number" /\ v.n = 0) -> 0
         [] OTHER -> default_value

fossil_sys_env_get_bool(key, default_value) ==
  fossil_sys_env_parse_bool(fossil_sys_env_get(key), default_value)

Next == \/ SetFails
        \/ \E key \in Key, value \in Value \cup {NULL} :
             /\ fossil_sys_env_set(key, value)
             /\ Cardinality({var \in Name : env'[var] # NULL}) <= MAX_SET

Spec == Init /\ [][Next]_vars
-----------------------------------------------------------------------------
\* The variables keep their types.
TypeOK == /\ env \in [Name -> Value \cup {NULL}]
          /\ last \in [key : Key \cup {NULL}, value : Value \cup {NULL}]

\* env.h:162: set sets the value of a variable.  What it stored is read back through the same key, for
\* plain names and for every canonical identifier but six; one that was unset reads as
\* missing, or as /tmp.
OneWay == Platform \cup {"fossil.user.id", "fossil.temp.dir"}
RoundTrip ==
  last.key \in Key \ OneWay =>
    fossil_sys_env_get(last.key) =
      IF last.value = NULL /\ last.key = "fossil.sys.tmp" THEN TmpPath ELSE last.value

\* Setting an identifier changes what no other reads as, but for those that stand for the
\* same variable; a failed set changes nothing.
NoInterference ==
  [][\A other \in Key :
       \/ fossil_sys_env_get(other)' = fossil_sys_env_get(other)
       \/ last'.key \in Key /\ GetVar[other] = GetVar[last'.key]]_vars
=============================================================================
