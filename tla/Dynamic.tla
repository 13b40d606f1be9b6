------------------------------- MODULE Dynamic -------------------------------
(***************************************************************************)
(* Dynamic libraries: the POSIX half of code/logic/dynamic.c and the class *)
(* Dynamic of dynamic.h, which owns a descriptor and can be moved but not  *)
(* copied.  An object's descriptor is also reachable through raw(), so the *)
(* C calls can be made behind the object's back; an object that is never   *)
(* used but through raw() is a plain C descriptor.  The system's loader is *)
(* external: it counts the handles open on each library.                   *)
(***************************************************************************)
EXTENDS Integers, FiniteSets

CONSTANTS Obj,         \* Dynamic objects
          Lib,         \* shared libraries; a library's handle is the library
          NULL,
          MAX_REFS     \* bound: handles open on one library

VARIABLES obj,     \* the objects (NULL: not constructed, or destroyed)
          refs,    \* the loader's count of open handles per library
          leaked,  \* how many of them no descriptor holds any more
          error,   \* fossil_dyn_error_buf: the operation that failed last
          raw      \* "used" once a library is loaded or unloaded through raw()

vars == <<obj, refs, leaked, error, raw>>

\* Where a string pointer of a descriptor comes from: null, the caller, or the
\* array `resolved` in the stack frame of a load that has returned.
Origin == {"null", "caller", "stack"}
Descriptor == [handle : Lib \cup {NULL}, status : {0, 1}, id : Origin, path : Origin,
               loaded : BOOLEAN]

ASSUME DynamicAssumption ==
  /\ IsFiniteSet(Obj)
  /\ NULL \notin Lib \cup Descriptor
  /\ MAX_REFS \in Nat

Fresh(id) == [handle |-> NULL, status |-> 0, id |-> id, path |-> "null",
              loaded |-> FALSE]

\* A path names a library with its extension or without, may have another dot in it,
\* and is plain when validate_path accepts it: no "..", no leading dot.
Path == {p \in [lib : Lib, ext : BOOLEAN, dot : BOOLEAN, plain : BOOLEAN] :
           p.dot \/ p.plain}

Constructed(o) == obj[o] # NULL
Holders(l) == {o \in Obj : Constructed(o) /\ obj[o].handle = l}

Init == /\ obj = [o \in Obj |-> NULL]
        /\ refs = [l \in Lib |-> 0]
        /\ leaked = [l \in Lib |-> 0]
        /\ error = "none"
        /\ raw = "unused"
-----------------------------------------------------------------------------
(* The C functions, on a descriptor d that becomes object o's *)

\* fossil_dyn_resolve_path: the platform's extension is appended unless there is a
\* dot anywhere in the path.  The library's file is the one with the extension.
fossil_dyn_resolve_path(p) == IF p.ext \/ ~p.dot THEN "file" ELSE "no_such_file"

\* The handle a descriptor is about to lose without dlclose.
Forgets(h) == leaked' = IF h = NULL THEN leaked ELSE [leaked EXCEPT ![h] = @ + 1]

dynamic_load_succeeds(o, d, p, loaded) ==
  /\ fossil_dyn_resolve_path(p) = "file"
  /\ refs[p.lib] < MAX_REFS
  /\ refs' = [refs EXCEPT ![p.lib] = @ + 1]
  /\ obj' = [obj EXCEPT ![o] = [handle |-> p.lib, status |-> 1, id |-> "stack",
                                path |-> "stack", loaded |-> loaded]]
  /\ Forgets(d.handle)
  /\ UNCHANGED error

\* dlopen returned NULL; the descriptor is left as it was.
dynamic_load_fails(o, d, p) ==
  /\ obj' = [obj EXCEPT ![o] = d]
  /\ error' = "load"
  /\ UNCHANGED <<refs, leaked>>

dynamic_unload_refused(o) ==
  /\ obj[o].handle = NULL
  /\ UNCHANGED <<obj, refs, leaked, error>>

dynamic_unload_succeeds(o, loaded) ==
  /\ obj[o].handle # NULL
  /\ refs' = [refs EXCEPT ![obj[o].handle] = @ - 1]
  /\ obj' = [obj EXCEPT ![o] = [@ EXCEPT !.handle = NULL, !.status = 0,
                                         !.loaded = loaded]]
  /\ UNCHANGED <<leaked, error>>

dynamic_unload_fails(o) ==
  /\ obj[o].handle # NULL
  /\ error' = "unload"
  /\ UNCHANGED <<obj, refs, leaked>>

\* The C functions through raw(): the object's own loaded_ is not told.
RawLoad(o, p) ==
  /\ Constructed(o)
  /\ raw' = "used"
  /\ \/ dynamic_load_succeeds(o, obj[o], p, obj[o].loaded)
     \/ dynamic_load_fails(o, obj[o], p)

RawUnload(o) ==
  /\ Constructed(o)
  /\ raw' = "used"
  /\ \/ dynamic_unload_refused(o)
     \/ dynamic_unload_succeeds(o, obj[o].loaded)
     \/ dynamic_unload_fails(o)

\* fossil_sys_dynamic_symbol, by itself or as Dynamic::symbol: only a failed look-up
\* leaves a trace.
SymbolNotFound(o) ==
  /\ Constructed(o)
  /\ obj[o].handle # NULL
  /\ error' = "symbol"
  /\ UNCHANGED <<obj, refs, leaked, raw>>
-----------------------------------------------------------------------------
(* class Dynamic *)

\* load: refused when the object has a library already or the path is not plain.
LoadInto(o, d, p) ==
  \/ /\ d.loaded \/ ~p.plain
     /\ obj' = [obj EXCEPT ![o] = d]
     /\ UNCHANGED <<refs, leaked, error>>
  \/ /\ ~d.loaded /\ p.plain
     /\ LET e == [d EXCEPT !.path = "caller"]
        IN  dynamic_load_succeeds(o, e, p, TRUE) \/ dynamic_load_fails(o, e, p)

Construct(o) ==
  /\ ~Constructed(o)
  /\ obj' = [obj EXCEPT ![o] = Fresh("null")]
  /\ UNCHANGED <<refs, leaked, error, raw>>

\* Dynamic(path), Dynamic(id, path)
ConstructLoaded(o, id, p) ==
  ~Constructed(o) /\ LoadInto(o, Fresh(id), p) /\ UNCHANGED raw

Load(o, p) == Constructed(o) /\ LoadInto(o, obj[o], p) /\ UNCHANGED raw

Unload(o) ==
  /\ Constructed(o)
  /\ obj[o].loaded
  /\ \/ dynamic_unload_refused(o)
     \/ dynamic_unload_succeeds(o, FALSE)
     \/ dynamic_unload_fails(o)
  /\ UNCHANGED raw

\* An object's descriptor is about to be overwritten or destroyed: unload is called
\* if the object knows of a library, and what it returns is ignored.
Dispose(d) ==
  \/ /\ ~d.loaded \/ d.handle = NULL
     /\ Forgets(d.handle)
     /\ UNCHANGED <<refs, error>>
  \/ /\ d.loaded /\ d.handle # NULL
     /\ refs' = [refs EXCEPT ![d.handle] = @ - 1]
     /\ UNCHANGED <<leaked, error>>
  \/ /\ d.loaded /\ d.handle # NULL
     /\ Forgets(d.handle)
     /\ error' = "unload"
     /\ UNCHANGED refs

Destroy(o) ==
  /\ Constructed(o)
  /\ Dispose(obj[o])
  /\ obj' = [obj EXCEPT ![o] = NULL]
  /\ UNCHANGED raw

\* Slips for the mutation runs: a move that does not clear its source's flag or handle,
\* a move assignment that does not unload the target's library first.
EmptiedKeepsFlag(d) == [d EXCEPT !.handle = NULL]
EmptiedKeepsHandle(d) == [d EXCEPT !.loaded = FALSE]
MoveAssignNoUnload(o, from) ==
  /\ Constructed(o) /\ Constructed(from) /\ o # from
  /\ Forgets(obj[o].handle)
  /\ obj' = [obj EXCEPT ![o] = obj[from],
                        ![from] = [obj[from] EXCEPT !.handle = NULL, !.loaded = FALSE]]
  /\ UNCHANGED <<refs, error, raw>>

\* What a move leaves in its source; status, id and path stay.
Emptied(d) == [d EXCEPT !.handle = NULL, !.loaded = FALSE]

MoveConstruct(o, from) ==
  /\ ~Constructed(o) /\ Constructed(from)
  /\ obj' = [obj EXCEPT ![o] = obj[from], ![from] = Emptied(obj[from])]
  /\ UNCHANGED <<refs, leaked, error, raw>>

\* Assigning an object to itself changes nothing.
MoveAssign(o, from) ==
  /\ Constructed(o) /\ Constructed(from) /\ o # from
  /\ Dispose(obj[o])
  /\ obj' = [obj EXCEPT ![o] = obj[from], ![from] = Emptied(obj[from])]
  /\ UNCHANGED raw

Next == \E o \in Obj :
  \/ Construct(o)
  \/ Unload(o)
  \/ Destroy(o)
  \/ RawUnload(o)
  \/ SymbolNotFound(o)
  \/ \E p \in Path : Load(o, p) \/ RawLoad(o, p)
  \/ \E id \in {"null", "caller"}, p \in Path : ConstructLoaded(o, id, p)
  \/ \E from \in Obj : MoveConstruct(o, from) \/ MoveAssign(o, from)

Spec == Init /\ [][Next]_vars
-----------------------------------------------------------------------------
\* The variables keep their types.
TypeOK ==
  /\ obj \in [Obj -> Descriptor \cup {NULL}]
  /\ refs \in [Lib -> 0 .. MAX_REFS]
  /\ leaked \in [Lib -> 0 .. MAX_REFS]
  /\ error \in {"none", "load", "unload", "symbol"}
  /\ raw \in {"unused", "used"}

\* The loader counts exactly the handles in the descriptors and the leaked ones, so a
\* handle in a descriptor is open: no move, failed close or call on raw() makes two
\* descriptors close one handle, and no library is unmapped under an object.
HandlesCounted == \A l \in Lib : refs[l] = Cardinality(Holders(l)) + leaked[l]

\* As long as nobody loads or unloads through raw(), an object says it is loaded exactly
\* when it holds a handle whose descriptor is loaded, through moves and failed closes.
LoadedIffHandle ==
  raw = "unused" => \A o \in Obj : Constructed(o) =>
    (obj[o].loaded <=> obj[o].handle # NULL) /\ (obj[o].loaded => obj[o].status = 1)

\* As long as nobody loads or unloads through raw(), the only step that loses an open
\* handle is one whose dlclose fails, and then the error buffer says so: the last owner
\* that goes, or takes another library, closes the one it had.
LeakReported == [][raw' = "unused" /\ leaked' # leaked => refs' = refs /\ error' = "unload"]_vars

\* dynamic.h:197: the constructor sets the library's ID (to the caller's string).
IdOutlivesLoad == \A o \in Obj : Constructed(o) => obj[o].id # "stack"
=============================================================================
