-------------------------------- MODULE Files --------------------------------
(***************************************************************************)
(* Files and directories: the POSIX half of code/logic/syscall.c and the   *)
(* class Syscall, driven by one thread while another program creates and   *)
(* removes files and links.  The file system is external: a node is a path *)
(* without links in it, and lies in the directory Parent; a link leads to  *)
(* the node Target.  Recursive deletion and listing go entry by entry, so  *)
(* that the other program's steps come in between.                         *)
(***************************************************************************)
EXTENDS Integers, Sequences, FiniteSets

CONSTANTS Node, ROOT,
          Parent,         \* the directory a node lies in
          Target,         \* what a node leads to while it is a link
          Kinds,          \* bound: what each node may be
          NULL,
          MAX_LINKS,      \* links the kernel follows in one path, 40
          MAX_DEPTH,      \* directories in a path, as far as PATH_MAX allows
          FIRST_CAPACITY, \* slots listing allocates at first, 10
          OUT_OF_MEMORY   \* may malloc fail?

ASSUME FilesAssumption ==
  /\ ROOT \in Node /\ NULL \notin Node
  /\ Parent \in [Node -> Node] /\ Target \in [Node -> Node]
  /\ Kinds \in [Node -> SUBSET {"file", "dir", "link"}] /\ "dir" \in Kinds[ROOT]
  /\ MAX_LINKS \in Nat /\ MAX_DEPTH \in Nat /\ FIRST_CAPACITY \in Nat \ {0}
  /\ OUT_OF_MEMORY \in BOOLEAN

\* The nodes are finitely many, and form a tree: to go up from a node ends at ROOT, so that
\* no set of other nodes has all their directories in it.
ASSUME TreeAssumption ==
  /\ IsFiniteSet(Node)
  /\ \A S \in SUBSET (Node \ {ROOT}) : S # {} => \E n \in S : Parent[n] \notin S

\* An open directory: at, by way of the entry via; the entries readdir has returned, those
\* that have been there all the time, and those that have been there at some time.
Directory == [via : Node, at : Node, seen : SUBSET Node, must : SUBSET Node, may : SUBSET Node]

\* A listing under way: the array and its size.
Listing == [dir : Directory, slots : Seq(Node \cup {NULL}), capacity : Nat \ {0}]

ASSUME ListingAssumption == NULL \notin Listing

VARIABLES kind,      \* what each node is, "none" for nothing
          cwd,       \* the working directory, NULL once it has been removed
          stack,     \* the calls of the recursive deletion, the innermost first
          listing,   \* the listing under way, or NULL
          scope,     \* what the deletion's directory reaches, by way of links too
          obstacles, \* nodes the deletion could not, or not any more, delete
          result     \* what the last call returned

fs == <<kind, cwd>>
vars == <<fs, stack, listing, scope, obstacles, result>>

Exists(n) == kind[n] # "none"
EntriesOf(k, d) == {n \in Node \ {ROOT} : Parent[n] = d /\ k[n] # "none"}
Entries(d) == EntriesOf(kind, d)

\* Where a path ends when links are followed: a node, or NULL for a loop.
Follow(n) ==
  LET f[i \in 0 .. MAX_LINKS] ==
        IF i = 0 THEN n ELSE IF kind[f[i - 1]] = "link" THEN Target[f[i - 1]] ELSE f[i - 1]
  IN  IF kind[f[MAX_LINKS]] = "link" THEN NULL ELSE f[MAX_LINKS]
IsKind(n, what) == Follow(n) # NULL /\ kind[Follow(n)] = what

\* The nodes at or below a node, and what may be met from a set of nodes by way of links.
Up[m \in Node] == {m} \cup (IF m = ROOT THEN {} ELSE Up[Parent[m]])
Below(n) == {m \in Node : n \in Up[m]}
Reached(S, k) ==
  LET r[i \in 0 .. Cardinality(Node)] ==
        IF i = 0 THEN S
        ELSE LET b == UNION {Below(n) : n \in r[i - 1]}
             IN  b \cup {Target[l] : l \in {m \in b : k[m] = "link"}}
  IN  r[Cardinality(Node)]

\* A directory as opendir gives it, and as it changes while it is open.
Opened(via, at) == [via |-> via, at |-> at, seen |-> {}, must |-> Entries(at),
                    may |-> Entries(at)]
Sync(f, k) == [f EXCEPT !.must = @ \cap EntriesOf(k, f.at), !.may = @ \cup EntriesOf(k, f.at)]

\* The file system becomes k; open directories are told.
Change(k) ==
  /\ kind' = k
  /\ cwd' = IF cwd # NULL /\ k[cwd] # "dir" THEN NULL ELSE cwd
SyncStack(s, k) == [i \in DOMAIN s |-> Sync(s[i], k)]

Kept(n, ks) == [kind EXCEPT ![n] = ks]
Nothing == [op |-> "none", ret |-> 0]

Init == /\ kind \in {k \in [Node -> {"none", "file", "dir", "link"}] :
                       /\ \A n \in Node : k[n] \in Kinds[n] \cup {"none"}
                       /\ k[ROOT] = "dir"
                       /\ \A n \in Node : k[n] # "none" => k[Parent[n]] = "dir"}
        /\ cwd = ROOT
        /\ stack = <<>> /\ listing = NULL
        /\ scope = {} /\ obstacles = {}
        /\ result = Nothing

\* The caller looks at what a call returned, and goes on.
Idle == stack = <<>> /\ listing = NULL /\ result = Nothing
Forget == /\ result # Nothing
          /\ result' = Nothing
          /\ UNCHANGED <<kind, cwd, stack, listing, scope, obstacles>>
Returns(op, n, ret) == result' = [op |-> op, ret |-> ret, node |-> n]
Keeps == UNCHANGED <<stack, listing, scope, obstacles>>
-----------------------------------------------------------------------------
(* Another program *)

Other ==
  /\ result = Nothing
  /\ \E n \in Node \ {ROOT} :
    /\ kind[n] # "dir" /\ kind[Parent[n]] = "dir"
    /\ \E k \in (Kinds[n] \ {"dir"}) \cup {"none"} :
       /\ k # kind[n] /\ (k = "none" \/ kind[n] = "none")
       /\ Change(Kept(n, k))
       /\ stack' = SyncStack(stack, kind')
       /\ listing' = IF listing = NULL THEN NULL
                     ELSE [listing EXCEPT !.dir = Sync(@, kind')]
       /\ scope' = IF stack # <<>> /\ k = "link" THEN Reached(scope, kind') ELSE scope
       /\ obstacles' = IF stack # <<>> /\ k # "none" THEN obstacles \cup {n} ELSE obstacles
    /\ UNCHANGED result
-----------------------------------------------------------------------------
(* Calls that are one system call each *)

fossil_sys_call_create_file(n) ==
  /\ \/ /\ Follow(n) # NULL /\ ~Exists(Follow(n)) /\ kind[Parent[Follow(n)]] = "dir"
        /\ "file" \in Kinds[Follow(n)]
        /\ Change(Kept(Follow(n), "file"))
        /\ Returns("create_file", n, 0)
     \/ IsKind(n, "file") /\ Returns("create_file", n, 0) /\ UNCHANGED fs
     \/ Returns("create_file", n, -1) /\ UNCHANGED fs

fossil_sys_call_create_directory(n) ==
  \/ /\ ~Exists(n) /\ kind[Parent[n]] = "dir" /\ "dir" \in Kinds[n]
     /\ Change(Kept(n, "dir"))
     /\ Returns("create_directory", n, 0)
  \/ Returns("create_directory", n, -1) /\ UNCHANGED fs

\* rmdir: a directory that is none by way of a link, and empty.
Removable(n) == n # ROOT /\ kind[n] = "dir" /\ Entries(n) = {}
Rmdir(op, n) == \/ Removable(n) /\ Change(Kept(n, "none")) /\ Returns(op, n, 0)
                \/ Returns(op, n, -1) /\ UNCHANGED fs

\* remove is unlink for a file or a link, and rmdir for a directory.
fossil_sys_call_delete_file(n) ==
  \/ /\ kind[n] \in {"file", "link"}
     /\ Change(Kept(n, "none"))
     /\ Returns("delete_file", n, 0)
  \/ Rmdir("delete_file", n)

fossil_sys_call_chdir(n) ==
  IF IsKind(n, "dir") THEN kind' = kind /\ cwd' = Follow(n) /\ Returns("chdir", n, 0)
  ELSE UNCHANGED fs /\ Returns("chdir", n, -1)

\* getcwd fails for a directory that is gone, or for want of room.
fossil_sys_call_getcwd ==
  /\ (cwd # NULL /\ Returns("getcwd", cwd, 0)) \/ Returns("getcwd", NULL, -1)
  /\ UNCHANGED fs

Flag(b) == IF b THEN 1 ELSE 0
fossil_sys_call_file_exists(n) ==
  Returns("file_exists", n, Flag(Follow(n) # NULL /\ Exists(Follow(n)))) /\ UNCHANGED fs
fossil_sys_call_is_directory(n) == Returns("is_directory", n, Flag(IsKind(n, "dir"))) /\ UNCHANGED fs
fossil_sys_call_is_file(n) == Returns("is_file", n, Flag(IsKind(n, "file"))) /\ UNCHANGED fs

Simple ==
  /\ Idle
  /\ \/ \E n \in Node \ {ROOT} : \/ fossil_sys_call_create_file(n)
                                 \/ fossil_sys_call_create_directory(n)
                                 \/ fossil_sys_call_delete_file(n)
                                 \/ Rmdir("delete_directory", n)
     \/ \E n \in Node : \/ fossil_sys_call_chdir(n)
                        \/ fossil_sys_call_file_exists(n)
                        \/ fossil_sys_call_is_directory(n)
                        \/ fossil_sys_call_is_file(n)
     \/ fossil_sys_call_getcwd
  /\ Keeps
-----------------------------------------------------------------------------
(* fossil_sys_call_delete_directory with recursive set *)

Top == Head(stack)
Live == \A i \in DOMAIN stack : Follow(stack[i].via) = stack[i].at /\ kind[stack[i].at] = "dir"
Links == Cardinality({i \in DOMAIN stack : kind[stack[i].via] = "link"})

\* stat of an entry of the innermost directory; links are followed.
Stat(e) ==
  IF ~Live \/ ~Exists(e) \/ Follow(e) = NULL \/ (kind[e] = "link" /\ Links >= MAX_LINKS)
  THEN "none" ELSE kind[Follow(e)]

Hindered(nodes) == obstacles' = IF Links = 0 THEN obstacles \cup nodes ELSE obstacles

DeleteCall(d) ==
  /\ Idle
  /\ \/ /\ IsKind(d, "dir")
        /\ stack' = <<Opened(d, Follow(d))>>
        /\ scope' = Reached({d, Follow(d)}, kind)
        /\ UNCHANGED result
     \/ Returns("delete_directory", d, -1) /\ UNCHANGED <<stack, scope>>   \* opendir
  /\ UNCHANGED <<fs, listing, obstacles>>

\* readdir has returned the entry.
Seen(f, e) == [f EXCEPT !.seen = @ \cup {e}]
SeenTop(e) == [stack EXCEPT ![1] = Seen(@, e)]

\* A directory, or a link to one, is entered.
Enter(e) ==
  /\ Stat(e) = "dir" /\ Len(stack) < MAX_DEPTH
  /\ stack' = <<Opened(e, Follow(e))>> \o SeenTop(e)
  /\ IF kind[e] = "link" THEN Hindered({e}) ELSE UNCHANGED obstacles
  /\ UNCHANGED fs

\* Slips for the mutation runs: the file a link leads to deleted in place of the link, ...
UnlinkFollowed(e) ==
  /\ Stat(e) = "file"
  /\ Change(Kept(Follow(e), "none"))
  /\ stack' = SyncStack(SeenTop(e), kind')
  /\ UNCHANGED obstacles

\* A file, or a link to one, is unlinked.
Unlink(e) ==
  /\ Stat(e) = "file"
  /\ Change(Kept(e, "none"))
  /\ stack' = SyncStack(SeenTop(e), kind')
  /\ UNCHANGED obstacles

\* stat, opendir or unlink fails (or the path is cut at PATH_MAX), and the loop goes on.
Pass(e) ==
  /\ stack' = SeenTop(e)
  /\ IF Exists(e) THEN Hindered(Below(e)) ELSE UNCHANGED obstacles
  /\ UNCHANGED fs

\* ... and ".." not passed over.
ReadableDots(f) == f.may \cup {Parent[f.at]}

\* What readdir may return next.
Readable(f) == f.may

DeleteEntry ==
  /\ stack # <<>>
  /\ \E e \in Readable(Top) \ Top.seen : Enter(e) \/ Unlink(e) \/ Pass(e)
  /\ UNCHANGED <<listing, scope, result>>

\* The end of a directory: rmdir, whose result the outermost call alone returns.
DeleteEnd ==
  /\ stack # <<>> /\ Top.must \subseteq Top.seen
  /\ \E ret \in {0, -1} :
       /\ ret = 0 => Live /\ Removable(Top.via)
       /\ IF ret = 0 THEN Change(Kept(Top.via, "none")) ELSE UNCHANGED fs
       /\ stack' = SyncStack(Tail(stack), kind')
       /\ IF Len(stack) = 1
          THEN /\ Returns("delete_directory", Top.via, ret)
               /\ obstacles' = {} /\ scope' = {}
          ELSE /\ IF ret = -1 /\ Removable(Top.via) THEN Hindered({Top.via})
                                                    ELSE UNCHANGED obstacles
               /\ UNCHANGED <<scope, result>>
  /\ UNCHANGED listing
-----------------------------------------------------------------------------
(* fossil_sys_call_list_directory *)

ListReturns(ret, slots, capacity) ==
  /\ listing' = NULL
  /\ result' = [op |-> "list_directory", ret |-> ret, slots |-> slots, capacity |-> capacity]

ListCall(d) ==
  /\ Idle
  /\ \/ /\ IsKind(d, "dir")
        /\ listing' = [dir |-> Opened(d, Follow(d)), slots |-> <<>>, capacity |-> FIRST_CAPACITY]
        /\ UNCHANGED result
     \/ ListReturns(-1, <<>>, 0)          \* opendir or malloc fails: a null list
  /\ UNCHANGED <<fs, stack, scope, obstacles>>

\* ... a test that lets one entry too many into the array.
FullLate(slots, capacity) == Len(slots) > capacity

Full(slots, capacity) == Len(slots) >= capacity

\* An entry is copied into the array, which doubles when it is full.  A copy for which there
\* is no memory leaves a null pointer in its slot, which counts all the same.
ListEntry ==
  /\ listing # NULL
  /\ \E e \in listing.dir.may \ listing.dir.seen :
       LET full == Full(listing.slots, listing.capacity)
       IN  \/ \E copy \in {e} \cup (IF OUT_OF_MEMORY THEN {NULL} ELSE {}) :
                listing' = [listing EXCEPT !.dir = Seen(@, e), !.slots = Append(@, copy),
                                           !.capacity = IF full THEN 2 * @ ELSE @]
              /\ UNCHANGED result
           \/ /\ full /\ OUT_OF_MEMORY
              /\ ListReturns(-1, listing.slots, listing.capacity)
  /\ UNCHANGED <<fs, stack, scope, obstacles>>

ListEnd ==
  /\ listing # NULL /\ listing.dir.must \subseteq listing.dir.seen
  /\ ListReturns(0, listing.slots, listing.capacity)
  /\ UNCHANGED <<fs, stack, scope, obstacles>>
-----------------------------------------------------------------------------
Next == \/ Forget
        \/ Other
        \/ Simple
        \/ \E d \in Node \ {ROOT} : DeleteCall(d) \/ ListCall(d)
        \/ DeleteEntry \/ DeleteEnd
        \/ ListEntry \/ ListEnd
Spec == Init /\ [][Next]_vars
-----------------------------------------------------------------------------
Ends(s) == s # <<>> /\ s' = <<>>

\* A recursive deletion that returns 0 leaves nothing of the directory.  One that fails,
\* though it ignores what the deletions below return (syscall.c:234), has deleted every
\* file and directory but those in whose way something stood: a link to a directory or to
\* nothing, what the system refused, what another program put there meanwhile, and the
\* directories above these.
DeletesAll ==
  [][Ends(stack) =>
       LET left == {n \in Below(Top.via) : kind'[n] # "none"}
       IN  IF result'.ret = 0 THEN left = {}
           ELSE \A n \in left \ {Top.via} : Below(n) \cap obstacles # {}]_vars

\* A recursive deletion deletes nothing but what lies in its directory or in a directory
\* that a link in there leads to (stat follows links, syscall.c:230); what a link to a file
\* leads to counts as reached too, though only the link is deleted.
DeletionSteps == stack # <<>> /\ (Len(stack') # Len(stack) \/ Head(stack').seen # Top.seen)
OnlyReached ==
  [][DeletionSteps =>
       \A n \in Node : kind[n] # "none" /\ kind'[n] = "none" => n \in scope]_vars

\* A listing that returns 0 has every entry that was there all the time, but for those
\* whose slot is a null pointer; whatever it returns, each name is there once, was there
\* at some time, and lies in the array that the caller is given to free.
ListingRight ==
  [][listing # NULL /\ listing' = NULL =>
       LET slots == result'.slots
           names == {slots[i] : i \in DOMAIN slots} \ {NULL}
           nulls == {i \in DOMAIN slots : slots[i] = NULL}
       IN  /\ result'.ret = 0 =>
                Cardinality(listing.dir.must \ names) <= Cardinality(nulls)
           /\ names \subseteq listing.dir.may
           /\ Len(slots) = Cardinality(names) + Cardinality(nulls)
           /\ Len(slots) <= result'.capacity]_vars
=============================================================================
