------------------------------- MODULE Ramfs --------------------------------
(***************************************************************************)
(* The names of kernel/mm/ramfs.c: the table of files, the hash chains     *)
(* that find a file by its path, directories inferred from the paths, the  *)
(* cache of one directory's entries, and the descriptors that keep a       *)
(* pointer to a slot of the table.  The system calls on them do not yield, *)
(* so each is one step.                                                    *)
(*                                                                         *)
(* A path is a sequence of components, as resolve_path() leaves it.        *)
(* Abstracted: what the files hold (RamfsFile), paths too long for the     *)
(* table, and the BusyBox applets, which are the same entries always.  A   *)
(* lookup that does not come to the end of a chain never returns: that     *)
(* call is not a step.                                                     *)
(***************************************************************************)
EXTENDS Naturals, Sequences, FiniteSets

CONSTANTS
    MaxFiles,    \* RAMFS_MAX_DYNAMIC_FILES, 8192 in the code
    Paths,       \* full normalised paths
    Buckets,     \* heads of the hash chains
    NameHash(_), \* name_hash()
    Dirs,        \* paths that getdents64 is called for
    DirCacheEntries, \* DIR_CACHE_ENTRIES, 1024 in the code
    Room,        \* entries that fit the buffer of one getdents64
    Handles,     \* open file descriptors, of whichever process
    SelfRename,  \* whether programs rename a file to its own name
    RemoveOpen,  \* whether programs unlink, or rename over, a file that is open
    NoPath,      \* the name of a free slot, which nothing reads
    Closed,      \* in the place of a path: the descriptor is not open,
    Deleted      \*   or its slot is free

ASSUME MaxFilesAssumption == MaxFiles \in Nat \ {0}
ASSUME HashAssumption == \A p \in Paths : NameHash(p) \in Buckets
ASSUME PathsAssumption == NoPath \notin Paths
ASSUME RoomAssumption == DirCacheEntries \in Nat /\ Room \in Nat
ASSUME RemoveOpenAssumption == RemoveOpen \in BOOLEAN
ASSUME MarksAssumption == Closed \notin Paths /\ Deleted \notin Paths /\ Closed # Deleted

VARIABLES
    used,       \* dynamic_files[i].used
    name,       \* dynamic_files[i].name
    hash,       \* dynamic_hash[b], an index plus one, or 0
    next,       \* dynamic_next[i], an index plus one, or 0
    high_water, \* dynamic_high_water
    cache,      \* dir_cache_valid, dir_cache_path and dir_cache_names
    fd,         \* fd[h].slot: the dynfile of an open descriptor
    dirfd       \* the open directory that is being read

tableVars == <<used, name, hash, next, high_water>>
vars == <<tableVars, cache, fd, dirfd>>

Slots == 0 .. MaxFiles - 1
Links == 0 .. MaxFiles

\* A descriptor's dynfile: a slot, whatever is in it by now.
ClosedFd == [open |-> FALSE, slot |-> 0]
Fd == [open : BOOLEAN, slot : Slots]

\* `pos' is without "." and "..".
ClosedDir == [open |-> FALSE, dir |-> <<>>, pos |-> 0]

TypeOK ==
    /\ used \in [Slots -> BOOLEAN]
    /\ name \in [Slots -> Paths \cup {NoPath}]
    /\ hash \in [Buckets -> Links]
    /\ next \in [Slots -> Links]
    /\ high_water \in 0 .. MaxFiles
    /\ cache.valid \in BOOLEAN /\ cache.dir \in Dirs \cup {<<>>}
    /\ Len(cache.names) <= DirCacheEntries
    /\ fd \in [Handles -> Fd]
    /\ dirfd.dir \in Dirs \cup {<<>>} /\ dirfd.pos \in Nat

Init ==
    /\ used = [i \in Slots |-> FALSE]
    /\ name = [i \in Slots |-> NoPath]
    /\ hash = [b \in Buckets |-> 0]
    /\ next = [i \in Slots |-> 0]
    /\ high_water = 0
    /\ cache = [valid |-> FALSE, dir |-> <<>>, names |-> <<>>]
    /\ fd = [h \in Handles |-> ClosedFd]
    /\ dirfd = ClosedDir

-----------------------------------------------------------------------------
(***************************************************************************)
(* Hash chains.  A chain table is a record of hash[] and next[].           *)
(***************************************************************************)
Chains == [hash |-> hash, next |-> next]

\* The links that a walk along the chain of bucket b goes through: the one
\* in hash[b], the one in next[] of the slot it leads to, and so on.
Walk(t, b) ==
    LET link[k \in 0 .. MaxFiles] ==
            IF k = 0 THEN t.hash[b]
            ELSE IF link[k - 1] = 0 THEN 0 ELSE t.next[link[k - 1] - 1]
    IN  link

\* The slots on the chain of bucket b.
OnChain(t, b) ==
    LET w == Walk(t, b) IN {w[k] - 1 : k \in {j \in DOMAIN w : w[j] # 0}}

\* The chain comes to its end: a walk that is longer than the table does not.
Ends(t, b) == Walk(t, b)[MaxFiles] = 0

\* hash_insert()
HashInsert(t, p, i) ==
    [hash |-> [t.hash EXCEPT ![NameHash(p)] = i + 1],
     next |-> [t.next EXCEPT ![i] = t.hash[NameHash(p)]]]

\* Mutant: only the head of a chain is looked at.
HashRemove_HeadOnly(t, p, i) ==
    IF t.hash[NameHash(p)] = i + 1
    THEN [t EXCEPT !.hash[NameHash(p)] = t.next[i]]
    ELSE t

\* The walk that takes slot i out of the chain of its name p: nothing is
\* changed if it is not there.
HashRemove(t, p, i) ==
    LET b == NameHash(p)
        before == {j \in OnChain(t, b) : t.next[j] = i + 1}
    IN  IF t.hash[b] = i + 1
        THEN [t EXCEPT !.hash[b] = t.next[i]]
        ELSE [t EXCEPT !.next = [j \in Slots |-> IF j \in before THEN t.next[i] ELSE @[j]]]

\* ramfs_dynamic_lookup() returns slot i.
Found(p, i) == used[i] /\ name[i] = p /\ i \in OnChain(Chains, NameHash(p))

\* ramfs_dynamic_lookup() returns 0.
Missing(p) == Ends(Chains, NameHash(p)) /\ \A i \in Slots : ~Found(p, i)

-----------------------------------------------------------------------------
(***************************************************************************)
(* Directories.                                                            *)
(***************************************************************************)
\* child_name(): the file at p is in dir or below.
Below(dir, p) == Len(p) > Len(dir) /\ SubSeq(p, 1, Len(dir)) = dir
ChildName(dir, p) == p[Len(dir) + 1]

\* ramfs_is_dir()
IsDir(dir) == dir = <<>> \/ \E i \in Slots : used[i] /\ Below(dir, name[i])

\* The slots that give dir its children: the first slot for each name.
ChildSlots(dir) ==
    LET S == {i \in Slots : i < high_water /\ used[i] /\ Below(dir, name[i])}
    IN  {i \in S : \A j \in S : j < i => ChildName(dir, name[j]) # ChildName(dir, name[i])}

\* The k-th slot of S, in the order of the table.
Nth(S, k) == CHOOSE i \in S : Cardinality({j \in S : j <= i}) = k

\* How many of n children the cache takes.
CacheCount(n) == IF n < DirCacheEntries THEN n ELSE DirCacheEntries

\* The entries of dir, as ramfs_dir_entry() puts them in the cache.
Children(dir) ==
    LET S == ChildSlots(dir)
    IN  [k \in 1 .. CacheCount(Cardinality(S)) |-> ChildName(dir, name[Nth(S, k)])]

\* dir_cache_valid = 0
Invalidate(c) == [c EXCEPT !.valid = FALSE]

-----------------------------------------------------------------------------
(***************************************************************************)
(* Operations on the table.                                                *)
(***************************************************************************)
\* The slot that ramfs_dynamic_open_or_create() takes for a new file.
IsFreeSlot(i) ==
    LET holes == {j \in Slots : j < high_water /\ ~used[j]}
    IN  IF holes # {} THEN i \in holes /\ \A j \in holes : i <= j
                      ELSE i = high_water /\ high_water < MaxFiles

\* ramfs_dynamic_open_or_create() of p, which ends up in slot i.
Creates(p, i) ==
    \/ /\ Found(p, i)
       /\ UNCHANGED <<tableVars, cache>>
    \/ /\ Missing(p) /\ IsFreeSlot(i)
       /\ used' = [used EXCEPT ![i] = TRUE]
       /\ name' = [name EXCEPT ![i] = p]
       /\ LET t == HashInsert(Chains, p, i) IN hash' = t.hash /\ next' = t.next
       /\ high_water' = IF i = high_water THEN i + 1 ELSE high_water
       /\ cache' = Invalidate(cache)

\* utimensat of a new path, or an openat(O_CREAT) that finds no descriptor.
Create(p) ==
    /\ \E i \in Slots : Creates(p, i)
    /\ UNCHANGED <<fd, dirfd>>

\* openat with O_CREAT, or of a file that is there.
Open(h, p) ==
    /\ ~fd[h].open
    /\ \E i \in Slots :
          /\ Creates(p, i)
          /\ fd' = [fd EXCEPT ![h] = [open |-> TRUE, slot |-> i]]
    /\ UNCHANGED dirfd

Close(h) ==
    /\ fd[h].open
    /\ fd' = [fd EXCEPT ![h] = ClosedFd]
    /\ UNCHANGED <<tableVars, cache, dirfd>>

\* No program removes a file that is open, if the programs are such.
MayGo(i) == RemoveOpen \/ \A h \in Handles : fd[h].open => fd[h].slot # i

\* The chains after ramfs_dynamic_unlink() of slot i, which holds p.
Unlinked(t, p, i) == [HashRemove(t, p, i) EXCEPT !.next[i] = 0]

\* The slot is free for the next file; descriptors keep their pointer to it.
Unlink(p) ==
    \E i \in Slots :
        /\ Found(p, i) /\ MayGo(i)
        /\ LET t == Unlinked(Chains, p, i) IN hash' = t.hash /\ next' = t.next
        /\ used' = [used EXCEPT ![i] = FALSE]
        /\ cache' = Invalidate(cache)
        /\ name' = [name EXCEPT ![i] = NoPath]
        /\ UNCHANGED <<high_water, fd, dirfd>>

\* Mutant: a file that has the new name stays.
Replaced_Not(t, q) == [chains |-> t, gone |-> {}]

\* ramfs_dynamic_unlink(new_path) inside a rename: the chains, and the slot.
Replaced(t, q) ==
    LET gone == {i \in Slots : Found(q, i)}
    IN  [chains |-> IF gone = {} THEN t ELSE Unlinked(t, q, CHOOSE i \in gone : TRUE),
         gone |-> gone]

\* ramfs_dynamic_rename(): the target is unlinked first, also if it is the
\* file itself.
Rename(p, q) ==
    LET r == Replaced(Chains, q) IN
    /\ SelfRename \/ p # q
    /\ \E i \in Slots :
          /\ Found(p, i) /\ \A j \in r.gone : MayGo(j)
          /\ r.gone # {} \/ Ends(Chains, NameHash(q))
          /\ LET t == HashInsert(HashRemove(r.chains, p, i), q, i)
             IN  hash' = t.hash /\ next' = t.next
          /\ name' = [j \in Slots |-> IF j = i THEN q
                                      ELSE IF j \in r.gone THEN NoPath ELSE name[j]]
          /\ used' = [j \in Slots |-> used[j] /\ j \notin r.gone]
    /\ cache' = Invalidate(cache)
    /\ UNCHANGED <<high_water, fd, dirfd>>

-----------------------------------------------------------------------------
(***************************************************************************)
(* Reading a directory.                                                    *)
(***************************************************************************)
OpenDir(dir) ==
    /\ ~dirfd.open
    /\ IsDir(dir)
    /\ dirfd' = [open |-> TRUE, dir |-> dir, pos |-> 0]
    /\ UNCHANGED <<tableVars, cache, fd>>

\* ramfs_dir_entry() fills the cache unless it has this directory.
Getdents ==
    LET n == cache'.names
        last == IF dirfd.pos + Room < Len(n) THEN dirfd.pos + Room ELSE Len(n)
    IN
    /\ dirfd.open
    /\ cache' = IF cache.valid /\ cache.dir = dirfd.dir
                THEN cache
                ELSE [valid |-> TRUE, dir |-> dirfd.dir, names |-> Children(dirfd.dir)]
    /\ dirfd' = [dirfd EXCEPT !.pos = IF last > @ THEN last ELSE @]
    /\ UNCHANGED <<tableVars, fd>>

CloseDir ==
    /\ dirfd.open
    /\ dirfd' = ClosedDir
    /\ UNCHANGED <<tableVars, cache, fd>>

Next ==
    \/ \E p \in Paths : Create(p) \/ Unlink(p) \/ \E h \in Handles : Open(h, p)
    \/ \E p, q \in Paths : Rename(p, q)
    \/ \E h \in Handles : Close(h)
    \/ \E dir \in Dirs : OpenDir(dir)
    \/ Getdents
    \/ CloseDir

Spec == Init /\ [][Next]_vars

-----------------------------------------------------------------------------
(***************************************************************************)
(* Correctness.                                                            *)
(***************************************************************************)
\* Every file is on the chain of its own name's bucket and on no other, and
\* a free slot is on none, through every reuse of slots and every rename.
ChainsExact ==
    \A b \in Buckets :
        /\ Ends(Chains, b)
        /\ OnChain(Chains, b) = {i \in Slots : used[i] /\ NameHash(name[i]) = b}

\* "Returns 0 if no dynamic file by that path currently exists" (the comment
\* on ramfs_dynamic_lookup()): a lookup comes to an end.
LookupReturns == \A b \in Buckets : Ends(Chains, b)

\* The cached entries are those the directory has now.
DirCacheFresh == cache.valid => cache.names = Children(cache.dir)

\* Every create, unlink and rename leaves the chains exact and the directory
\* cache empty or up to date (hash_insert(), ramfs_dynamic_unlink(),
\* ramfs_dir_entry()).
TableOK == TypeOK /\ ChainsExact /\ DirCacheFresh

\* "a genuinely fresh, writable file every time, not a silent reopen of
\* something else" (the comment on O_CREAT in openat_core()): a file that is
\* made is not one that an older descriptor has open.  The code does not keep
\* it: the slot of an unlinked file is taken for the next one while it is
\* open, and the old descriptor reads and writes the new file.
FreshFileUnshared ==
    [][\A h \in Handles : fd[h].open /\ fd'[h] = fd[h] /\ ~used[fd[h].slot]
                           => ~used'[fd[h].slot]]_vars

\* The table and its chains are a set of paths.  A descriptor has the file
\* open that is in its slot, and follows it through renames; if programs
\* remove open files, and only then, one whose file is gone comes to have the
\* next file open that takes the slot.
FS == INSTANCE Namespace WITH
        exists <- {name[i] : i \in {j \in Slots : Found(name[j], j)}},
        refers <- [h \in Handles |-> IF ~fd[h].open THEN Closed
                                     ELSE IF used[fd[h].slot] THEN name[fd[h].slot] ELSE Deleted],
        Reuse <- RemoveOpen
IsNamespace == FS!Spec
=============================================================================
