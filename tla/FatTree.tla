------------------------------ MODULE FatTree -------------------------------
(***************************************************************************)
(* Directories of a FAT12 volume: os/milton's fat12.c as the DOS calls     *)
(* (fileio_fat.c) and the Finder (finder_actions.c) drive it.              *)
(*                                                                         *)
(* A directory is known by the number of its first cluster, 0 for the      *)
(* root, and callers keep such numbers: a suspended program its current    *)
(* directory, a folder window the directory it shows.  As in FatFiles a    *)
(* call changes the cached FAT at once and leaves its sector writes in     *)
(* "job", where the device takes or refuses them one by one and the power  *)
(* may fail between any two.                                               *)
(*                                                                         *)
(* Files are empty here: what their clusters go through is FatFiles.  A    *)
(* cluster is one sector of ClusterSlots entries; timestamps are left out. *)
(***************************************************************************)
EXTENDS FatChains, Sequences, FiniteSets

CONSTANTS
  RootSlots,     \* entries of the root directory
  ClusterSlots,  \* entries of a directory cluster
  Names,
  Failing,       \* bound: the kinds of device write that may be refused
  MaxFaults,     \* bound: writes refused in one call
  StaleRenames   \* whether a name may be changed through a kept number

Root  == 0
Heads == {Root} \cup Clusters
NoName == "none"

\* What a refused write leaves: a call rolled back, a table on the disk behind
\* the one in memory, an entry that names a freed chain.
Kinds == {"step", "behind", "free"}

ASSUME TreeAssumption ==
  /\ NoName \notin Names
  /\ RootSlots \in Nat \ {0} /\ ClusterSlots \in Nat /\ ClusterSlots > 2
  /\ Failing \subseteq Kinds /\ MaxFaults \in Nat /\ StaleRenames \in BOOLEAN

VARIABLES
  fat,     \* the cached FAT (g_mount->fat)
  table,   \* the copy of it that a mount reads (fat12_read_fat), the first of two
  disk,    \* the entries in the root (0) and in each cluster
  job,     \* the call under way: the writes it has left, and its victim
  faults,  \* writes refused in this call
  harm,    \* what refused writes no rollback made good (history)
  entries  \* what the tree held when the last call ended (history)

vars == <<fat, table, disk, job, faults, harm, entries>>

End     == [kind |-> "end", name |-> NoName, start |-> 0]       \* 0x00
Deleted == [kind |-> "deleted", name |-> NoName, start |-> 0]   \* 0xE5
File(n)    == [kind |-> "file", name |-> n, start |-> 0]
Dir(n, c)  == [kind |-> "dir", name |-> n, start |-> c]
Dot(c)     == [kind |-> "dot", name |-> NoName, start |-> c]
DotDot(d)  == [kind |-> "dotdot", name |-> NoName, start |-> d]

Blank(n) == [i \in 1 .. n |-> End]

\* The sector of dot entries of a new directory (fat12_mkdir).
Dots(c, d) == [Blank(ClusterSlots) EXCEPT ![1] = Dot(c), ![2] = DotDot(d)]

-----------------------------------------------------------------------------
(* Reading a directory; D is the disk and f the FAT it is read with.        *)

\* The places of d's entries (fat12_subdir_slot_lba): a cluster of d's and an
\* index in it.
Slots(c)     == IF c = Root THEN RootSlots ELSE ClusterSlots
Area(f, d)   == IF d = Root THEN {Root} ELSE Visited(f, d)
Places(f, d) == UNION {{c} \X (1 .. Slots(c)) : c \in Area(f, d)}

\* p comes before q when their directory is scanned.
Precedes(f, p, q) ==
  \/ p[1] = q[1] /\ p[2] < q[2]
  \/ p[1] # q[1] /\ q[1] \in Visited(f, p[1])

At(D, p) == D[p[1]][p[2]]

\* A scan stops at the first entry never used (fat12_scan_sector).
Seen(D, f, d) ==
  LET ends == {p \in Places(f, d) : At(D, p).kind = "end"}
  IN {p \in Places(f, d) : \A q \in ends : ~Precedes(f, q, p)}

Live(D, f, d) == {p \in Seen(D, f, d) : At(D, p).kind \in {"file", "dir"}}

Matches(d, n) == {p \in Live(disk, fat, d) : At(disk, p).name = n}

\* The directories a walk from the root finds.
Kids(D, f, d) ==
  {At(D, p).start : p \in {q \in Live(D, f, d) : At(D, q).kind = "dir"}} \cap Clusters

Reached(D, f) ==
  LET upto[i \in 0 .. NumClusters] ==
        IF i = 0 THEN {Root}
        ELSE upto[i - 1] \cup UNION {Kids(D, f, d) : d \in upto[i - 1]}
  IN upto[NumClusters]

\* What the tree holds, as Folders sees it.
Contents(D, f) ==
  UNION {{[in |-> d, name |-> At(D, p).name, id |-> At(D, p).start] :
            p \in Live(D, f, d)} : d \in Reached(D, f)}

\* A number taken at its word.
LiveDir_Trusted(d) == d \in Heads

\* fat12_dir_guard: the root, or a used cluster that begins with dot entries
\* of which the first names it.
LiveDir(d) ==
  d # Root => fat[d] # FREE /\ disk[d][1] = Dot(d) /\ disk[d][2].kind = "dotdot"

-----------------------------------------------------------------------------
(* Writing.                                                                 *)

ToFat(f)     == <<[to |-> "fat", copy |-> 1, new |-> f],
                  [to |-> "fat", copy |-> 2]>>
ToSlot(p, e) == <<[to |-> "slot", at |-> p, new |-> e]>>
ToSector(c, s) == <<[to |-> "sector", at |-> c, new |-> s]>>

\* Writes of one kind; when one is refused the cache becomes "back" and "undo"
\* is written.
Steps(writes, kind, back, undo) ==
  [i \in DOMAIN writes |->
     [write |-> writes[i], kind |-> kind, back |-> back, undo |-> undo]]

Idle == [todo |-> <<>>, victim |-> Root]

Ready == job.todo = <<>>

\* "victim" is the directory a call removes.
Call(cache, todo, victim) ==
  /\ fat' = cache
  /\ job' = [todo |-> todo, victim |-> victim]
  /\ UNCHANGED <<table, disk, faults, harm, entries>>

\* fat12_find_free from the cluster behind c and, failing that, from the first.
FreeAfter(f, c) ==
  LET behind == {x \in FreeClusters(f) : x > c}
      from   == IF behind = {} THEN FreeClusters(f) ELSE behind
  IN CHOOSE x \in from : \A y \in from : x <= y

FreePlaces(d) == {p \in Places(fat, d) : At(disk, p).kind \in {"deleted", "end"}}

\* Room for one more entry in d: a free place or, below the root, the first of
\* a new cluster (fat12_grow_dir).
HasRoom(d) == FreePlaces(d) # {} \/ (d # Root /\ FreeClusters(fat) # {})

LastOf(f, d) == CHOOSE c \in Visited(f, d) : f[c] \notin Clusters

Room(d) ==
  IF FreePlaces(d) # {}
  THEN [grew |-> FALSE, fat |-> fat, steps |-> <<>>,
        at |-> CHOOSE p \in FreePlaces(d) : \A q \in FreePlaces(d) : ~Precedes(fat, q, p)]
  ELSE LET tail  == LastOf(fat, d)
           new   == FreeAfter(fat, tail)
           grown == [fat EXCEPT ![new] = EOC, ![tail] = new]
       IN [grew |-> TRUE, at |-> <<new, 1>>, fat |-> grown,
           steps |-> Steps(ToSector(new, Blank(ClusterSlots)), "step", fat, ToFat(fat))
                     \o Steps(ToFat(grown), "behind", grown, <<>>)]

\* fat12_shrink_dir_tail.
Shrink(room) == IF room.grew THEN ToFat(fat) ELSE <<>>

-----------------------------------------------------------------------------
(* The calls.                                                               *)

\* Directories have used every entry of the root and every cluster and been
\* removed, and their numbers are still kept somewhere.
Init ==
  /\ fat = EmptyFat /\ table = EmptyFat
  /\ disk = [c \in Heads |->
               IF c = Root THEN [k \in 1 .. RootSlots |-> Deleted]
               ELSE [Dots(c, c - 1) EXCEPT ![3] = IF c < NumClusters THEN Deleted ELSE End]]
  /\ job = Idle
  /\ faults = 0 /\ harm = {} /\ entries = {}

\* fat12_create of a new file.  Of an empty file it changes nothing.
Create(d, n) ==
  /\ Ready
  /\ LiveDir(d) /\ Matches(d, n) = {} /\ HasRoom(d)
  /\ LET r == Room(d)
     IN Call(r.fat, r.steps \o Steps(ToSlot(r.at, File(n)), "step", r.fat, <<>>), Root)

\* fat12_mkdir, with the parent grown in vain when that took the last cluster.
MkDir(d, n) ==
  /\ Ready
  /\ LiveDir(d) /\ Matches(d, n) = {} /\ HasRoom(d)
  /\ LET r    == Room(d)
         c    == FreeAfter(r.fat, 0)
         made == [r.fat EXCEPT ![c] = EOC]
     IN IF FreeClusters(r.fat) = {}
        THEN r.grew /\ Call(fat, r.steps \o Steps(ToFat(fat), "undo", fat, <<>>), Root)
        ELSE Call(made,
                  r.steps
                  \o Steps(ToFat(made), "step", fat, Shrink(r))
                  \o Steps(ToSector(c, Dots(c, d)) \o ToSlot(r.at, Dir(n, c)),
                           "step", fat, ToFat(r.fat) \o Shrink(r)),
                  Root)

\* fat12_unlink of a file.
Unlink(d, n) ==
  /\ Ready
  /\ LiveDir(d)
  /\ \E p \in Matches(d, n) :
       /\ At(disk, p).kind = "file"
       /\ Call(fat, Steps(ToSlot(p, Deleted), "step", fat, <<>>), Root)

\* fat12_rmdir.
RmDir(d, n) ==
  /\ Ready
  /\ LiveDir(d)
  /\ \E p \in Matches(d, n) :
       LET c     == At(disk, p).start
           freed == Freed(fat, c)
       IN /\ At(disk, p).kind = "dir"
          /\ Live(disk, fat, c) = {}
          /\ Call(freed, Steps(ToFat(freed) \o ToSlot(p, Deleted), "free", freed, <<>>), c)

\* fat12_rename.
Rename(d, old, new) ==
  /\ Ready
  /\ Matches(d, new) = {}
  /\ \E p \in Matches(d, old) :
       Call(fat, Steps(ToSlot(p, [At(disk, p) EXCEPT !.name = new]), "step", fat, <<>>), Root)

\* The directory d and those above it by their dot-dot entries.
Ancestors(d) ==
  LET up[i \in 0 .. NumClusters] ==
        IF i = 0 THEN d
        ELSE IF up[i - 1] = Root THEN Root ELSE disk[up[i - 1]][2].start
  IN {up[i] : i \in 0 .. NumClusters}

\* A check that looks no higher than the destination's parent.
InItself_OneLevel(e, d) == e.start \in {d, disk[d][2].start}

\* fat12_move_cycle_check.
InItself(e, d) == e.start \in Ancestors(d)

\* The old entry deleted before the new one is written.
MoveOrder_DeleteFirst(dots, written, deleted) == dots \o deleted \o written

MoveOrder(dots, written, deleted) == dots \o written \o deleted

\* The new entry left where it is when the old one cannot be deleted.
TakenBack_Left(p) == <<>>

TakenBack(p) == ToSlot(p, Deleted)

\* fat12_move_dirent: the entry "old" of directory s becomes "new" in d.
Move(s, old, d, new) ==
  /\ Ready
  /\ LiveDir(s) /\ LiveDir(d) /\ s # d
  /\ Matches(d, new) = {} /\ HasRoom(d)
  /\ \E p \in Matches(s, old) :
       LET e      == At(disk, p)
           isDir  == e.kind = "dir"
           DotsTo(x) == IF isDir THEN ToSlot(<<e.start, 2>>, DotDot(x)) ELSE <<>>
           r      == Room(d)
       IN /\ isDir => ~InItself(e, d)
          /\ Call(r.fat,
                  r.steps \o MoveOrder(
                    Steps(DotsTo(d), "step", fat, Shrink(r)),
                    Steps(ToSlot(r.at, [e EXCEPT !.name = new]), "step", fat,
                          DotsTo(s) \o Shrink(r)),
                    Steps(ToSlot(p, Deleted), "step", fat,
                          TakenBack(r.at) \o DotsTo(s) \o Shrink(r))),
                  Root)

-----------------------------------------------------------------------------

\* The end of a call.  A table written whole is no longer behind.
Settle(refused, harmed) ==
  LET over == job'.todo = <<>> IN
  /\ faults' = IF over THEN 0 ELSE faults + refused
  /\ harm' = harmed \ IF over /\ table' = fat' THEN {"behind"} ELSE {}
  /\ entries' = IF over /\ harm' \subseteq {"behind"} THEN Contents(disk', fat') ELSE entries

\* The device takes the next write.
DeviceWrites ==
  LET w == Head(job.todo).write IN
  /\ ~Ready
  /\ table' = IF w.to = "fat" /\ w.copy = 1 THEN w.new ELSE table
  /\ disk' = IF w.to = "slot" THEN [disk EXCEPT ![w.at[1]][w.at[2]] = w.new]
             ELSE IF w.to = "sector" THEN [disk EXCEPT ![w.at] = w.new]
             ELSE disk
  /\ job' = IF Len(job.todo) = 1 THEN Idle ELSE [job EXCEPT !.todo = Tail(@)]
  /\ UNCHANGED fat
  /\ Settle(0, harm)

\* A rollback goes on after a refused write, but a flush gives up
\* (fat12_flush_table).
GoOn(todo) ==
  IF Head(todo).write.to = "fat" /\ Head(todo).write.copy = 1
  THEN Tail(Tail(todo)) ELSE Tail(todo)

\* The device refuses it.
DeviceFails ==
  LET s    == Head(job.todo)
      rest == IF s.kind = "undo" THEN GoOn(job.todo) ELSE Steps(s.undo, "undo", s.back, <<>>)
  IN
  /\ ~Ready
  /\ faults < MaxFaults
  /\ s.kind \in Failing \cup {"undo"}
  /\ fat' = s.back
  /\ job' = IF rest = <<>> THEN Idle ELSE [job EXCEPT !.todo = rest]
  /\ UNCHANGED <<table, disk>>
  /\ Settle(1, harm \cup (IF s.kind = "undo" /\ s.write.to = "fat" THEN {"behind"}
                         ELSE {s.kind} \ {"step"}))

Next ==
  \/ \E d \in Heads, n \in Names : Create(d, n) \/ MkDir(d, n) \/ Unlink(d, n) \/ RmDir(d, n)
  \/ \E d \in Heads, o, n \in Names :
       Rename(d, o, n) /\ (StaleRenames \/ d \in Reached(disk, fat))
  \/ \E s, d \in Heads, o, n \in Names : Move(s, o, d, n)
  \/ DeviceWrites \/ DeviceFails

Spec == Init /\ [][Next]_vars

-----------------------------------------------------------------------------

\* The tree read from disk D with the FAT f: no two directories share a cluster,
\* every chain ends, no directory has two names.
Branches(D, f) ==
  LET R == Reached(D, f) \ {Root} IN
  /\ \A d \in R : \E c \in Visited(f, d) : f[c] = EOC
  /\ \A d, g \in R : d # g => Visited(f, d) \cap Visited(f, g) = {}
  /\ \A x, y \in Contents(D, f) : x.id = y.id /\ x.id # 0 => x = y

\* fat12_rename: "a rename never clobbers an existing entry".  No directory of the
\* tree has two entries of one name.
NoNameTwice ==
  Ready /\ harm \subseteq {"behind"} =>
    \A d \in Reached(disk, fat) : \A p, q \in Live(disk, fat, d) :
      At(disk, p).name = At(disk, q).name => p = q

\* Whatever calls were made through whatever numbers, and whatever failed and
\* was rolled back, the volume is a tree between calls: no name is used twice in
\* a directory, every directory has one name, in the directory that its dot-dot
\* entry names, and chains of its own, which use every cluster that is not free.
TreeSound ==
  /\ NoNameTwice
  /\ Ready /\ harm \subseteq {"behind"} =>
       LET R == Reached(disk, fat) \ {Root} IN
       /\ Branches(disk, fat)
       /\ \A x \in Contents(disk, fat) :
            x.id # 0 => disk[x.id][1] = Dot(x.id) /\ disk[x.id][2] = DotDot(x.in)
       /\ Clusters \ FreeClusters(fat) = UNION {Visited(fat, d) : d \in R}

\* Whenever the power fails, every directory the tree held when the call began
\* is still found from the root (fat12_read_fat takes copy 1), but for one that
\* was being removed, and no chain has lost its end or another's clusters.
NothingLostByACut ==
  harm = {} =>
    /\ {e.id : e \in entries} \ {0, job.victim} \subseteq Reached(disk, table)
    /\ \A d \in Reached(disk, table) \ {Root, job.victim} :
         /\ \E c \in Visited(table, d) : table[c] = EOC
         /\ disk[d][1] = Dot(d)

\* A call that fails leaves the tree as it found it (fat12_move_dirent: "the entry
\* would exist TWICE ... far worse than a failed move"), unless a write of its
\* rollback fails as well.
RefusedCallsChangeNothing ==
  [][/\ ~Ready /\ job'.todo = <<>> /\ harm' \subseteq {"behind"}
     /\ Head(job.todo).kind = "undo" \/ Len(job.todo) > 1
     => entries' = entries]_vars

Promise == INSTANCE Folders WITH Ids <- Clusters

\* Every call is one whole operation on the tree or none.
KeepsPromise == Promise!Spec

TypeOK ==
  /\ fat \in Fats /\ table \in Fats
  /\ faults \in 0 .. MaxFaults
  /\ harm \subseteq {"behind", "free", "undo"}

=============================================================================
