----------------------------- MODULE FatFiles -----------------------------
(***************************************************************************)
(* Files of the root directory on a FAT12 volume: os/milton's fat12.c as   *)
(* fileio_fat.c and the Finder drive it.                                   *)
(*                                                                         *)
(* The whole FAT is cached in memory for as long as the volume is mounted; *)
(* the directory is read from the disk every time.  Calls do not overlap,  *)
(* so what a call does to the cache it does at once, and the sectors it    *)
(* writes stay in "job" as a list: the device takes them one by one, may   *)
(* refuse any of them, and the power may fail between any two.             *)
(*                                                                         *)
(* Sizes and offsets are counted in clusters, cluster 1 standing for       *)
(* cluster 2 of the disk; a FAT copy is written by one device call and     *)
(* changes as a whole.                                                     *)
(***************************************************************************)
EXTENDS FatChains, Sequences, FiniteSets, SequencesExt

CONSTANTS
  NumSlots,      \* directory slots of the root
  Names,         \* file names
  MaxLen,        \* bound: clusters of a file
  StaleHandles,  \* whether a program may still hold a file that is deleted
  Failing,       \* bound: the kinds of device write that may fail
  Aborted,       \* bound: those at which the user may answer Abort
  MaxFaults      \* bound: failing writes in one behaviour

Slots    == 1 .. NumSlots
Nobody   == "nobody"           \* zeroes, or bytes of no file
Kinds    == {"zero", "grow", "shrink", "free"}

ASSUME FatAssumption ==
  /\ NumSlots \in Nat \ {0} /\ MaxLen \in Nat
  /\ Nobody \notin Names /\ StaleHandles \in BOOLEAN
  /\ Failing \subseteq Kinds /\ Aborted \subseteq Kinds /\ MaxFaults \in Nat

VARIABLES
  fat,     \* the cached FAT (g_mount->fat)
  fats,    \* its two copies on the disk
  dir,     \* the root directory on the disk
  data,    \* whose bytes each cluster on the disk holds
  job,     \* the call under way and the device writes it has left
  stale,   \* <<slot, name>> of handles open on files since deleted
  faults,  \* writes that have failed so far
  tidy     \* each of them was one its call rolls back (history)

vars == <<fat, fats, dir, data, job, stale, faults, tidy>>

Entries == [name: Names \cup {Nobody}, live: BOOLEAN,
            start: {0} \cup Clusters, len: 0 .. MaxLen]

\* What fat12_find_free hands out, each search starting behind the last: found
\* in the first c clusters.
Findable(f, tail) ==
  LET found[c \in 0 .. NumClusters] ==
        IF c = 0 THEN <<>>
        ELSE IF f[c] = FREE /\ c > tail THEN Append(found[c - 1], c) ELSE found[c - 1]
  IN found[NumClusters]

\* The chain that ends in tail, or an empty one when tail is 0, grown by cs.
Linked(f, tail, cs) ==
  LET chain == (IF tail = 0 THEN <<>> ELSE <<tail>>) \o cs
      After(c) == LET i == CHOOSE i \in 1 .. Len(chain) : chain[i] = c
                  IN IF i = Len(chain) THEN EOC ELSE chain[i + 1]
  IN [c \in Clusters |-> IF c \in ToSet(chain) THEN After(c) ELSE f[c]]

\* A rollback that leaves the old tail pointing at the first freed cluster.
Unlinked_TailDangles(f, tail, cs) ==
  [c \in Clusters |-> IF c \in ToSet(cs) THEN FREE
                      ELSE IF c = tail /\ cs # <<>> THEN cs[1] ELSE f[c]]

\* The rollback of an extension: its clusters freed, the old tail the last.
Unlinked(f, tail, cs) ==
  [c \in Clusters |-> IF c \in ToSet(cs) THEN FREE
                      ELSE IF c = tail THEN EOC ELSE f[c]]

\* Freeing the tail of a chain as if it lay in consecutive clusters.
Shrunk_Consecutive(f, e, n) ==
  [c \in Clusters |-> IF c \in e.start + n .. e.start + e.len - 1 THEN FREE
                      ELSE IF n > 0 /\ c = Node(f, e.start, n - 1) THEN EOC
                      ELSE f[c]]

\* fat12_set_size: the first n clusters of e's chain stay, the rest is freed.
Shrunk(f, e, n) ==
  LET chain == {Node(f, e.start, k) : k \in 0 .. e.len - 1}
      kept  == {Node(f, e.start, k) : k \in 0 .. n - 1}
  IN [c \in Clusters |-> IF c \in chain \ kept THEN FREE
                         ELSE IF n > 0 /\ c = Node(f, e.start, n - 1) THEN EOC
                         ELSE f[c]]

\* Size and chain agree exactly.
Whole(f, e) ==
  IF e.len = 0 THEN e.start = 0
  ELSE /\ \A k \in 0 .. e.len - 1 : Node(f, e.start, k) \in Clusters
       /\ Node(f, e.start, e.len) = EOC

(***************************************************************************)
(* Device writes and the calls made of them.                               *)
(***************************************************************************)
ToFat(kind, f)      == <<[to |-> "fat", copy |-> 1, kind |-> kind, new |-> f],
                         [to |-> "fat", copy |-> 2, kind |-> kind, new |-> f]>>
ToDir(kind, s, e)   == <<[to |-> "dir", slot |-> s, kind |-> kind, new |-> e]>>

\* Clusters that are linked without being cleared.
ToData_NotCleared(kind, cs, n) ==
  IF kind = "zero" THEN <<>>
  ELSE [i \in 1 .. Len(cs) |-> [to |-> "data", at |-> cs[i], kind |-> kind, new |-> n]]

ToData(kind, cs, n) ==
  [i \in 1 .. Len(cs) |-> [to |-> "data", at |-> cs[i], kind |-> kind, new |-> n]]

Idle == [op |-> "none", slot |-> 0, todo |-> <<>>, safe |-> 0,
         back |-> EmptyFat, undo |-> <<>>, want |-> 0]

Ready == job.todo = <<>>

\* A call leaves "todo" to the device.  When one of its first "safe" writes
\* fails, the cache goes back to "back" and "undo" is written instead.
Call(op, s, cache, todo, safe, back, undo, want) ==
  /\ fat' = cache
  /\ job' = [op |-> op, slot |-> s, todo |-> todo, safe |-> safe,
             back |-> back, undo |-> undo, want |-> want]
  /\ UNCHANGED <<fats, dir, data, faults, tidy>>

NewEntry(n) == [name |-> n, live |-> TRUE, start |-> 0, len |-> 0]

Init ==
  /\ fat  = EmptyFat
  /\ fats = <<EmptyFat, EmptyFat>>
  /\ dir  = [s \in Slots |-> [name |-> Nobody, live |-> FALSE, start |-> 0, len |-> 0]]
  /\ data = [c \in Clusters |-> Nobody]
  /\ job  = Idle
  /\ stale = {}
  /\ faults = 0 /\ tidy = TRUE

\* fat12_scan_dir: the slot of a name, or the first that can be reused.
Holds(s, n)    == dir[s].live /\ dir[s].name = n
FirstFree(s)   == ~dir[s].live /\ \A t \in 1 .. s - 1 : dir[t].live

\* The writes that free a chain and then store e in slot s.
FreeThenStore(s, e) ==
  LET freed == Freed(fat, dir[s].start)
  IN Call("free", s, freed,
          (IF dir[s].start = 0 THEN <<>> ELSE ToFat("free", freed)) \o ToDir("free", s, e),
          0, EmptyFat, <<>>, 0)

\* fat12_create: a new file, or an old one truncated.
Create(n) ==
  /\ Ready
  /\ UNCHANGED stale
  /\ \/ \E s \in Slots : Holds(s, n) /\ FreeThenStore(s, NewEntry(n))
     \/ /\ ~\E s \in Slots : Holds(s, n)
        /\ \E s \in Slots :
             /\ FirstFree(s)
             /\ Call("create", s, fat, ToDir("grow", s, NewEntry(n)), 0, EmptyFat, <<>>, 0)

\* fat12_unlink.  The entry keeps its start and size.
Unlink(n) ==
  /\ Ready
  /\ \E s \in Slots :
       /\ Holds(s, n)
       /\ FreeThenStore(s, [dir[s] EXCEPT !.live = FALSE])
       /\ stale' \in {stale} \cup IF StaleHandles THEN {stale \cup {<<s, n>>}} ELSE {}

\* The last of the clusters that e's size occupies, 0 when there is none.
TailOf(e) == IF e.start = 0 \/ e.len = 0 THEN 0 ELSE Node(fat, e.start, e.len - 1)

\* The walk to the tail meets no end of chain and no unusable link.
WalksToTail(e) ==
  \A k \in 0 .. e.len - 2 : /\ Node(fat, e.start, k) \in Clusters
                            /\ Node(fat, e.start, k + 1) # EOC

\* The size of e after k clusters are written at off.
SizeAfter(e, off, k) == IF off + k > e.len THEN off + k ELSE e.len

\* The size on the disk before the table that backs it.
InOrder_EntryFirst(zeroes, table, bytes, entry) == zeroes \o entry \o table \o bytes

\* The order in which a write reaches the disk.
InOrder(zeroes, table, bytes, entry) == zeroes \o table \o bytes \o entry

\* fat12_write_partial: k clusters at offset off into the entry of slot s, on
\* behalf of a program that means the file n.
Write(s, n, off, k) ==
  LET e      == dir[s]
      tail   == TailOf(e)
      len    == SizeAfter(e, off, k)
      found  == Findable(fat, tail)
      full   == Len(found) < len - e.len
      cs     == IF full THEN found ELSE SubSeq(found, 1, len - e.len)
      undone == Unlinked(fat, tail, cs)
      cache  == IF cs = <<>> THEN fat ELSE Linked(fat, tail, cs)
      start  == IF tail = 0 /\ cs # <<>> THEN cs[1] ELSE e.start
      Spot(i) == Node(cache, start, off + i - 1)
      meets  == [i \in {j \in 1 .. k : Spot(j) \in Clusters} |-> Spot(i)]
      zeroes == ToData("zero", cs, Nobody)
      stored == [e EXCEPT !.start = start, !.len = len]
  IN /\ WalksToTail(e)
     /\ IF full
        THEN Call("full", s, undone, zeroes \o ToFat("grow", undone),
                  Len(cs), undone, ToFat("grow", undone), len - e.len)
        ELSE Call("write", s, cache,
                  InOrder(zeroes,
                          IF cs = <<>> THEN <<>> ELSE ToFat("grow", cache),
                          ToData("grow", meets, n),
                          IF Len(meets) = k THEN ToDir("grow", s, stored) ELSE <<>>),
                  Len(cs), undone, ToFat("grow", undone), len - e.len)

\* AH=40h through a handle on a live file, or on one deleted meanwhile.
WriteAt(off, k) ==
  /\ Ready
  /\ off + k <= MaxLen
  /\ \E s \in Slots, n \in Names :
       /\ Holds(s, n) \/ <<s, n>> \in stale
       /\ Write(s, n, off, k)
  /\ UNCHANGED stale

\* fat12_set_size, AH=40h with CX=0.
SetSize(s, n) ==
  /\ Ready
  /\ dir[s].live /\ Whole(fat, dir[s]) /\ n # dir[s].len
  /\ IF n > dir[s].len
     THEN Write(s, dir[s].name, n - 1, 1)
     ELSE LET cut == Shrunk(fat, dir[s], n)
              e   == [dir[s] EXCEPT !.len = n, !.start = IF n = 0 THEN 0 ELSE @]
          IN Call("shrink", s, cut, ToFat("shrink", cut) \o ToDir("shrink", s, e), 3,
                  fat, ToFat("shrink", fat) \o ToDir("shrink", s, dir[s]), 0)
  /\ UNCHANGED stale

\* The device takes the next sector of the call.
DeviceWrites ==
  LET w == Head(job.todo) IN
  /\ ~Ready
  /\ fats' = IF w.to = "fat"  THEN [fats EXCEPT ![w.copy] = w.new] ELSE fats
  /\ dir'  = IF w.to = "dir"  THEN [dir EXCEPT ![w.slot] = w.new] ELSE dir
  /\ data' = IF w.to = "data" THEN [data EXCEPT ![w.at] = w.new] ELSE data
  /\ job'  = IF Len(job.todo) = 1 THEN Idle
             ELSE [job EXCEPT !.todo = Tail(@), !.safe = IF @ = 0 THEN 0 ELSE @ - 1]
  /\ UNCHANGED <<fat, stale, faults, tidy>>

\* What is still written after a write of a rollback fails: fat12_flush_fats
\* gives up at its first copy, the directory entry is written all the same.
Remaining(todo) ==
  IF Head(todo).to = "fat" /\ Head(todo).copy = 1 THEN Tail(Tail(todo)) ELSE Tail(todo)

\* A failed call that leaves the table in memory as it had planned it.
CacheAfterFailure_Kept == fat

\* The cached table after a refused write.
CacheAfterFailure == IF job.safe > 0 THEN job.back ELSE fat

\* The device refuses it.
DeviceFails ==
  /\ ~Ready
  /\ faults < MaxFaults /\ faults' = faults + 1
  /\ tidy' = (tidy /\ job.safe > 0)
  /\ Head(job.todo).kind \in Failing
  /\ fat' = CacheAfterFailure
  /\ LET todo == IF job.safe > 0 THEN job.undo
                 ELSE IF job.op = "undo" THEN Remaining(job.todo) ELSE <<>>
     IN job' = IF todo = <<>> THEN Idle
               ELSE [Idle EXCEPT !.op = "undo", !.slot = job.slot, !.todo = todo]
  /\ UNCHANGED <<fats, dir, data, stale>>

\* The device refuses it and the user answers Abort (INT 24h): the program is
\* ended inside the call, which neither goes on nor takes anything back.  Retry
\* is a later DeviceWrites.
Abort ==
  /\ ~Ready
  /\ faults < MaxFaults /\ faults' = faults + 1
  /\ Head(job.todo).kind \in Aborted
  /\ job' = Idle
  /\ tidy' = FALSE
  /\ UNCHANGED <<fat, fats, dir, data, stale>>

Next ==
  \/ \E n \in Names : Create(n) \/ Unlink(n)
  \/ \E off, k \in 0 .. MaxLen : k > 0 /\ WriteAt(off, k)
  \/ \E s \in Slots, n \in 0 .. MaxLen : SetSize(s, n)
  \/ DeviceWrites \/ DeviceFails \/ Abort

Spec == Init /\ [][Next]_vars

-----------------------------------------------------------------------------

LiveSlots == {s \in Slots : dir[s].live}

\* The clusters of slot s when its links are those of f.
Extent(f, s) == {Node(f, dir[s].start, k) : k \in 0 .. dir[s].len - 1}

Disjoint(f) == \A s, t \in LiveSlots : s # t => Extent(f, s) \cap Extent(f, t) = {}

\* The cache, both copies, the directory and the data keep their types, what a
\* call sends to the device lies inside the volume, and stale handles exist
\* only where programs are allowed to keep them.
TypeOK ==
  /\ fat \in Fats /\ fats \in Fats \X Fats
  /\ dir \in [Slots -> Entries]
  /\ data \in [Clusters -> Names \cup {Nobody}]
  /\ job.op \in {"none", "create", "write", "full", "shrink", "free", "undo"}
  /\ \A i \in DOMAIN job.todo :
       LET w == job.todo[i]
       IN  \/ w.to = "fat" /\ w.copy \in 1 .. 2 /\ w.new \in Fats
           \/ w.to = "dir" /\ w.slot \in Slots /\ w.new \in Entries
           \/ w.to = "data" /\ w.at \in Clusters
  /\ stale \subseteq Slots \X Names /\ (stale # {} => StaleHandles)
  /\ faults \in 0 .. MaxFaults /\ tidy \in BOOLEAN

\* Between calls every file has exactly the chain its size needs, no two share
\* a cluster, every other cluster is free and both FAT copies are the cache's,
\* also after a full disk and after a write that failed was rolled back
\* (fat12.c: "allocate-then-commit").  A refused flush of an extended chain, and
\* a refused write of a roll-back, are not rolled back.
VolumeConsistent ==
  Ready /\ tidy =>
    /\ \A s \in LiveSlots : Whole(fat, dir[s])
    /\ Disjoint(fat)
    /\ Clusters \ FreeClusters(fat) = UNION {Extent(fat, s) : s \in LiveSlots}
    /\ fats = <<fat, fat>>

\* Whenever the power fails, no file of the volume that is mounted next
\* (fat12_read_fat takes copy 1) shows the bytes of another one, and no new
\* cluster shows what it held before.
NoForeignBytes ==
  \A s \in LiveSlots : \A c \in Extent(fats[1], s) \cap Clusters :
    data[c] \in {Nobody, dir[s].name}

\* Whenever the power fails, every file but the one being changed is found whole
\* and apart from the others, if no refused write was left as it was.
BystandersSurviveACut ==
  /\ tidy => \A s \in LiveSlots \ {job.slot} : Whole(fats[1], dir[s])
  /\ Disjoint(fats[1])

\* A write commits the FAT before the size (fat12_write_partial): whenever the
\* power fails, the file it was growing still has a cluster for all of its size,
\* if no refused write was left as it was.
GrowthSurvivesACut ==
  tidy /\ job.op \in {"write", "full"} =>
    \A k \in 0 .. dir[job.slot].len - 1 : Node(fats[1], dir[job.slot].start, k) \in Clusters

\* Whatever allocating and shrinking calls fail, and however often, the cache
\* has a cluster of its own for every cluster of every live file.
FailuresHarmNoFile ==
  Ready =>
    /\ \A s \in LiveSlots : Extent(fat, s) \subseteq Clusters
    /\ \A s \in LiveSlots : Cardinality(Extent(fat, s)) = dir[s].len
    /\ Disjoint(fat)

\* fat12.h: "full volume -> FAT12_ERR_NO_SPACE".  A write is refused for want
\* of space only if there are fewer free clusters than it needs.
FullMeansFull ==
  job.op = "full" => Cardinality(FreeClusters(job.back)) < job.want

\* fileio_fat.c: "Distinct files are fully independent".  A program that writes
\* to the file n changes no cluster of a file with another name.
DistinctFilesIndependent ==
  [][\A s \in LiveSlots, c \in Clusters :
       c \in Extent(fat, s) /\ data'[c] \notin {data[c], Nobody} =>
         data'[c] = dir[s].name]_vars

=============================================================================
