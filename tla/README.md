# InitechOS in TLA+

InitechOS is a single-user 32-bit operating environment: MILTON, a DOS-like
kernel with a FAT file system, EXEC and TSRs; FLAIR, a cooperative graphical
desktop on top of it; and applications (SAMIR, a dBASE; iWord; i123; a Pascal
compiler). It runs on one CPU, and nothing in it is preemptive except interrupt
handlers. What makes it hard to get right is therefore not threads but

* interrupt handlers that fall between any two instructions of the pump,
* hand-overs of one device between two owners (the keyboard, the screen),
* long legal sequences of DOS calls over shared tables (handles, memory, the
  cached FAT), with programs nested in programs and programs that stay behind,
* disk writes that are refused one at a time, and power that fails between two.

This directory models those parts of it. Section 1 is the inventory, 2 the
modules, 3 the runs, 4 the proofs, 5 what the models found, 6 what is left.
Source paths are below `os/` unless they say otherwise.

## 1. Inventory

### Parts that are modelled

| part | state it keeps | operations | talks to | correct when |
|---|---|---|---|---|
| Handle tables, `milton/sft.c` | the SFT (binding and count of each slot), a JFT in every PSP | OPEN/CREAT, DUP, DUP2, CLOSE; inherit at EXEC, close at exit | `int21.c` calls it, `psp.c` lays the JFT down, `loader.c` nests programs | a slot's count is the number of handles on it; no handle changes under its owner |
| Memory arena, `milton/mcb.c` | a chain of headers inside the memory it manages | allocate, free, resize, free by owner, keep | `int21.c` AH=48h/49h/4Ah/31h, the loader | the chain tiles the arena, free neighbours are joined, a request fails only when it must, nobody's block is touched for another |
| Programs, `milton/loader.c`, `milton/int21.c` | the EXEC nesting, where the arena begins, the highest resident paragraph | load first/nested/native, terminate, stay resident | arena, handle tables | a waiting parent finds its memory as it was; residents are never overwritten |
| FAT volume: files, `milton/fat12.c`, `milton/fileio_fat.c` | one cached FAT, two copies of it on the disk, directory slots, clusters | create, write with holes, set size, unlink | `int21.c` and the Finder call it; it calls the block device | each file has exactly its chain, chains are disjoint, no other bytes are seen, also after a refused write or a power cut |
| FAT volume: directories, the same files | the FAT, the sectors of every directory, directory numbers that programs and windows keep | create, unlink, mkdir, rmdir, rename, move; growing a directory and taking the growth back | `int21.c` and the Finder, through numbers that may be out of date | the volume is a tree; a call does one whole thing or nothing; no power cut loses a directory |
| Windows, `flair/window.c` | the window list, frames, hilite flags, update regions | new, dispose, select, move, size, zoom, roll up | `process.c` and the pump call it; the compositor reads its regions | every wrong pixel is owed by the update region that will repaint it |
| Applications on the desktop, `flair/process.c`, the gestures in `milton/kmain.c` | the process list, its head the foreground; who was told it is active | click routing, drag, resize, close, open, launch, end | windows, the Finder, applications through the toolbox gate | the foreground alone looks and was told it is active, its windows are in front together, the screen is repainted |
| SAMIR's indexes, `samir/fs/ndx.c`, `samir/cmd/mutate.c`, `nav.c` | a file of pages that is a B+-tree, beside a table; the record order once read out of it | index on, append, append from, replace, pack, zap, reindex, set index, navigate, seek | the table's commands change the open index too (ZAP does not); a rebuild navigates, and navigation reads the index | a search finds what is filed after any sequence of splits and unhookings, and the index files what the table has, but after a ZAP or a rebuild that failed |
| Command interpreter, `milton/command.c` | its handles, frames of batch files sharing one buffer, the list of FOR items, the ^C latch | lines with pipes and redirection, IF, FOR, GOTO, CALL, COMMAND /C, EXIT | DOS calls, which may take a ^C; it runs programs | whatever happens, what a line redirected or created is undone, and a batch goes on with its own text |
| Raw event ring, `flair/event.c` | 64 records, two free-running counters | post (interrupts), drain (pump) | keyboard and mouse handlers; the pump | it is a bounded queue |
| Event pump, `flair/event.c` with `milton/mouse.c`, hooks in `milton/kmain.c` | tick counter, button and modifier bits | WaitNextEvent, GetNextEvent | ring, PIT, applications | calls return in time, the button is the mouse's, long moves do not click early |
| Keyboard, `milton/kbd.c`, launch and resume in `milton/kmain.c` | IRQ1's decoder, the DOS ring, the owner, the raw ring, the desktop's snapshot of what it has consumed | IRQ1, pump, launch a text program, read, resume | pump, INT 21h/16h | a DOS program reads what was typed for it and nothing else; no modifier sticks |

### Parts that are not

FLAIR's heap (`heap.c`), the toolbox gate's budgets (`tbxgate.c`), regions
(`atkinson/region.c`), refused reads and printers (`devices.c`), CONFIG.SYS
(`config_sys.c`), CHKDSK and SAMIR's several indexes and crash windows are
candidates, in the order of section 6.

Boot code, interrupt plumbing, port I/O drivers, drawing, the compilers and the
applications are left out: straight-line code, device registers, pixels, or
programs whose correctness is about a language. `PROJECT.json` lists each with
its reason, and lists the hazards of the code with the property that covers
each or why none does.

## 2. Modules

| module | models | composes |
|---|---|---|
| `Handles` | `sft.c`, the handle services, the JFT at EXEC, exit and KEEP | |
| `Arena` | `mcb.c` | implements `Grants` |
| `Grants` | what the memory services promise | abstract |
| `Programs` | `loader.c` and the memory and ending services of `int21.c` | extends `Arena` |
| `RawQueue` | what the raw ring promises | abstract |
| `EventRing` | the ring, access by access | implements `RawQueue` |
| `EventPump` | pump, PIT, keyboard and mouse handlers | extends `RawQueue` |
| `InputHandoff` | the keyboard between desktop and DOS | |
| `FatChains` | the FAT and the chains in it | |
| `FatFiles` | files: `fat12.c` behind `fileio_fat.c`, device and power | extends `FatChains` |
| `FatTree` | directories: the same code, device and power | extends `FatChains`, implements `Folders` |
| `Folders` | a tree of named folders | abstract |
| `WindowManager` | `window.c` | |
| `Desktop` | `process.c`, the gestures of the pump, the Finder's windows, launch and end of an application | extends `WindowManager` |
| `NdxTree` | `ndx.c` | |
| `IndexedTable` | the table commands of `mutate.c` with one open index | extends `NdxTree` |
| `Shell` | `command.c`: redirection, pipelines, control commands, batch files | |
| `HandlesProofs`, `EventPumpProofs`, `FatFilesProofs`, `FatTreeProofs`, `DesktopProofs`, `ShellProofs` | theorems about the module each is named for | extend it |
| `InputProofs` | theorems about `EventRing` and `InputHandoff` | extends both |
| `MemoryProofs` | theorems about `Arena` and `Programs` | extends `Programs` |
| `MCHandles`, `MCArena`, `MCEventPump`, `MCFatFiles`, `MCFatTree`, `MCDesktop`, `MCIndexedTable`, `MCShell` | values of constants for TLC | |

`FatFiles` and `FatTree` are two views of one volume. In the first the root holds
files with data and there are no subdirectories; in the second the files are
empty and the directories have clusters. They share the chains, and both queue a
call's sector writes the same way; a product of the two would be out of TLC's
reach and would relate nothing new, because the code allocates for both by the
same scan.

### Handles

`sft` and `jft` are the tables, `stack` the chain of running programs (its last
element is `g_cur_psp`), `resident` those that ended with AH=31h. `Open`, `Dup`,
`Dup2`, `Close`, `Exec`, `Terminate` and `Keep` are the services. The code
answers a handle on a freed slot with a trap; `panic` records it. Data moved
through handles, attributes and file positions are not state here. `MaxExecs`
bounds the programs of one behaviour.

### Arena and Programs

`chain` maps the paragraph of every header to its owner, size and last mark, so
that the walk of the code is the function itself; a chain whose links do not
tile is a chain that fails `Intact`. A chain a program has scribbled over, which
the code detects and stops at, is not modelled. `Programs` puts the arena under
an EXEC stack. A program is named by the paragraph of its PSP, as in the code,
because ownership is by that number: a program freed and another loaded at the
same place have the same owner id. `from` is where the arena begins, `tsr_top`
the top of the residents. AH=4Ah may shrink a program's own block to nothing, as
the code lets it: the block, not the image in it, is what the properties speak of. A running program that frees the very block it lies
in runs on in memory that is nobody's; `ServeFree` leaves that call out.

### EventRing, RawQueue and EventPump

In `EventRing` each load, each copied word and the publication of the tail are
steps, and a post may fall between any two; a post itself is one step because
interrupt gates do not nest. `EventPump` then uses the promise `RawQueue` and
splits the pump at the points where an interrupt changes the outcome: drain,
emptiness test, clock test, hlt. `waited`, `late`, `posts`, `stale` and `last`
are history: no guard of the code's own steps reads them. A mouse packet is
posted as one or two records, where the code can need three; the third differs
from the second in nothing that is modelled.

### InputHandoff

The same scancodes are decoded by IRQ1 (`isr`), by the pump (`consumed`), and by
the replay at launch. Ctrl stands for all modifiers and has a plain left and an
E0-prefixed right key, so that losing a prefix, releasing the wrong side and
dropping a release all show. `raw` carries with each byte what it meant when it
was typed, which only the properties read. Launch and resume are single steps
because `kmain.c` masks interrupts around them.

### FatFiles

A call changes the cached FAT at once and queues its sectors in `job`;
`DeviceWrites` takes one, `DeviceFails` refuses one and runs the roll-back the
code has for that point (`back`, `undo`, while fewer than `safe` writes are done).
There is no action for a power cut: `fats`, `dir` and `data` are what the disk
holds, so an invariant over them holds whenever the power fails. Sizes are
counted in clusters. `stamp_entry`'s second write of the directory entry is left
out, since it changes only a time. Walks over the chain are the function `Node`,
which stays where the chain leaves the data area, so that damaged chains have a
meaning. Refused writes of the kind `free` are left out of `Failing`: there the
code has already given the chain away on the disk, and the next allocation shares
it; the power may still fail there. At each refused write INT 24h asks the user:
Retry is a later `DeviceWrites` (its limit is `DeviceFails`), Fail is
`DeviceFails`, and `Abort` ends the program in the middle of the call, roll-back
and all. The kinds at which the user may answer so are `Aborted`: those of a file
that grows. In `FatTree` nobody answers Abort.

### FatTree

`fat` is the cached table, `table` the one on the disk, `disk` the sectors of the
root and of every cluster, `job` what the running call still has to write. Only
copy 1 of the FAT is kept: the mount reads no other. One cluster is one sector of
`ClusterSlots` entries, two of them the dot entries. `Init` is a volume on which
every entry and every cluster has been a directory before and was removed, and
whose numbers somebody still has (`int21_cwd_save` around an EXEC, a folder
window): any call may be made through any number in `Heads`, and the model's
guard `LiveDir` is the code's `fat12_dir_guard`. `fat12_rename` has no such guard;
`StaleRenames` says whether names are also changed through an outdated number,
and is FALSE where the tree is to stay one.

`Failing` sorts refused writes by what they leave. A "step" is rolled back; after
"behind" the table on the disk is older than the one in memory until the next
whole flush (`fat12_grow_dir`, `fat12.c:1857`, keeps the cluster it linked); "free"
is left out, as above. At most `MaxFaults` writes are refused in one call. A
directory created after a refused growth and cut before the next flush can be
lost; `NothingLostByACut` therefore speaks of what the tree held when the call began,
read with a table that is not behind. Left out because they change nothing here:
timestamps, `stamp_entry`, creating over an empty file, `fat12_hide_dir`.

`Folders` is the promise: a set of entries with an identity each, changed by one
whole operation at a time; a folder is not moved below itself (`Above`). `entries`
is the tree read back from the disk when a call ends, so the refinement says that
no call, refused or not, ends between two operations. The view `WithoutGarbage`
merges states that differ only in what a free cluster holds. Every call but a
rename through an outdated number looks first whether the cluster is in use, so no
guard can tell such states apart.

### WindowManager and Desktop

A window manager state is a record, and each routine of `window.c` an operator on
it, because one gesture runs several of them in one go. The screen is a row of
pixels: regions are sets of them, a frame is an interval, the title bar its left
end, rolled up it is the title alone. `Desktop` adds what is painted (`screen`,
with the window, the active look, and whether the owner drew the content), the
process list and `told`. One gesture is one step: the pump takes no second event
before it has dispatched the first, tracked its drag and repainted.

Hidden windows take part in nothing and are not in the list. An application may
open further windows while it handles an event, which it gets only in the
foreground. Modal dialogs, menus, scroll bars, icons and the close box of an
application that asks before it closes are not modelled; their damage goes
through the same routines. `NewWindow` relies, as the code does, on its callers
handing it a zeroed record. A window dragged while it is rolled up and then
unrolled goes back to the frame it had before (`CollapseWindow`): odd, but
consistent, and modelled as it is.

### NdxTree and IndexedTable

The file is the sequence of its pages; each operation is the file after it. A
descent is a path of pages and children taken, the separator of a child being the
highest pair below it, the last child having none. `Inserted`, `Deleted` and
`Built` are `ndx_insert_key`, `ndx_delete_key` and `ndx_build_ex` with their
splits, carries, propagated separators and unhookings.

`IndexedTable` runs the commands one after the other; a record is its key. What
makes them interact is `view`, the area's way to the index. Navigation reads the
record order out of the index once ("known"); APPEND BLANK, PACK and ZAP drop it
("reset") and the next navigation reads it again. A rebuild, in PACK, REINDEX and
APPEND FROM, closes the file and then goes to every record for its key: with a
known order that works, after a reset the order is looked for in the file that
was just closed, the command ends in an error, and the file stays as it was, and
"closed", until SET INDEX opens it again. `behind` says that a command has changed
the table and not the index: a ZAP, which never touches an open index, or a change
made or a renumbering done while the file is closed. `missing` is an index fault: it
ends a REPLACE after the record was written. The table's own file is taken to be
written without fault, so a rebuild fails for no other reason.

A REPLACE that does not navigate changes the current record, which is the last
one after APPEND BLANK and the first after PACK; the model allows both after
either. Deletion marks are abstracted: PACK drops a record the model picks, and
dropping several is dropping one after the other. Several open indexes, FILTER,
and faults of the file system are left out.

### Shell

The interpreter is recursive C: a line runs a pipeline, a pipeline a redirected
command, a command a FOR, a FOR a CALL, a CALL a batch file, a batch file lines.
`stack` holds the frames of those calls, and a step begins, goes on with or ends
the topmost. A `scope` is one redirected handle, from its OPEN or CREAT over DUP
and DUP2 (`pc`) to the DUP2 and the two CLOSEs that undo it. `jft` is the handle
table of the interpreter, which runs out. That the system has no slot left
(FILES=, `sft.c:145`, which residents and their open files share) and that the disk
has no room for a new file are choices: any OPEN or CREAT may be refused, those
that look for a batch file as well. `buf` is the one buffer all
batch files are read into, `names` the one list of all FORs, `batch` the frame
GOTO and CALL look at. `left` stands for the comparison of branch counts by which
a FOR notices that its batch jumped or was ended.

`latched` is the ^C latch. A command may set it, the loop of a batch asks about
it, and while it is set no further ^C is taken. With `StrayBreaks`, a ^C also
meets the DOS calls of a scope or of the deletion of a pipe's files; such a call
is not served and answers its own number with the carry as it was, which the shell
takes for handle 0. Left out of that: the CLOSEs of a set-up that failed, the
loading of a batch file, and a CREATE NEW other than the last one tried. A
consumer whose feed is refused, with the file there, runs on the
keyboard without a word (`deaf`); a producer whose output the disk did not hold
ends the pipeline early (`EndPipe`).

A reload after CALL (`Reloaded`) finds the caller's file: the handle and the slot
it takes were free when the callee was looked for. That holds while the path
still names the file and no program CALLed stays resident with files open. Neither
case is modelled: a batch named by a relative path (`CALL SUB\B`) is kept under that
path (`command.c:1319`), so after a CD in it, or in what it CALLs, the reload
(`command.c:4789`) fails, which ends the batch without a message, or reads the file
of that name in the new directory. No batch of the runs changes the directory.
The first interpreter is permanent
(`kmain.c:8110`), so EXIT has an effect below COMMAND /C only. Parameters and
SHIFT, ECHO, PAUSE, variables, ERRORLEVEL and AUTOEXEC.BAT are not modelled.

## 3. Runs

Each run finishes in at most three minutes on two cores.

| run | question | bounds, and why they are enough |
|---|---|---|
| `handles` | counts stay honest and handles keep their file, over every sequence of the services | three programs (two interchangeable), two files, one console slot and two file slots, three handles, nesting two deep: sharing between parent, child and resident needs no more, and slots and handles both run out |
| `handles_devices` | do resident slots survive redirection in a child? (they do not) | four handles, two of them standard |
| `arena` | chain intact, joined, exact; implements `Grants` | six paragraphs: three minimal blocks with headers, so that a block has neighbours on both sides; two owners |
| `programs` | parents' and residents' memory survives every nesting and ending | eight paragraphs, nesting three deep; the smallest program is one paragraph, so three programs in one another with a data block, or a resident, a parent, a child and a data block, fit at once |
| `event_ring` | implements `RawQueue` | two slots, counters modulo four: both wrap, full and empty both occur at every offset; records of two words show tearing |
| `event_pump` | returns, in time; button; clicks | two records, five ticks to the wrap, sleeps 0 and 2: a call crosses the wrap and the deadline wraps in some and not in others |
| `input_handoff` | DOS reads what was typed; desktop keys stay; modifiers right | both rings hold three entries, so a pair does not fit beside two characters, and a chord, its release and a key do |
| `fat_files` | volume and disk consistent at every moment; no refused write gives a live file's cluster away | three clusters, two files of up to three: chains interleave, run backwards and fill the volume; any two refused writes of growing and shrinking calls and of their roll-backs, with Abort answered in the growing ones |
| `fat_tree` | is the volume a tree, does no cut lose a directory, is each call one operation of `Folders` or none | three clusters, two root entries, one free entry in each directory cluster: directories grow, fill up, nest three deep, run out, and a removed one's number is reused as a directory and as the tail of one; one refused write per call, so that every roll-back runs once |
| `desktop` | damage owed, look and activation right, groups in front | five pixels, one under the menu bar; two frames that overlap in part; three applications, one with two windows of its own and one with two folders; four windows at a time; boxes work on the hilited window alone, as `FindWindow` has it |
| `shell` | is everything a line set up undone and does each line end, on every path; do batch and FOR keep their own text | eleven handles: two stages inside two batches still get theirs, three do not; batches three deep, bodies four, seven FOR items: each runs out; two batches that CALL each other in pipes, redirection and FOR, a third with EXIT in COMMAND /C; ^C at any command and any line |
| `indexed_table` | tree sound, index and table agree, a search finds what is there | two pairs to a page, so that five to seven pages have three levels; two keys, so that runs of equal keys fill several leaves; at most seven pages; while the index is closed or behind, records and pages together at most six (`MaxLeft`), which leaves a rebuild, a SET INDEX and a few changes |

Every property has a mutant: a definition such as `Shrunk_Consecutive`
or `Expired_TickWrap` is the same operator with a plausible bug in it; putting
it in place of the right one makes TLC report the property. One is a
mutant the source keeps for its own tests (`EVENT_MUT_TICK_WRAP`).

**Fairness.** `EventPump` and `Shell` have liveness. In `Shell` it is `WF(Next)`:
the interpreter goes on with the topmost call, programs it runs return, and users
answer the question and type; its lines jump forwards only. In the pump, `WF(Pump)`: whenever no interrupt
runs the CPU executes the pump, so a step of it that stays possible is taken.
`WF(TickIRQ)`: the PIT never stops. Nothing is assumed of keyboard or mouse.
Two assumptions bound how interrupts and the pump interleave: `Slack`, the pump
tests its clock at least once in so many ticks while it is not halted (it needs
microseconds, a tick is 10 ms), and `Burst`, only so many posts arrive between
two ticks (a PS/2 port is slow against the drain). Without `Burst` a source
could hold off a time-out for ever, as the code tests the clock only when the
ring is empty. `NullOnTime` gives the exact cost of the wake-up lost between the
test and `hlt`: a null event comes at most `2 * Slack` ticks late, and TLC
refutes a smaller bound.

**Deadlock** is checked except in `Handles`, `Arena`, `Programs` and
`IndexedTable`. There the system may stop: after a trap, when the bound on
programs is reached, where a refused request is a step that changes nothing and
is not modelled as one (`Arena`, `Programs`), or when the bound on pages, which
are never reused, leaves no command (`IndexedTable`).

**Type invariants.** `handles` checks one, and it is proved. The other modules that
state one checked it while they were written (the actions choose from sets that
make it nearly obvious), and their runs leave it out; `Arena`'s is `ChainIntact`,
and `NdxTree`'s pages are the subject of `TreeSound`.

## 4. Proofs

TLAPS proves the following for every value of the constants that the named
assumptions of the modules admit.

| module | theorem | states |
|---|---|---|
| `HandlesProofs` | `TypeCorrect` | `[]TypeOK` |
| | `FileRefsAreHonest` | `[]FileRefsHonest`: a file slot's count is the number of handles on it |
| | `HandlesKeepTheirObjects` | `HandleKeepsItsObject`: no step rebinds the slot under a handle it leaves alone |
| `MemoryProofs` | `ChainStaysIntact`, `NoPairIsLeft` | `[]ChainIntact`, `[]NoFreePair` |
| | `NothingRefusedInVain` | `[]RefusedOnlyWhenFull` |
| | `ArenaKeepsPromise` | `KeepsPromise`: the arena implements `Grants` |
| | `NothingOrphaned`, `ParentsKeepTheirMemory`, `ResidentsKeepTheirImage` | `[]NoOrphanBlocks`, `[]RunningKeepTheirMemory`, `[]ResidentImageKept` |
| `InputProofs` | `RingInvariant` | `[]RingInv`: types, occupancy, and a record under copy is not written |
| | `RingIsAQueue` | `IsAQueue`: the ring implements `RawQueue` |
| | `TypeaheadReachesDos`, `PairsAreWhole`, `OneReader`, `ModifiersAgree` | `[]DosReadsWhatWasTyped`, `[]PairsStayWhole`, `[]EachKeyHasOneReader`, `[]ModifiersTrackKeys` |
| `EventPumpProofs` | `ButtonsAgree`, `OnlyLastRecordsClick`, `NullIsOnTime` | `[]ButtonTracksMouse`, `OnlyLastClicks`, `NullOnTime` |
| `FatFilesProofs` | `VolumeStaysConsistent`, `GrowingFileIsSafe` | `[]VolumeConsistent`, `[]GrowthSurvivesACut`, when no program keeps a handle on a deleted file (`~StaleHandles`) |
| | `NoFailureHarms`, `BystandersSurvive`, `NoBytesOfOthers` | `[]FailuresHarmNoFile`, `[]BystandersSurviveACut`, `[]NoForeignBytes`, if also no write that frees is refused and none that frees or shrinks is aborted (`Spared`) |
| `FatTreeProofs` | `TreeStaysSound`, `CutsLoseNothing` | `[]TreeSound`, `[]NothingLostByACut`, when names are changed only in directories of the tree (`~StaleRenames`) |
| | `RefusalsChangeNothing` | `RefusedCallsChangeNothing`, likewise |
| | `VolumeKeepsPromise` | `KeepsPromise`, likewise: the directory calls implement `Folders` |
| `DesktopProofs` | `DesktopWellFormed`, `DamageIsKept` | `[]TypeOK`, `[]DamageIsOwed` |
| | `ActiveIsForeground`, `GroupsAreKept` | `[]OnlyTheForegroundIsActive`, `[]GroupsStayTogether` |
| | `StaleIsForeground` | `[]StaleOnlyInTheForeground` |
| `ShellProofs` | `StateFollowsStack` | `[]Inv`: the state is the one that the stack of frames accounts for, without stray breaks (`~StrayBreaks`) |
| | `CommandsRunAsAsked`, `PromptFindsAllAsItWas` | `[]RunsAsAsked`, `[]WholeAtPrompt`, if also nothing in a pipeline changes the directory (`PipesStay`) |
| | `BatchesReadTheirOwn` | `[]OwnLines`, if batches start others with CALL (`BatchesCall`) and not below COMMAND /C (`NoneHidden`) |
| | `BreaksGoBack` | `UnwindsAfterBreak`, if no batch starts another below COMMAND /C |

The assumptions of `Desktop` are about its fixed data: a frame is an interval of
pixels with a title and a content, a window belongs to one application, the
Finder is resident from the start, and the applications present at boot open one
window each at most, the foreground's last (`kmain.c:6371`). Those of `Shell` are
about lines: a line has a stage, names no file as a pipe file is named, and the
commands hold the bodies of their IFs, FORs and COMMAND /C's; there are more than
two handles, and the disk is finite. The others are about sizes: a ring has room
for one record, the counters' modulus is a multiple of its capacity, an arena is
not empty, a program is at least as large as its control block, a sleep with two
slices is shorter than a turn of the tick counter, and a directory cluster has
room for more than the dot entries.

**Handles.** `FileRefsHonest` is not inductive alone. Two facts strengthen it to `IInv`:
`ChainDistinct`, no PSP is in the chain of running programs twice or both
running and resident (else `Terminate` would take away more references than it
counts), and `DeadClosed`, a PSP that is not alive has every entry closed (else
loading a program there would bring references back). The counting steps rest on
lemmas about how the set of references changes when one entry is retargeted
(`Retarget`) or one table is copied or closed (`RowReferences`), which give its
cardinality after each service. `HandlesKeepTheirObjects` follows from
`FileRefsHonest` before and after a step: a slot with a handle that stays is not
free on either side, and only `Open` and the release of the last reference
change a binding.

**Arena and Programs.** The inductive invariant of the arena is the chain itself:
typed, tiling from its first header to the ceiling, and joined. The lemmas
follow the code's helpers. `Coalesced` keeps every block that is held
and leaves no free pair, cutting and growing keep the tiling, and the first fit
is found exactly when some run of free paragraphs is long enough, because in a
joined chain a run is a block. They are stated for a chain that begins anywhere,
since `Programs` binds a new arena behind every first program. There the three
properties are proved together, for none is inductive alone, with `PspsDiffer`:
the PSPs of nested programs differ, and all but the first lie in the arena. Each
service is shown to leave the blocks of every other owner as they are
(`SameFor`). Ending a program then cannot touch what its parents wait for, and a
resident below `tsr_top` is never under an arena again.

**Event ring and pump.** The difference of two free-running counters is the
occupancy as long as it stays below the modulus (`UsedIs`), and a slot is a
counter modulo the capacity because the capacity divides the modulus. `DrainInv`
says what a drain relies on between two of its accesses; it is what an interrupt
in between must keep. The abstract queue of `RingIsAQueue` is read off the slots
from tail to head. `ButtonInv` says that the records that wait lead the pump's
button to the mouse's; a record that does not end its packet repeats the button
before it. `ClockInv` gives, for each point of `WaitNextEvent`, how long the call
has waited at most, with the number of ticks since the last test of the clock,
and ties the wrapped tick counter to that time.

**Keyboard.** What is in the raw ring was decoded by IRQ1 when it was typed, and
the replay and the pump decode it again later, from a snapshot. `IInv` holds
the witness that the two agree: a decoder state before each waiting byte, that
begins with the snapshot and ends with IRQ1's (`Trace`). With it the replay
yields what IRQ1 would have, so `cooked` and `due` agree from the first byte of
a session, and the drain ends in IRQ1's modifiers.

**Files.** The volume is consistent between calls only because of what holds in
the middle of one. `TidyInv` says, as long as no refused write was left as it
was: the cached table already fits the directory as the call under way will
leave it (`Goal`); each FAT copy is the cached table or is still to be written;
the files the call does not change are whole in the copy that a mount would read,
and a growing file has a cluster for all of its size there and in the cache; and
the list that a refused write would bring instead leads back to a
consistent volume (`RollsBack`). The lemmas before it are about chains: two
tables that agree on the nodes of a chain have the same walk (`SameChain`), a
chain in which no cluster repeats has the length its entry gives (`OneLength`),
linking free clusters behind a tail, cutting and freeing a chain keep every
other one (`LinkGrows`, `Others`), and `fat12_find_free` hands out free clusters
in rising order (`FreshPrefix`). They use induction over sets of numbers
(`UpTo`), for the walk is a recursive function. The hypothesis `~StaleHandles`
is that of the run: what a handle on a deleted file can do is a divergence
(section 5).

**Files after failures.** `fat12_write_partial` and `fat12_set_size` leave some
failures as they are, and an aborted program runs no roll-back. Then a chain may
be longer than its file, and the copies of the FAT may differ for good, so
`TidyInv` is lost. `FailInv` is what remains in every
state: each file has a chain at least as long as its size, in the cache and
with the entry the call will store (`Standing`); what one file holds by the cache
or by copy 1 no other file holds by either (`Separate`), which is more than the two
facts about one table and is needed when copy 1 is overwritten; what a file
holds by either contains only its own bytes or zeroes (`Private`); the writes
still due follow the order of `fat12_write_partial`, in which a cluster is zeroed
before a table that links it is written, bytes come after the tables, and the
entry comes last and only once copy 1 backs it (`Due`); and while the writes
that can be taken back are under way, the list that would take them back fits
both the directory and copy 1 (`Reversible`). `BystandersSurvive` needs `TidyInv`
as well, for the half that speaks of tidy volumes. `Spared` is what the run's
`Failing` and `Aborted` say, for constants of any size. It is not too much:
TLC finds `FailuresHarmNoFile` violated when a write that frees may be refused or
aborted (section 2, `FatFiles`), or one that shrinks aborted (section 5).

**Directories.** `Volume` is the invariant between calls: a set of directories with
chains of their own, each found from the root by exactly one entry of the directory
its dot-dot entry names, with nothing in use behind an entry never used, and together
using every cluster that is not free. In the middle of a call no such statement holds,
and the lists of writes, with a rollback behind each, are long. So the invariant
`Safe` does not describe them. It says that the call is *on course* to a tree it has
chosen (`OnCourse`): the configuration lies in some set in which every power cut is
harmless (`Fair`), every empty list leaves a `Volume`, and which the device cannot
leave, whether it takes the next write or refuses it (`Closed`). That a step keeps
this is immediate. The work is to put each call on course when it begins, from its
last write back to its first: a write may be put before a list if the volume behind it is
on course and its rollback is on course to the old tree (`Attempt`, `Revert`, and
`TryBehind` for the table of a grown directory, which no rollback takes back). For
each call that leaves what it does to a `Volume`: one slot written (`PutVolume`), a
directory grown (`GrownVolume`), a folder made, removed or moved (`AddFolder`,
`DropFolder`, `MoveFolder`). These rest on what the walks of the code compute. The
chain of a directory is the least set closed under its links (`ChainLeast`), a scan
has a first free place (`FirstPlace`), `Reached` is a fixed point after as many rounds
as there are clusters (`ReachedClosed`, because each round that is not the last
finds one more), and the climb of `fat12_move_cycle_check` meets every directory above
the destination (`AncestorsAre`, because the rounds that found them lead back). All
are inductions over sets of numbers (`UpTo`). That a moved directory does not
end up below itself, and so out of the tree, is `NoLoop` and `MovedStands`. The tree
that a call is on course to is one operation of `Folders` away from the last
(`Follows`), and a rollback leads to the last itself: this is the refinement and
`RefusedCallsChangeNothing`. The hypothesis `~StaleRenames` is that of the run:
`fat12_rename` through an outdated number is a divergence (section 5). Calls other
than that may be made through any number, of any age.

**Desktop.** No property of the desktop is inductive alone: what a click paints
depends on which window is in front, that on who owns it, and that on the process
list. The invariant `Current` joins them: every pixel has its account (`Owes`),
the groups are contiguous and the foreground's leads (`Together`, `Leads`), the
front window is lit exactly when the foreground owns it (`LitFor`), and what is not
painted is within the foreground's windows (`Confined`). The window list enters as
an order (`Before`), with a lemma for each of `list_unlink`, pushing and raising,
so that no later step counts indices. `Owes` is the heart of it. An operation of
`window.c` either leaves the window that is front-most at a pixel as it was or
makes the pixel owed to the one that is now (`Accounts`). Those that relink the
list do so only for the windows below, and the pass over the new front window at
their end (`ReaffirmActive`) completes the account (`Reaffirmed`). In the middle
of a switch the front window may be lit for an application that has lost the
foreground: this is `Near`, which the group operations keep and from which
`FlairProcess_sync_active` restores the rest. The loops of `raise_group`, of
`teardown_common` and of boot are recursive functions; each has an invariant of its
first `k` rounds (`Regrouped`, `Closed`, `Launched`), proved by induction up to the
length of the list (`UpTo`).

**Shell.** Every statement about the interpreter is about a stack of frames of any
depth, so the invariant `Inv` is a sequence of levels, one on each frame
(`Holds`). A level says what must be found again when the frames above have
ended: the handles, the items of the FORs, the pipe files, the batch and its text,
and whether something may run. A frame fits the level below it (`Fits`) and
determines the one above (`LevelOn`): a redirection moves a handle and keeps what
to restore it from (`Rewired`), a pipeline adds its file, a FOR an item, a batch its
text. The state then matches the topmost level (`Matches`). A step thus changes
the top of the stack only, and `PopIs` and `PushIs` say what it has to show: that
the frame it ends gives back what the level below has, or that the frame it pushes
fits. What reaches below is a ^C, which ends FORs and batches wherever they are.
`Resembles` says that no level depends on what it changes there. The hypotheses
of the theorems are divergences of section 5, each refuted by TLC without its
hypothesis; `MCShell` assumes of its lines (`TameLines`) what the hypotheses say of
all, and TLC evaluates it.

TLC has checked each inductive invariant on the small instance of its run,
`Desktop`'s with its unbounded quantifiers restricted to `Windows`. That of `FatTree`
speaks of sets of configurations and is proved only; the run checks what follows
from it.

**What stays with TLC.** Liveness (`CallReturns`, `EveryLineEnds`) is outside the
prover's reach. So is what `NdxTree` and `IndexedTable` compute for every input
(`TreeSound`, `IndexAgrees`, `SeekFindsFirst`): a page tree of unbounded depth is
built, split and joined by recursive descent, and a proof would need induction over
that data.

## 5. What the models found

| run | what the code does |
|---|---|
| `handles_devices` | `sft_inherit` does not count a child's handles on the resident slots, but AH=46h in the child releases them: redirecting inherited standard handles frees the console under the parent |


`PROJECT.json` quotes the lines.

**Known divergences.** TLC refutes these properties in short runs that are not
kept. Those of `Shell` hold in `shell` and fail with the lines or the constant named:

| property | what the code does |
|---|---|
| `Programs.ResidentBlocksKept` | `mcb_keep_resident` (`mcb.c:362`) cuts the first block of the program in the chain, which is a data block when one lies below the program |
| `InputHandoff.NoModifierLatches` | during a DOS session the raw ring drops its newest bytes (`event.c:229`); a dropped release leaves a modifier held, although `kbd.h` says modifiers cannot latch |
| `FatFiles.FullMeansFull` | a write never looks for clusters before its file's tail (`fat12.c:3287`), so a volume with free clusters is reported full |
| `FatFiles.FailuresHarmNoFile`, with `"shrink"` in `Aborted` | Abort while `fat12_set_size` writes the shortened chain leaves `do_terminate` by its exit hook (`int21.c:6062`): the cached chain is cut, the entry keeps its size, and no roll-back runs |
| `FatFiles.DistinctFilesIndependent` | a handle kept on a deleted file writes into the file that took its slot, although `fileio_fat.c:322` says distinct files are independent |
| `IndexedTable.PackReindexes` | a rebuild closes the index (`ndx.c:2507`) before navigation looks for the record order in it: PACK; PACK, or APPEND BLANK; PACK, ends in an error with the table packed and the index file as it was, although `mutate.c:936` says "FULLY REINDEX every open .ndx"; REINDEX after APPEND BLANK and every APPEND FROM with an index open fail the same way (`mutate.c:1413`) |
| `IndexedTable.ZapEmptiesIndex` | ZAP (`mutate.c:1006`) does not touch an open index, which goes on filing every pair of the emptied table, and the next APPEND BLANK files a pair that is there already; the dBASE specification in the repository says that ZAP "empties all open index files" (`docs/audits/2026-10-23-samir/evidence/references/data-definition-and-manipulation.md:523`) |
| `IndexedTable.NoKeyIsMissing` | in an index built with UNIQUE a REPLACE of a record the index left out looks for a pair that was never inserted; the record is written and the command ends in an index fault (`mutate.c:457`) |
| `FatTree.NoNameTwice`, with `StaleRenames = TRUE` | `fat12_rename` (`fat12.c:3531`) is the one call that takes a directory number at its word; through the number of a removed directory that has become another's tail it misses a name in an earlier cluster and creates it a second time |
| `Shell.WholeAtPrompt`, with `StrayBreaks = TRUE` | BREAK is ON after boot (`int21.c:353`); a ^C that comes while a redirected command ends is taken by the DUP2 that restores stdout, which is then not served, and stdout stays on the file, although `command.c:4044` says handle 1 is restored on every path |
| `Shell.WholeAtPrompt`, with CD as a stage of a pipeline | names of a pipe's files are relative: after a CD they are neither read nor deleted, and a file of that name in the new directory is (`command.c:4357`, against 4207 "never truncates or deletes a file it did not create") |
| `Shell.OwnLines`, with a batch named without CALL, or CALLed below COMMAND /C, by a batch with lines left | the caller's text is read again after CALL only, and COMMAND /C hides the caller (`command.c:4785`, 4965): the caller goes on in the callee's text |
| `Desktop.RaisedWindowIsPainted` | a window raised within the foreground application's own group stays unpainted until the next repaint (`process.c:802`) |

Two comments are out of date without harm: `sft.c`'s header lists AH=31h among
the ways of ending that close a program's handles, and `tsr_keep`, as its own
comment wants, leaves them open; and a program that frees its own block with
AH=49h runs on in memory that is nobody's, which `ServeFree` leaves out.

## 6. Plan

Modules still worth writing:

1. `FlairHeap` with the gate's budgets and reaping.
2. CHKDSK against `VolumeConsistent`; SAMIR's several indexes and crash windows;
   iWord's piece table with undo; i123's recalculation order; regions against
   pixel sets.

Theorems: that an insertion that splits pages of `NdxTree` one level up keeps the keys in
order, level by level, from which the index properties would follow for trees of
bounded depth.
