------------------------------ MODULE Handles ------------------------------
(***************************************************************************)
(* Process handle tables over the shared System File Table: os/milton's    *)
(* sft.c, the JFT that psp.c lays down, the handle services of int21.c and *)
(* the two places of loader.c that nest one program inside another.        *)
(*                                                                         *)
(* A handle indexes the Job File Table of the running process; the entry   *)
(* is CLOSED or the number of a slot of the SFT.  A slot counts the JFT    *)
(* entries that refer to it and is zeroed, i.e. freed, when the count      *)
(* reaches zero.  Slots below FirstFile are the resident CON/AUX/PRN       *)
(* entries laid down once by sft_init.                                     *)
(*                                                                         *)
(* The code answers a JFT entry that names a freed slot with a trap (#UD,  *)
(* "fail loud").  "panic" records that the machine has stopped that way.   *)
(***************************************************************************)
EXTENDS Integers, Sequences, FiniteSets

CONSTANTS
  Psps,        \* PSP addresses a program can be loaded at
  Shell,       \* the PSP of the kernel shell, the root of the EXEC chain
  Objects,     \* what OPEN or CREAT can bind: files and named devices
  Devices,     \* what the resident slots are bound to
  FREE,        \* the binding of a free slot
  CLOSED,      \* JFT_CLOSED
  NumHandles,  \* JFT_MAX_ENTRIES
  NumSlots,    \* the FILES= limit, at most SFT_MAX_ENTRIES
  FirstFile,   \* SFT_FIRST_FILE
  LastStd,     \* the last predefined handle, 4 in do_close
  DefaultJft,  \* the JFT psp_build lays down for a PSP without a parent
  DeviceRefs,  \* the reference counts sft_init gives the resident slots
  DeviceOf,    \* the device each resident slot is bound to
  ExecDepth,   \* LOADER_EXEC_DEPTH
  MaxExecs     \* bound: programs started in one behaviour

Handles     == 0 .. NumHandles - 1
Slots       == 0 .. NumSlots - 1
DeviceSlots == 0 .. FirstFile - 1
FileSlots   == FirstFile .. NumSlots - 1

ASSUME SizesAssumption ==
  /\ NumHandles \in Nat /\ NumSlots \in Nat /\ FirstFile \in Nat
  /\ FirstFile <= NumSlots
  /\ LastStd \in Nat /\ ExecDepth \in Nat /\ MaxExecs \in Nat

ASSUME NamesAssumption ==
  /\ Shell \in Psps /\ IsFiniteSet(Psps)
  /\ FREE \notin Objects \cup Devices
  /\ CLOSED \notin Slots

ASSUME TableAssumption ==
  /\ DefaultJft \in [Handles -> DeviceSlots \cup {CLOSED}]
  /\ DeviceRefs \in [DeviceSlots -> Nat]
  /\ DeviceOf   \in [DeviceSlots -> Devices]

VARIABLES
  sft,       \* g_sft: the binding and the reference count of every slot
  jft,       \* psp->jft of every PSP
  stack,     \* the chain of running programs, the current one last
  resident,  \* programs that ended with KEEP: their PSP stays in memory
  panic,     \* SFT_FAIL_LOUD has fired
  execs      \* programs started so far (bounded by MaxExecs)

vars == <<sft, jft, stack, resident, panic, execs>>

-----------------------------------------------------------------------------
(* The tables. *)

FreeSlot  == [obj |-> FREE, refs |-> 0]
ClosedJft == [h \in Handles |-> CLOSED]

Cur     == stack[Len(stack)]                 \* g_cur_psp
Running == {stack[i] : i \in 1 .. Len(stack)}
Alive   == Running \cup resident             \* PSPs whose memory is kept

IsOpen(p, h)   == jft[p][h] # CLOSED
Dangling(p, h) == IsOpen(p, h) /\ sft[jft[p][h]].obj = FREE

(* The handles of p that refer to slot s, and all references to s. *)
HandlesOn(p, s) == {h \in Handles : jft[p][h] = s}
References(s)   == {ref \in Psps \X Handles :
                      ref[1] \in Alive /\ jft[ref[1]][ref[2]] = s}

LowestOf(S) == CHOOSE x \in S : \A y \in S : x <= y

FreeHandles == {h \in Handles : ~IsOpen(Cur, h)}

FreeFiles_AnySlot == {s \in Slots : sft[s].obj = FREE}         \* mutant
FreeFiles         == {s \in FileSlots : sft[s].obj = FREE}

jft_alloc   == LowestOf(FreeHandles)
sft_alloc   == LowestOf(FreeFiles)

(* sft_release: drop one reference of slot e, zero it with the last one. *)
Released(e) == IF e.refs <= 1 THEN FreeSlot ELSE [e EXCEPT !.refs = @ - 1]

-----------------------------------------------------------------------------
Init ==
  /\ sft = [s \in Slots |-> IF s \in DeviceSlots
                              THEN [obj |-> DeviceOf[s], refs |-> DeviceRefs[s]]
                              ELSE FreeSlot]
  /\ jft = [p \in Psps |-> IF p = Shell THEN DefaultJft ELSE ClosedJft]
  /\ stack = <<Shell>>
  /\ resident = {}
  /\ panic = FALSE
  /\ execs = 0

(* AH=3Dh OPEN and AH=3Ch CREAT of obj.  Both tables are probed before     *)
(* either is written, so an OPEN that fails changes nothing.               *)
Open(obj) ==
  /\ ~panic /\ FreeFiles # {} /\ FreeHandles # {}
  /\ sft' = [sft EXCEPT ![sft_alloc] = [obj |-> obj, refs |-> 1]]
  /\ jft' = [jft EXCEPT ![Cur][jft_alloc] = sft_alloc]
  /\ UNCHANGED <<stack, resident, panic, execs>>

(* AH=45h DUP: a second handle on the slot of src. *)
Dup(src) ==
  /\ ~panic /\ IsOpen(Cur, src) /\ ~Dangling(Cur, src) /\ FreeHandles # {}
  /\ jft' = [jft EXCEPT ![Cur][jft_alloc] = jft[Cur][src]]
  /\ sft' = [sft EXCEPT ![jft[Cur][src]].refs = @ + 1]
  /\ UNCHANGED <<stack, resident, panic, execs>>

(* AH=46h DUP2: dst is released, then made a second handle on src's slot. *)
Dup2(src, dst) ==
  /\ ~panic /\ src # dst
  /\ IsOpen(Cur, src) /\ ~Dangling(Cur, src) /\ ~Dangling(Cur, dst)
  /\ LET released == IF IsOpen(Cur, dst)
                       THEN [sft EXCEPT ![jft[Cur][dst]] = Released(@)]
                       ELSE sft
     IN  sft' = [released EXCEPT ![jft[Cur][src]].refs = @ + 1]
  /\ jft' = [jft EXCEPT ![Cur][dst] = jft[Cur][src]]
  /\ UNCHANGED <<stack, resident, panic, execs>>

(* AH=3Eh CLOSE.  Closing a predefined handle is a successful no-op. *)
Close(h) ==
  /\ ~panic /\ h > LastStd /\ IsOpen(Cur, h) /\ ~Dangling(Cur, h)
  /\ sft' = [sft EXCEPT ![jft[Cur][h]] = Released(@)]
  /\ jft' = [jft EXCEPT ![Cur][h] = CLOSED]
  /\ UNCHANGED <<stack, resident, panic, execs>>

(* Any service that resolves a handle traps when the slot is free. *)
Trap(h) ==
  /\ ~panic /\ Dangling(Cur, h)
  /\ panic' = TRUE
  /\ UNCHANGED <<sft, jft, stack, resident, execs>>

(* sft_inherit: count the references that the copy of the current program's *)
(* JFT adds to the slots above the resident ones.                          *)
Inherited_NotCounted == sft                                     \* mutant
Inherited ==
  [s \in Slots |->
     IF s \in FileSlots
       THEN [sft[s] EXCEPT !.refs = @ + Cardinality(HandlesOn(Cur, s))]
       ELSE sft[s]]

(* AH=4Bh EXEC: psp_build copies the parent's JFT into the child, and      *)
(* sft_inherit counts it, trapping on an entry that names a free slot.     *)
Exec(child) ==
  /\ ~panic /\ Len(stack) <= ExecDepth /\ execs < MaxExecs
  /\ child \notin Alive
  /\ jft' = [jft EXCEPT ![child] = jft[Cur]]
  /\ sft' = Inherited
  /\ stack' = Append(stack, child)
  /\ panic' = (\E h \in Handles : Dangling(Cur, h))
  /\ execs' = execs + 1
  /\ UNCHANGED resident

(* sft_close_process over the whole JFT of the current program: each       *)
(* handle on a slot above the resident ones is released.  The walk traps   *)
(* on a slot that is free, or that an earlier handle of the walk freed.    *)
CloseProcessSlots_FirstOnly ==                                  \* mutant
  [s \in Slots |-> IF s \in DeviceSlots \/ HandlesOn(Cur, s) = {}
                     THEN sft[s] ELSE Released(sft[s])]
CloseProcessSlots ==
  [s \in Slots |->
     LET n == Cardinality(HandlesOn(Cur, s))
     IN  IF s \in DeviceSlots \/ n = 0 THEN sft[s]
         ELSE IF sft[s].refs <= n THEN FreeSlot
         ELSE [sft[s] EXCEPT !.refs = @ - n]]

CloseProcessTraps ==
  \/ \E h \in Handles : Dangling(Cur, h)
  \/ \E s \in FileSlots : /\ Cardinality(HandlesOn(Cur, s)) > 1
                          /\ Cardinality(HandlesOn(Cur, s)) > sft[s].refs

(* AH=4Ch and every other way through do_terminate; control returns to the *)
(* parent, and the memory of the PSP is given back.                        *)
Terminate ==
  /\ ~panic /\ Len(stack) > 1
  /\ sft' = CloseProcessSlots
  /\ panic' = CloseProcessTraps
  /\ jft' = [jft EXCEPT ![Cur] = ClosedJft]
  /\ stack' = SubSeq(stack, 1, Len(stack) - 1)
  /\ UNCHANGED <<resident, execs>>

(* AH=31h KEEP: the program ends but its PSP and its open files stay. *)
Keep ==
  /\ ~panic /\ Len(stack) > 1
  /\ resident' = resident \cup {Cur}
  /\ stack' = SubSeq(stack, 1, Len(stack) - 1)
  /\ UNCHANGED <<sft, jft, panic, execs>>

Next ==
  \/ \E obj \in Objects : Open(obj)
  \/ \E src \in Handles : Dup(src)
  \/ \E src, dst \in Handles : Dup2(src, dst)
  \/ \E h \in Handles : Close(h)
  \/ \E h \in Handles : Trap(h)
  \/ \E child \in Psps : Exec(child)
  \/ Terminate
  \/ Keep

Spec == Init /\ [][Next]_vars

-----------------------------------------------------------------------------
SlotType == [obj : Objects \cup Devices \cup {FREE}, refs : Nat]

TypeOK ==
  /\ sft \in [Slots -> SlotType]
  /\ \A s \in FileSlots : sft[s].obj \in Objects \cup {FREE}
  /\ \A s \in DeviceSlots : sft[s].obj \in Devices \cup {FREE}
  /\ jft \in [Psps -> [Handles -> Slots \cup {CLOSED}]]
  /\ stack \in Seq(Psps) /\ stack # <<>>
  /\ resident \subseteq Psps
  /\ panic \in BOOLEAN
  /\ execs \in Nat

(* The count of a file slot is the number of JFT entries, of running and   *)
(* of resident programs, that refer to it, and the slot is free exactly    *)
(* when that number is zero: through every sequence of OPEN, DUP, DUP2,    *)
(* CLOSE, EXEC, exit and KEEP nothing leaks and nothing dangles.           *)
FileRefsHonest ==
  \A s \in FileSlots :
    /\ sft[s].refs = Cardinality(References(s))
    /\ (sft[s].obj = FREE) <=> (References(s) = {})

(* A handle that a step leaves alone keeps denoting the object it denoted: *)
(* no step of another program, and no operation on another handle of the   *)
(* same one, frees the slot under it or rebinds the slot to another file.  *)
HandleKeepsItsObject ==
  [][\A p \in Psps, h \in Handles :
       (/\ jft[p][h] \in FileSlots
        /\ jft'[p][h] = jft[p][h])
         => sft'[jft[p][h]].obj = sft[jft[p][h]].obj]_vars

(* sft.h: the resident device slots keep their fixed counts across         *)
(* programs, so no JFT entry of a running program names a freed slot.      *)
NoHandleDangles == \A p \in Running, h \in Handles : ~Dangling(p, h)

=============================================================================
