------------------------------ MODULE Programs ------------------------------
(***************************************************************************)
(* Programs in conventional memory: the EXEC chain of os/milton/loader.c,  *)
(* the memory services of int21.c and the arena of mcb.c put together.     *)
(*                                                                         *)
(* A program is named by the paragraph of its PSP.  The first program is   *)
(* loaded at Base with the arena behind its image, or, once a program has  *)
(* stayed resident (AH=31h), into an arena that starts above the highest   *)
(* resident paragraph.  Every nested program is loaded into the largest    *)
(* free block of the arena and gives it back when it ends.  A native       *)
(* (extended) program keeps only a small control block in the arena.       *)
(***************************************************************************)
EXTENDS Arena, Sequences

CONSTANTS
  MinProgram,  \* paragraphs a program needs: PSP, image and stack
  MinKeep,     \* TSR_KEEP_MIN_PARAS
  Control,     \* the control block of a native program, in paragraphs
  ExecDepth    \* LOADER_EXEC_DEPTH

ASSUME ProgramsAssumption ==
  /\ Owners = Base .. Ceil - 1
  /\ MinKeep \in Nat \ {0} /\ Control \in Nat /\ MinProgram \in Nat
  /\ Control >= MinKeep /\ MinProgram >= Control

VARIABLES
  from,      \* g_arena_base_linear: the arena is [from, Ceil), unbound at Ceil
  stack,     \* the programs that EXEC nested, the running one last
  tsr_top,   \* g_tsr_top; Base stands for "no resident"
  keptPsp,   \* paragraphs of the PSP blocks that programs kept (history)
  keptHeap   \* paragraphs of the other blocks of those programs (history)

pvars == <<chain, from, stack, tsr_top, keptPsp, keptHeap>>

Unbound == [h \in {} |-> {}]

Depth    == Len(stack)
Cur      == stack[Depth].psp
IsHigh   == stack[Depth].high
HighLive == \E i \in 1 .. Depth : stack[i].high

(* What every program owned when the frame was entered. *)
Owned(c, p) == {[first |-> h + 1, size |-> c[h].size] : h \in BlocksOf(c, p)}
Frame(c, p, high) ==
  [psp |-> p, high |-> high,
   others |-> [i \in 1 .. Depth |-> Owned(c, stack[i].psp)]]

-----------------------------------------------------------------------------
PInit ==
  /\ chain = Unbound /\ from = Ceil
  /\ stack = <<>>
  /\ tsr_top = Base
  /\ keptPsp = {} /\ keptHeap = {}

(* int21_mcb_bind_program: fewer than two paragraphs leave it unbound. *)
Bind(low) ==
  IF Ceil - low >= 2 THEN from' = low /\ chain' = FreshChain(low)
                     ELSE from' = Ceil /\ chain' = Unbound

(* The first program, at Base: image and reserve end at low. *)
LoadAtBase(low) ==
  /\ Depth = 0 /\ tsr_top = Base
  /\ low - Base >= MinProgram
  /\ Bind(low)
  /\ stack' = <<Frame(Unbound, Base, FALSE)>>
  /\ UNCHANGED <<tsr_top, keptPsp, keptHeap>>

(* int21_mcb_exec_alloc on c: the largest free block, under its own PSP. *)
Hosts(c, need) == BlocksOf(c, FREE) # {} /\ Largest(c) >= need
PspIn(c)       == LowestOf(Fitting(Coalesced(c), Largest(c))) + 1
HostedIn(c)    == Allocated(Coalesced(c), Largest(c), PspIn(c))

(* int21_mcb_exec_trim and exec_free. *)
Trimmed(c, p, size) == IF c[p - 1].size = size THEN c ELSE Coalesced(Split(c, p - 1, size))
ExecFreed(c, p)     == WithoutOwner(c, p)

(* A first program above the residents: an MZ image is trimmed to the end  *)
(* of its reserve, and a flat one is refused.                              *)
LoadAbove(size) ==
  /\ Depth = 0 /\ tsr_top > Base
  /\ size >= MinProgram /\ Ceil - tsr_top >= 2
  /\ LET c == FreshChain(tsr_top)
     IN  /\ Hosts(c, MinProgram) /\ size <= Largest(c)
         /\ from' = tsr_top
         /\ chain' = Trimmed(HostedIn(c), PspIn(c), size)
         /\ stack' = <<Frame(Unbound, PspIn(c), FALSE)>>
  /\ UNCHANGED <<tsr_top, keptPsp, keptHeap>>

LoadAboveFails ==
  /\ Depth = 0 /\ tsr_top > Base
  /\ Bind(tsr_top)
  /\ UNCHANGED <<stack, tsr_top, keptPsp, keptHeap>>

(* loader_load_high: one native program at a time. *)
LoadHigh ==
  /\ Depth < ExecDepth /\ ~HighLive
  /\ Depth = 0 => Ceil - tsr_top >= 2
  /\ LET c == IF Depth = 0 THEN FreshChain(tsr_top) ELSE chain
         p == PspIn(c)
     IN  /\ Hosts(c, Control)
         /\ from'  = IF Depth = 0 THEN tsr_top ELSE from
         /\ chain' = Trimmed(HostedIn(c), p, Control)
         /\ stack' = Append(stack, Frame(c, p, TRUE))
  /\ UNCHANGED <<tsr_top, keptPsp, keptHeap>>

(* AH=4Bh from a running program: a flat image gets the whole block. *)
Exec ==
  /\ Depth > 0 /\ Depth < ExecDepth /\ Hosts(chain, MinProgram)
  /\ chain' = HostedIn(chain)
  /\ stack' = Append(stack, Frame(chain, PspIn(chain), FALSE))
  /\ UNCHANGED <<from, tsr_top, keptPsp, keptHeap>>

(* ... and the block is given back when the image cannot be read or is MZ. *)
ExecFails ==
  /\ Depth > 0 /\ Depth < ExecDepth /\ Hosts(chain, MinProgram)
  /\ chain' = ExecFreed(HostedIn(chain), PspIn(chain))
  /\ UNCHANGED <<from, stack, tsr_top, keptPsp, keptHeap>>

-----------------------------------------------------------------------------
(* The memory services.  A native program is served from high memory.      *)
Serves == Depth > 0 /\ ~IsHigh /\ from < Ceil

ServeAlloc(want) ==
  /\ Serves /\ Alloc(Cur, want)
  /\ UNCHANGED <<from, stack, tsr_top, keptPsp, keptHeap>>

(* A program gives back what AH=48h gave it, not the block it runs in. *)
ServeFree(h) ==
  /\ Serves /\ h + 1 # Cur /\ Free(Cur, h)
  /\ UNCHANGED <<from, stack, tsr_top, keptPsp, keptHeap>>

ServeSetBlock(h, want) ==
  /\ Serves
  /\ Shrink(Cur, h, want) \/ Grow(Cur, h, want)
  /\ UNCHANGED <<from, stack, tsr_top, keptPsp, keptHeap>>

(* do_terminate, then the loader's exec_free. *)
Terminate_KeepsBlocks ==                                         \* mutant
  /\ Depth > 0
  /\ stack' = SubSeq(stack, 1, Depth - 1)
  /\ UNCHANGED <<chain, from, tsr_top, keptPsp, keptHeap>>
Terminate ==
  /\ Depth > 0
  /\ chain' = ExecFreed(WithoutOwner(chain, Cur), Cur)
  /\ stack' = SubSeq(stack, 1, Depth - 1)
  /\ UNCHANGED <<from, tsr_top, keptPsp, keptHeap>>

Highest(S) == CHOOSE x \in S : \A y \in S : y <= x
Smaller(m, n) == IF m < n THEN m ELSE n
Larger(m, n)  == IF m < n THEN n ELSE m

Hosted(p)  == p > from                    \* the PSP lies in the arena
Data(c, h) == h + 1 .. After(c, h) - 1

ResidentTop_OwnBlock(c, own) == Larger(own, tsr_top)              \* mutant
ResidentTop(c, own) ==
  Highest({own, tsr_top} \cup {After(c, h) : h \in BlocksOf(c, SYSTEM)})

(* tsr_keep: the program ends and stays.  A program in the arena keeps     *)
(* paras of its block; one at Base keeps paras, up to where the arena      *)
(* begins.  Then the blocks it holds become resident too.                  *)
Stay(paras) ==
  /\ Depth > 0 /\ ~IsHigh
  /\ LET n   == Larger(paras, MinKeep)
         cut == IF Hosted(Cur) THEN KeptResident(chain, Cur, n) ELSE chain
         all == KeptAll(cut, Cur)
         own == IF Hosted(Cur) THEN Base ELSE Smaller(Cur + n, from)
         end == IF Hosted(Cur) THEN Smaller(Cur + n, After(chain, Cur - 1)) ELSE own
     IN  /\ chain' = ExecFreed(all, Cur)
         /\ tsr_top' = ResidentTop(all, own)
         /\ keptPsp' = keptPsp \cup (Cur .. end - 1)
         /\ keptHeap' = keptHeap \cup
              UNION {Data(chain, h) : h \in BlocksOf(chain, Cur) \ {Cur - 1}}
  /\ stack' = SubSeq(stack, 1, Depth - 1)
  /\ UNCHANGED from

PNext ==
  \/ \E n \in Base .. Ceil : LoadAtBase(n) \/ LoadAbove(n)
  \/ LoadAboveFails \/ LoadHigh \/ Exec \/ ExecFails
  \/ \E want \in 0 .. Ceil - Base : ServeAlloc(want) \/ Stay(want)
  \/ \E h \in DOMAIN chain : ServeFree(h)
  \/ \E h \in DOMAIN chain, want \in 0 .. Ceil - Base : ServeSetBlock(h, want)
  \/ Terminate

PSpec == PInit /\ [][PNext]_pvars

-----------------------------------------------------------------------------
PTypeOK ==
  /\ from \in Base .. Ceil /\ tsr_top \in Base .. Ceil
  /\ from = Ceil <=> chain = Unbound
  /\ chain # Unbound => Intact(chain, from)
  /\ \A h \in DOMAIN chain : chain[h] \in Block
  /\ \A i \in 1 .. Depth : stack[i].psp \in Owners /\ stack[i].high \in BOOLEAN
  /\ keptPsp \subseteq Owners /\ keptHeap \subseteq Owners

(* Every program that is still running owns the block its PSP lies in, and *)
(* a program that waits for its child finds each of its blocks where, and  *)
(* as large as, it was at the EXEC, however its descendants ended.         *)
RunningKeepTheirMemory ==
  \A i \in 1 .. Depth :
    /\ Hosted(stack[i].psp) => stack[i].psp - 1 \in BlocksOf(chain, stack[i].psp)
    /\ \A j \in 1 .. i - 1 : Owned(chain, stack[j].psp) = stack[i].others[j]

(* No block outlives its program: it is free, resident, or a running       *)
(* program's.                                                              *)
NoOrphanBlocks ==
  \A h \in DOMAIN chain :
    chain[h].owner \in {FREE, SYSTEM} \cup {stack[i].psp : i \in 1 .. Depth}

(* What a resident program kept of its own block is never given out again: *)
(* not by the arena that holds it, not by a later arena, not as the image  *)
(* of a later first program.                                               *)
LowImage == IF Depth > 0 /\ stack[1].psp < from THEN Base .. from - 1 ELSE {}

Untouched(kept) ==
  \A x \in kept :
    /\ x < tsr_top /\ x \notin LowImage
    /\ x >= from => \E h \in BlocksOf(chain, SYSTEM) : x \in Data(chain, h)

ResidentImageKept == Untouched(keptPsp)

(* int21.c, of AH=31h: the call "does not free up any other allocation     *)
(* blocks belonging to that process".                                      *)
ResidentBlocksKept == Untouched(keptHeap)

=============================================================================
