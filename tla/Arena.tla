------------------------------- MODULE Arena --------------------------------
(***************************************************************************)
(* The memory arena of os/milton/mcb.c: a chain of Memory Control Blocks.  *)
(* A header paragraph records the owner and the size of the data that      *)
(* follows it and whether it is the last one ('Z').  AH=48h/49h/4Ah, the    *)
(* loader and AH=31h all work by walking and editing that chain.           *)
(*                                                                         *)
(* chain maps the paragraph of every header to its block.  The walk of the *)
(* code starts at the lowest header and follows Next; a walk that reaches a *)
(* paragraph without a header is a destroyed chain.                        *)
(***************************************************************************)
EXTENDS Integers, FiniteSets

CONSTANTS
  Base, Ceil,  \* the arena spans the paragraphs Base .. Ceil - 1
  Owners,      \* PSPs that own blocks
  FREE,        \* MCB_OWNER_FREE
  SYSTEM       \* MCB_OWNER_SYSTEM, the owner of resident blocks

ASSUME ArenaAssumption ==
  /\ Base \in Nat /\ Ceil \in Nat /\ Base < Ceil
  /\ FREE \notin Owners /\ SYSTEM \notin Owners /\ FREE # SYSTEM

VARIABLE chain

LowestOf(S) == CHOOSE x \in S : \A y \in S : x <= y

Block == [owner : Owners \cup {FREE, SYSTEM}, size : Nat, last : BOOLEAN]

-----------------------------------------------------------------------------
(* The chain c, header by header. *)

After(c, h)    == h + 1 + c[h].size
IsFree(c, h)   == c[h].owner = FREE
BlocksOf(c, p) == {h \in DOMAIN c : c[h].owner = p}

(* mcb_init: one free block over the whole arena [from, Ceil). *)
FreshChain(from) == [h \in {from} |-> [owner |-> FREE, size |-> Ceil - from - 1, last |-> TRUE]]

Reowned(c, hs, p) == [h \in DOMAIN c |-> IF h \in hs THEN [c[h] EXCEPT !.owner = p] ELSE c[h]]

(* mcb_split, called when the block is larger than wanted: h keeps want    *)
(* paragraphs, a free block takes the others and inherits the 'Z'.         *)
Split(c, h, want) ==
  LET r == h + 1 + want
  IN  [x \in DOMAIN c \cup {r} |->
         CASE x = h -> [c[h] EXCEPT !.size = want, !.last = FALSE]
           [] x = r -> [owner |-> FREE, size |-> c[h].size - want - 1, last |-> c[h].last]
           [] OTHER -> c[x]]

Cut(c, h, want) == IF c[h].size > want THEN Split(c, h, want) ELSE c

(* The block after h joins it, header included. *)
Absorbed(c, h) ==
  LET n == After(c, h)
  IN  [x \in DOMAIN c \ {n} |->
         IF x = h THEN [c[h] EXCEPT !.size = @ + 1 + c[n].size, !.last = c[n].last] ELSE c[x]]

(* mcb_coalesce: the free blocks of every run join the first of the run. *)
JoinsNext(c, h) == /\ IsFree(c, h) /\ ~c[h].last
                   /\ After(c, h) \in DOMAIN c /\ IsFree(c, After(c, h))
Coalesced_KeepsLast(c) ==                                        \* mutant
  LET heads == DOMAIN c \ {After(c, g) : g \in {x \in DOMAIN c : JoinsNext(c, x)}}
      end(h) == LowestOf({g \in DOMAIN c : g >= h /\ ~JoinsNext(c, g)})
  IN  [h \in heads |->
         [c[h] EXCEPT !.size = After(c, end(h)) - h - 1]]
Coalesced(c) ==
  LET heads == DOMAIN c \ {After(c, g) : g \in {x \in DOMAIN c : JoinsNext(c, x)}}
      end(h) == LowestOf({g \in DOMAIN c : g >= h /\ ~JoinsNext(c, g)})
  IN  [h \in heads |->
         [c[h] EXCEPT !.size = After(c, end(h)) - h - 1, !.last = c[end(h)].last]]

(* mcb_alloc walks the coalesced chain and takes the first block that fits. *)
Fitting(c, want) == {h \in DOMAIN c : IsFree(c, h) /\ c[h].size >= want}

Allocated(c, want, p) ==
  LET h == LowestOf(Fitting(c, want)) IN Reowned(Cut(c, h, want), {h}, p)

(* mcb_stats: the size of the largest free block. *)
FreeSizes(c) == {c[h].size : h \in BlocksOf(c, FREE)}
Largest(c)   == IF FreeSizes(c) = {} THEN 0
                ELSE CHOOSE n \in FreeSizes(c) : \A k \in FreeSizes(c) : k <= n

(* mcb_setblock may grow h into the block after it, header included. *)
CanGrow_DataOnly(c, h, want) ==                                   \* mutant
  /\ ~c[h].last /\ IsFree(c, After(c, h))
  /\ c[h].size + c[After(c, h)].size >= want
CanGrow(c, h, want) ==
  /\ ~c[h].last /\ IsFree(c, After(c, h))
  /\ c[h].size + 1 + c[After(c, h)].size >= want

(* mcb_free_owner: blocks are coalesced only when one was freed. *)
WithoutOwner_Fragmented(c, p) == Reowned(c, BlocksOf(c, p), FREE) \* mutant
WithoutOwner(c, p) ==
  IF BlocksOf(c, p) = {} THEN c ELSE Coalesced(Reowned(c, BlocksOf(c, p), FREE))

(* mcb_keep_resident cuts the first block of p; mcb_keep_all re-owns the   *)
(* blocks that p still holds.                                              *)
FirstOf(c, p) == LowestOf(BlocksOf(c, p))
KeptResident(c, p, paras) ==
  Coalesced(Reowned(Cut(c, FirstOf(c, p), paras), {FirstOf(c, p)}, SYSTEM))
KeptAll_None(c, p) == WithoutOwner(c, p)                          \* mutant
KeptAll(c, p) == Reowned(c, BlocksOf(c, p), SYSTEM)

-----------------------------------------------------------------------------
Init == chain = FreshChain(Base)

(* AH=48h.  The chain stays coalesced when nothing fits. *)
Alloc(p, want) ==
  LET c == Coalesced(chain)
  IN  chain' = IF Fitting(c, want) = {} THEN c ELSE Allocated(c, want, p)

(* AH=49h: only a block of the caller is freed. *)
Free_AnyOwner(p, h) ==                                            \* mutant
  ~IsFree(chain, h) /\ chain' = Coalesced(Reowned(chain, {h}, FREE))
Free(p, h) ==
  /\ h \in BlocksOf(chain, p)
  /\ chain' = Coalesced(Reowned(chain, {h}, FREE))

(* AH=4Ah. *)
Shrink(p, h, want) ==
  /\ h \in BlocksOf(chain, p) /\ want < chain[h].size
  /\ chain' = Coalesced(Split(chain, h, want))

Grow(p, h, want) ==
  /\ h \in BlocksOf(chain, p) /\ want > chain[h].size
  /\ CanGrow(chain, h, want)
  /\ chain' = Coalesced(Cut(Absorbed(chain, h), h, want))

(* int21_mcb_exec_alloc: a child gets the whole of the largest block. *)
ExecAlloc(p) ==
  /\ BlocksOf(chain, p) = {}
  /\ BlocksOf(chain, FREE) # {}
  /\ chain' = Allocated(Coalesced(chain), Largest(chain), p)

(* Termination, and the release of a child that could not be loaded. *)
FreeOwner(p) == chain' = WithoutOwner(chain, p)

(* AH=31h: mcb_keep_resident, then mcb_keep_all. *)
Keep(p, paras) ==
  /\ BlocksOf(chain, p) # {}
  /\ chain' = KeptAll(KeptResident(chain, p, paras), p)

Next ==
  \E p \in Owners :
    \/ \E want \in 0 .. Ceil : Alloc(p, want) \/ Keep(p, want)
    \/ \E h \in DOMAIN chain : Free(p, h)
    \/ \E h \in DOMAIN chain, want \in 0 .. Ceil : Shrink(p, h, want) \/ Grow(p, h, want)
    \/ ExecAlloc(p)
    \/ FreeOwner(p)

Spec == Init /\ [][Next]_chain

-----------------------------------------------------------------------------
(* mcb_chain_intact: from the lowest header the blocks tile the arena, each *)
(* leads to the next, and exactly the one that ends at Ceil is the last.   *)
Intact(c, from) ==
  /\ from \in DOMAIN c
  /\ \A h \in DOMAIN c :
       /\ h \in from .. Ceil - 1 /\ After(c, h) <= Ceil
       /\ c[h].last <=> After(c, h) = Ceil
       /\ ~c[h].last => After(c, h) \in DOMAIN c
       /\ \A g \in DOMAIN c : g <= h \/ g >= After(c, h)

ChainIntact ==
  /\ \A h \in DOMAIN chain : chain[h] \in Block
  /\ Intact(chain, Base)

(* Two free blocks never stand side by side.  int21_mcb_exec_alloc, AH=4Ah *)
(* and mcb_stats read the chain without coalescing it first, so a free      *)
(* pair left behind would make them refuse memory that is there.           *)
NoFreePair == \A h \in DOMAIN chain : ~JoinsNext(chain, h)

Unowned ==
  Base .. Ceil - 1 \
    UNION {h .. After(chain, h) - 1 : h \in {x \in DOMAIN chain : ~IsFree(chain, x)}}

(* A request fails only when it must: AH=48h finds a block exactly when    *)
(* want + 1 paragraphs in a row belong to nobody, and AH=4Ah grows a block  *)
(* exactly when the paragraphs up to the new end do (mcb_alloc,             *)
(* mcb_setblock).                                                           *)
RefusedOnlyWhenFull ==
  \A want \in 0 .. Ceil :
    /\ Fitting(Coalesced(chain), want) # {}
         <=> \E f \in Base .. Ceil : f .. f + want \subseteq Unowned
    /\ \A h \in DOMAIN chain :
         ~IsFree(chain, h) /\ want > chain[h].size =>
           (CanGrow(chain, h, want) <=> After(chain, h) .. h + want \subseteq Unowned)

(* The blocks that are not free are what the owners were granted, and no   *)
(* call disturbs a block of an owner it was not made for.                  *)
granted ==
  {[owner |-> chain[h].owner, first |-> h + 1, size |-> chain[h].size] :
     h \in {x \in DOMAIN chain : ~IsFree(chain, x)}}

Promise == INSTANCE Grants WITH grants <- granted

KeepsPromise == Promise!Spec

=============================================================================
