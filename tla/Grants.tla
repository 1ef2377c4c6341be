------------------------------- MODULE Grants -------------------------------
(***************************************************************************)
(* What the memory services of the kernel promise (mcb.h): every owner     *)
(* holds blocks of paragraphs, no two blocks overlap, and a call made for   *)
(* one owner never moves, cuts or takes a block of another.  Where a block *)
(* is placed and when a request fails is the allocator's business.         *)
(***************************************************************************)
EXTENDS Integers

CONSTANTS
  Base, Ceil,   \* the paragraphs Base .. Ceil - 1 are managed
  Owners,       \* the programs
  SYSTEM        \* the owner of memory that stays resident

VARIABLE grants

Block  == [owner : Owners \cup {SYSTEM}, first : Base + 1 .. Ceil, size : 0 .. Ceil]

(* A block and the paragraph in front of it, where its header lies. *)
Extent(g) == g.first - 1 .. g.first + g.size - 1

Sound(G) ==
  /\ \A g \in G : Extent(g) \subseteq Base .. Ceil - 1
  /\ \A g, k \in G : g # k => Extent(g) \cap Extent(k) = {}

Of(p) == {g \in grants : g.owner = p}

Init == grants = {}

Grant(p) ==
  \E f \in Base + 1 .. Ceil, n \in 0 .. Ceil :
    /\ grants' = grants \cup {[owner |-> p, first |-> f, size |-> n]}
    /\ grants' # grants /\ Sound(grants')

Resize(g) ==
  \E n \in 0 .. Ceil :
    /\ grants' = (grants \ {g}) \cup {[g EXCEPT !.size = n]}
    /\ Sound(grants')

Release(g) == grants' = grants \ {g}

ReleaseAll(p) == grants' = grants \ Of(p)

(* The blocks of p outlive it; one of them may be cut first. *)
MakeResident(p, g, n) ==
  /\ n <= g.size
  /\ LET cut(k) == IF k = g THEN n ELSE k.size
     IN  grants' = (grants \ Of(p)) \cup
           {[owner |-> SYSTEM, first |-> k.first, size |-> cut(k)] : k \in Of(p)}

Next ==
  \E p \in Owners :
    \/ Grant(p)
    \/ \E g \in Of(p) : \/ Resize(g)
                        \/ Release(g)
                        \/ \E n \in 0 .. Ceil : MakeResident(p, g, n)
    \/ ReleaseAll(p)

Spec == Init /\ [][Next]_grants

=============================================================================
