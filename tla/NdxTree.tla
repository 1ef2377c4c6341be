------------------------------ MODULE NdxTree ------------------------------
(* The .ndx index of SAMIR: a B+-tree of key/record pairs in a file of      *)
(* pages.  os/samir/fs/ndx.c reads and writes pages; here the file is the   *)
(* sequence of its pages after the header, and each operation is the value  *)
(* of the file after it.  Pages are never reused, and the order in which    *)
(* pages are numbered is the order in which they are appended.              *)
EXTENDS Integers, Sequences, FiniteSets, SequencesExt, FiniteSetsExt

CONSTANT KeysPerPage        \* what the key length leaves room for in 508 bytes
ASSUME KeysPerPageAssumption == KeysPerPage \in Nat /\ KeysPerPage >= 2

NoPair == <<0, 0>>          \* record numbers start at 1

Key(pair) == pair[1]
Before(a, b) == a[1] < b[1] \/ (a[1] = b[1] /\ a[2] < b[2])
NotAfter(a, b) == a = b \/ Before(a, b)

(* A leaf has pairs only.  A branch has children, one more than separators: *)
(* the separator of a child is the highest key below it, the last child     *)
(* (the "trailing" one) has none.                                           *)
Leaf(pairs) == [pairs |-> pairs, seps |-> <<>>, kids |-> <<>>]
Branch(seps, kids) == [pairs |-> <<>>, seps |-> seps, kids |-> kids]
IsBranch(page) == page.kids # <<>>

\* The paths from the root to the leaves, in key order.  A step names a page
\* and the child it goes on to; the last step is the leaf's, with child 0.
LeafPaths(ndx) ==
    LET from[p \in DOMAIN ndx.pages] ==
            IF IsBranch(ndx.pages[p])
            THEN FlattenSeq([c \in DOMAIN ndx.pages[p].kids |->
                     LET below == from[ndx.pages[p].kids[c]]
                     IN  [i \in DOMAIN below |->
                             <<[page |-> p, child |-> c]>> \o below[i]]])
            ELSE << <<[page |-> p, child |-> 0]>> >>
    IN  from[ndx.root]

LeafAt(ndx, path) == ndx.pages[Last(path).page]
Inorder(ndx) ==
    LET below[p \in DOMAIN ndx.pages] ==
            IF IsBranch(ndx.pages[p])
            THEN FlattenSeq([c \in DOMAIN ndx.pages[p].kids |-> below[ndx.pages[p].kids[c]]])
            ELSE ndx.pages[p].pairs
    IN  below[ndx.root]

\* The highest pair below a page: down the trailing children.
SubtreeHigh(ndx, page) ==
    LET high[p \in DOMAIN ndx.pages] ==
            IF IsBranch(ndx.pages[p]) THEN high[Last(ndx.pages[p].kids)]
            ELSE IF ndx.pages[p].pairs = <<>> THEN NoPair
            ELSE Last(ndx.pages[p].pairs)
    IN  high[page]

\* The child a descent takes: that of the first of the separators it stops at,
\* or the trailing one.
FirstOrTrailing(page, stops) == Min(stops \cup {Len(page.kids)})

\* From the root to a leaf, taking child turn[p] of each branch p.
Descent(ndx, turn) ==
    LET down[p \in DOMAIN ndx.pages] ==
            IF IsBranch(ndx.pages[p])
            THEN <<[page |-> p, child |-> turn[p]]>> \o down[ndx.pages[p].kids[turn[p]]]
            ELSE <<[page |-> p, child |-> 0]>>
    IN  down[ndx.root]

\* SEEK and DELETE go to the first separator not below the key.
SeekTurn(ndx, p, key) ==
    FirstOrTrailing(ndx.pages[p], {i \in DOMAIN ndx.pages[p].seps : ndx.pages[p].seps[i] >= key})

\* INSERT goes past an equal separator when the new pair sorts after the
\* highest below it, so that equal keys stay in the order of their records.
InsertTurn_FirstEqual(ndx, p, new) ==                                \* mutant
    FirstOrTrailing(ndx.pages[p], {i \in DOMAIN ndx.pages[p].seps : ndx.pages[p].seps[i] >= Key(new)})
InsertTurn(ndx, p, new) ==
    FirstOrTrailing(ndx.pages[p], {i \in DOMAIN ndx.pages[p].seps :
            \/ ndx.pages[p].seps[i] > Key(new)
            \/ /\ ndx.pages[p].seps[i] = Key(new)
               /\ SubtreeHigh(ndx, ndx.pages[p].kids[i]) # NoPair
               /\ NotAfter(new, SubtreeHigh(ndx, ndx.pages[p].kids[i]))})

\* The pair a SEEK stops at: the first of the leaf that is not below the key,
\* or none (end of file).
Seek(ndx, key) ==
    LET leaf == LeafAt(ndx, Descent(ndx, [p \in DOMAIN ndx.pages |-> SeekTurn(ndx, p, key)])).pairs
        at   == SelectInSeq(leaf, LAMBDA pair : Key(pair) >= key)
    IN  IF at = 0 THEN NoPair ELSE leaf[at]
----------------------------------------------------------------------------
WithPair(pairs, new) ==
    InsertAt(pairs, 1 + Cardinality({i \in DOMAIN pairs : Before(pairs[i], new)}), new)

LeftShare == (KeysPerPage + 2) \div 2     \* of KeysPerPage + 1 pairs or + 2 children

\* One level of carrying a split up: the child of `step' has become two, the
\* left one ending at key `up', the right one on page `right' (0: no split).
CarryUp(step, acc) ==
    LET page == acc.pages[step.page]
        seps == InsertAt(page.seps, step.child, acc.up)
        kids == InsertAt(page.kids, step.child + 1, acc.right)
    IN  IF acc.right = 0 THEN acc
        ELSE IF Len(seps) <= KeysPerPage
             THEN [acc EXCEPT !.pages[step.page] = Branch(seps, kids), !.right = 0]
             ELSE [pages |-> Append([acc.pages EXCEPT ![step.page] =
                                 Branch(SubSeq(seps, 1, LeftShare - 1), SubSeq(kids, 1, LeftShare))],
                                 Branch(SubSeq(seps, LeftShare + 1, Len(seps)),
                                        SubSeq(kids, LeftShare + 1, Len(kids)))),
                   up    |-> seps[LeftShare],
                   right |-> Len(acc.pages) + 1]

Inserted(ndx, new) ==
    LET path  == Descent(ndx, [p \in DOMAIN ndx.pages |-> InsertTurn(ndx, p, new)])
        leaf  == Last(path).page
        pairs == WithPair(ndx.pages[leaf].pairs, new)
        split == FoldRight(CarryUp, Front(path),
                     [pages |-> Append([ndx.pages EXCEPT ![leaf] = Leaf(SubSeq(pairs, 1, LeftShare))],
                                       Leaf(SubSeq(pairs, LeftShare + 1, Len(pairs)))),
                      up    |-> Key(pairs[LeftShare]),
                      right |-> Len(ndx.pages) + 1])
    IN  IF Len(pairs) <= KeysPerPage THEN [ndx EXCEPT !.pages[leaf] = Leaf(pairs)]
        ELSE IF split.right = 0 THEN [ndx EXCEPT !.pages = split.pages]
        ELSE [pages |-> Append(split.pages, Branch(<<split.up>>, <<ndx.root, split.right>>)),
              root  |-> Len(split.pages) + 1]
----------------------------------------------------------------------------
\* The path to the first leaf that holds a pair, looked for from the leaf a
\* descent for its key reaches and on through the leaves that end with that
\* key; <<>> if the run of equal keys ends without it.
PathTo(ndx, pair) ==
    LET paths    == LeafPaths(ndx)
        pairs(i) == LeafAt(ndx, paths[i]).pairs
        reached  == Descent(ndx, [p \in DOMAIN ndx.pages |-> SeekTurn(ndx, p, Key(pair))])
        first    == SelectInSeq(paths, LAMBDA path : path = reached)
        found    == {j \in first..Len(paths) :
                        /\ Contains(pairs(j), pair)
                        /\ \A k \in first..(j - 1) : pairs(k) # <<>> /\ Key(Last(pairs(k))) = Key(pair)}
    IN  IF found = {} THEN <<>> ELSE paths[Min(found)]

Holds(ndx, pair) == PathTo(ndx, pair) # <<>>

\* A new highest key replaces the separator of the nearest ancestor in which
\* the path does not go through the trailing child.
Propagated_Parent(pages, steps, key) ==                               \* mutant
    IF steps = <<>> \/ Last(steps).child > Len(pages[Last(steps).page].seps) THEN pages
    ELSE [pages EXCEPT ![Last(steps).page].seps[Last(steps).child] = key]
Propagated(pages, steps, key) ==
    LET at == SelectLastInSeq(steps, LAMBDA s : s.child <= Len(pages[s.page].seps))
    IN  IF at = 0 THEN pages
        ELSE [pages EXCEPT ![steps[at].page].seps[steps[at].child] = key]

\* An emptied leaf is unhooked from the nearest ancestor that has another child.
Unhooked_HighKept(pages, steps) ==                                   \* mutant
    LET at   == SelectLastInSeq(steps, LAMBDA s : pages[s.page].seps # <<>>)
        step == steps[at]
        page == pages[step.page]
    IN  IF step.child <= Len(page.seps)
        THEN [pages EXCEPT ![step.page] =
                 Branch(RemoveAt(page.seps, step.child), RemoveAt(page.kids, step.child))]
        ELSE [pages EXCEPT ![step.page] = Branch(Front(page.seps), Front(page.kids))]
Unhooked(pages, steps) ==
    LET at   == SelectLastInSeq(steps, LAMBDA s : pages[s.page].seps # <<>>)
        step == steps[at]
        page == pages[step.page]
    IN  IF step.child <= Len(page.seps)
        THEN [pages EXCEPT ![step.page] =
                 Branch(RemoveAt(page.seps, step.child), RemoveAt(page.kids, step.child))]
        ELSE Propagated([pages EXCEPT ![step.page] = Branch(Front(page.seps), Front(page.kids))],
                        SubSeq(steps, 1, at - 1), Last(page.seps))

Deleted(ndx, pair) ==
    LET path  == PathTo(ndx, pair)
        steps == Front(path)
        leaf  == Last(path).page
        pairs == RemoveFirst(ndx.pages[leaf].pairs, pair)
        pages == [ndx.pages EXCEPT ![leaf] = Leaf(pairs)]
    IN  IF pairs # <<>>
        THEN IF Last(ndx.pages[leaf].pairs) = pair
             THEN [ndx EXCEPT !.pages = Propagated(pages, steps, Key(Last(pairs)))]
             ELSE [ndx EXCEPT !.pages = pages]
        ELSE IF steps = <<>> THEN [ndx EXCEPT !.pages = pages]
        ELSE IF \A i \in DOMAIN steps : pages[steps[i].page].seps = <<>>
             THEN [pages |-> pages, root |-> leaf]
             ELSE [ndx EXCEPT !.pages = Unhooked(pages, steps)]
----------------------------------------------------------------------------
(* INDEX ON, REINDEX and PACK write the index afresh from the sorted keys:  *)
(* full leaves, then level upon level of full branches as they fill up.     *)

\* The build in progress: the pages written, the unwritten children of each
\* level as <<page, highest key>>, and the child on its way up, or none.
Written(bld, lv) ==
    LET kids == bld.pending[lv]
    IN  [pages   |-> Append(bld.pages, Branch([i \in 1..(Len(kids) - 1) |-> kids[i][2]],
                                              [i \in DOMAIN kids |-> kids[i][1]])),
         pending |-> [bld.pending EXCEPT ![lv] = <<>>],
         rising  |-> <<Len(bld.pages) + 1, Last(kids)[2]>>]

\* A level with its KeysPerPage + 1 children is written and rises itself.
Rise(bld, lv) ==
    LET here == [bld EXCEPT !.pending[lv] = Append(@, bld.rising), !.rising = <<>>]
    IN  IF bld.rising = <<>> THEN bld
        ELSE IF Len(here.pending[lv]) <= KeysPerPage THEN here ELSE Written(here, lv)

LevelsFrom(bld, lv) == [i \in 1..(Len(bld.pending) - lv + 1) |-> lv + i - 1]

AddLeaf(bld, pairs) ==
    FoldLeft(Rise, [bld EXCEPT !.pages  = Append(@, Leaf(pairs)),
                               !.rising = <<Len(bld.pages) + 1, IF pairs = <<>> THEN 0 ELSE Key(Last(pairs))>>],
             LevelsFrom(bld, 1))

\* At the end a level's only child is promoted, several are written as a
\* branch; what rises from the topmost level is the root.
FinishLevel(bld, lv) ==
    LET kids == bld.pending[lv]
        up   == IF Len(kids) = 1 THEN [bld EXCEPT !.pending[lv] = <<>>, !.rising = kids[1]]
                ELSE Written(bld, lv)
    IN  IF kids = <<>> THEN bld
        ELSE IF \A j \in (lv + 1)..Len(bld.pending) : bld.pending[j] = <<>> THEN up
        ELSE FoldLeft(Rise, up, LevelsFrom(bld, lv + 1))

Built(pairs) ==
    LET count  == IF pairs = <<>> THEN 1 ELSE (Len(pairs) + KeysPerPage - 1) \div KeysPerPage
        leaves == [i \in 1..count |-> SubSeq(pairs, (i - 1) * KeysPerPage + 1,
                                             Min({i * KeysPerPage, Len(pairs)}))]
        full   == FoldLeft(AddLeaf, [pages |-> <<>>, pending |-> [lv \in 1..(count + 1) |-> <<>>],
                                     rising |-> <<>>], leaves)
        done   == FoldLeft(FinishLevel, full, LevelsFrom(full, 1))
    IN  [pages |-> done.pages, root |-> done.rising[1]]
============================================================================
