--------------------------- MODULE IndexedTable ----------------------------
(* A .dbf table of SAMIR with one open .ndx index on a key field, its       *)
(* master order: the commands of os/samir/cmd/mutate.c that change the      *)
(* table keep the index beside it, and navigation (os/samir/cmd/nav.c)      *)
(* reads the record order out of the index once and keeps it until it is    *)
(* reset.  Commands run one at a time, so each is a step.  A record is its  *)
(* key: its deletion mark is read by PACK alone, which therefore takes a    *)
(* marked record here, and DELETE and RECALL do not appear.                 *)
EXTENDS NdxTree

CONSTANTS Keys,             \* values of the key field, in their collation order
          FirstTables,      \* the tables INDEX ON is given
          UniqueChoices,    \* INDEX ON with or without UNIQUE
          MaxRecords,       \* bound on the table
          MaxPages,         \* bound on the index file: pages are not reused
          MaxLeft           \* bound on records and pages, for an index left closed or behind

ASSUME KeysAssumption == Keys \subseteq Nat /\ Keys # {}
Blank == Min(Keys)          \* an APPENDed record's key collates first

VARIABLES table,    \* the key of each record, by record number
          unique,   \* the unique flag in the index header
          ndx,      \* the index file
          view,     \* the area's way to it: the order is "known", it is "reset" and
                    \* read at the next navigation, or the file is "closed"
          missing,  \* did the last command look for a pair the index does not hold?
          behind    \* history: has a command changed the table and not the index?
vars == <<table, unique, ndx, view, missing, behind>>

Pairs == {<<table[r], r>> : r \in DOMAIN table}

\* What a build files: the pairs in order, in a UNIQUE index only the first
\* record of each key.
Filed(t, uniq) ==
    LET file(filed, pair) ==
            IF uniq /\ \E i \in DOMAIN filed : Key(filed[i]) = Key(pair) THEN filed
            ELSE WithPair(filed, pair)
    IN  FoldLeft(file, <<>>, [r \in DOMAIN t |-> <<t[r], r>>])

Init ==
    /\ table \in FirstTables
    /\ unique \in UniqueChoices
    /\ ndx = Built(Filed(table, unique))
    /\ view = "known"
    /\ missing = FALSE
    /\ behind = FALSE

\* The order is read into an array with one place for each record of the
\* table: more pairs than that are an error, as is a closed file, and leave
\* it unread.  No record at all leaves it unread without an error.
Navigated(v, index) ==
    IF v = "reset" /\ table # <<>> /\ Len(Inorder(index)) <= Len(table) THEN "known" ELSE v

MissesNothing == missing' = FALSE

\* GOTO, SKIP, LIST, a SEEK that finds.
Navigate ==
    /\ view' = Navigated(view, ndx)
    /\ UNCHANGED <<table, unique, ndx, behind>>
    /\ MissesNothing

\* SET INDEX TO the same file: closed, opened again and navigated.
SetIndex ==
    /\ view' = Navigated("reset", ndx)
    /\ UNCHANGED <<table, unique, ndx, behind>>
    /\ MissesNothing

AppendBlank ==
    /\ Len(table) < MaxRecords
    /\ table' = Append(table, Blank)
    /\ UNCHANGED unique
    /\ MissesNothing
    /\ \/ /\ view # "closed"
          /\ ndx' = Inserted(ndx, <<Blank, Len(table) + 1>>)
          /\ view' = "reset"
          /\ UNCHANGED behind
       \/ /\ view = "closed"
          /\ behind' = TRUE
          /\ UNCHANGED <<ndx, view>>

\* REPLACE writes the record, then moves its pair.  A pair that is not there
\* ends the command, with the record written and the new key not filed.  The
\* record is one a GOTO or the command itself navigates to, or the current one
\* after APPEND BLANK (the last) or PACK (the first) without navigating; here
\* either of these two may be the current one after both.
Replace(r, key) ==
    LET old     == <<table[r], r>>
        changes == key # table[r]
        held    == Holds(ndx, old)
    IN  /\ table' = [table EXCEPT ![r] = key]
        /\ view' \in {Navigated(view, ndx)} \cup (IF r \in {1, Len(table)} THEN {view} ELSE {})
        /\ UNCHANGED unique
        /\ \/ /\ view # "closed"
              /\ ndx' = IF changes /\ held THEN Inserted(Deleted(ndx, old), <<key, r>>) ELSE ndx
              /\ missing' = (changes /\ ~held)
              /\ UNCHANGED behind
           \/ /\ view = "closed"
              /\ behind' = (behind \/ changes)
              /\ UNCHANGED ndx
              /\ MissesNothing

\* A rebuild closes the index, then navigates to every record for its key: an
\* order that is not known by then is looked for in the closed file, which
\* stays as it was, and stays closed.  An emptied table has no record to go to.
Rebuilds(t) == t = <<>> \/ view = "known"
Rebuilt(t) ==
    /\ Rebuilds(t)
    /\ ndx' = Built(Filed(t, unique))
    /\ behind' = FALSE
NotRebuilt(t) ==
    /\ ~Rebuilds(t)
    /\ view' = "closed"
    /\ UNCHANGED ndx

\* PACK drops the marked records (none: 0), which renumbers the others.  To
\* drop several leaves what dropping them one after the other leaves, with a
\* GOTO in between where the order is known.
Pack(marked) ==
    /\ table' = IF marked = 0 THEN table ELSE RemoveAt(table, marked)
    /\ UNCHANGED unique
    /\ MissesNothing
    /\ \/ Rebuilt(table') /\ view' = "reset"
       \/ NotRebuilt(table') /\ behind' = (behind \/ marked # 0)

\* ZAP empties the table and leaves the index alone.
Zap ==
    /\ table' = <<>>
    /\ view' = IF view = "closed" THEN view ELSE "reset"
    /\ behind' = (behind \/ table # <<>>)
    /\ UNCHANGED <<unique, ndx>>
    /\ MissesNothing

\* REINDEX ends with a GO TOP.
Reindex ==
    /\ UNCHANGED <<table, unique>>
    /\ MissesNothing
    /\ \/ Rebuilt(table) /\ view' = Navigated("reset", ndx')
       \/ NotRebuilt(table) /\ UNCHANGED behind

\* APPEND FROM a file, up to the first record it takes: APPEND BLANK, whose
\* reset makes the rebuild after the filled record fail and end the command.
\* Where the file is closed APPEND BLANK itself fails; that ends the command
\* too, as if it had succeeded.
AppendFrom(key) ==
    /\ Len(table) < MaxRecords
    /\ view' = "closed"
    /\ UNCHANGED unique
    /\ MissesNothing
    /\ \/ /\ view # "closed"
          /\ table' = Append(table, key)
          /\ ndx' = Inserted(ndx, <<Blank, Len(table) + 1>>)
          /\ behind' = (behind \/ key # Blank)
       \/ /\ view = "closed"
          /\ table' = Append(table, Blank)
          /\ behind' = TRUE
          /\ UNCHANGED ndx

Next ==
    \/ Navigate \/ SetIndex \/ AppendBlank \/ Zap \/ Reindex
    \/ \E r \in DOMAIN table, key \in Keys : Replace(r, key)
    \/ \E marked \in 0..Len(table) : Pack(marked)
    \/ \E key \in Keys : AppendFrom(key)

WithinBounds ==
    /\ Len(ndx'.pages) <= MaxPages
    /\ behind' \/ view' = "closed" => Len(table') + Len(ndx'.pages) <= MaxLeft
Spec == Init /\ [][Next /\ WithinBounds]_vars
----------------------------------------------------------------------------
\* The index file is a search tree: a page has one parent, nothing is over
\* full, only an index without keys has an empty leaf, and each separator is
\* the highest key below its child, whatever splits, deletions and unhookings
\* (ndx_insert_key, ndx_delete_key, ndx_build_ex) came before.
PagesOnce ==
    LET paths == LeafPaths(ndx)
    IN  \A i, j \in DOMAIN paths : i # j => Last(paths[i]).page # Last(paths[j]).page
PageSound(page) ==
    IF IsBranch(page)
    THEN /\ page.pairs = <<>>
         /\ Len(page.kids) = Len(page.seps) + 1
         /\ Len(page.seps) <= KeysPerPage
         /\ \A i \in DOMAIN page.seps : page.seps[i] = Key(SubtreeHigh(ndx, page.kids[i]))
    ELSE /\ Len(page.pairs) <= KeysPerPage
         /\ page.pairs = <<>> => Inorder(ndx) = <<>>
TreeSound ==
    /\ PagesOnce
    /\ \A path \in ToSet(LeafPaths(ndx)) :
           \A i \in DOMAIN path : PageSound(ndx.pages[path[i].page])

\* Until a command changes the table and not the index (a ZAP, a change made
\* or a renumbering done while the index is closed: behind), an index without
\* UNIQUE files exactly the table's records, in the order of key and record
\* number, and a UNIQUE one no pair the table does not have.  ndx_delete_key
\* finds every pair the index holds, however many leaves a run of equal keys
\* has come to fill: a pair is missing only where UNIQUE left the record out.
IndexAgrees ==
    LET order == Inorder(ndx)
    IN  ~behind =>
            /\ \A i \in 2..Len(order) : Before(order[i - 1], order[i])
            /\ ToSet(order) \subseteq Pairs
            /\ ~unique => Pairs \subseteq ToSet(order)
            /\ \A pair \in ToSet(order) : Holds(ndx, pair)
            /\ missing => unique

\* A SEEK, which looks into one leaf only, stops at the first pair of the
\* whole index whose key is not below the one it looks for (ndx_seek).
SeekFindsFirst ==
    \A key \in 0..(Max(Keys) + 1) :
        LET order == Inorder(ndx)
            at    == SelectInSeq(order, LAMBDA pair : Key(pair) >= key)
        IN  Seek(ndx, key) = IF at = 0 THEN NoPair ELSE order[at]

\* mutate.c:936 of m_pack: "FULLY REINDEX every open .ndx from the
\* freshly-packed table" - so that is what the index holds after any PACK.
PackReindexes ==
    [][\A marked \in 0..Len(table) :
           Pack(marked) => ndx' = Built(Filed(table', unique))]_vars

\* data-definition-and-manipulation.md:523 of ZAP: it "empties all open index
\* files" - so the index of an empty table files nothing.
ZapEmptiesIndex == table = <<>> => Inorder(ndx) = <<>>

\* ndx.h:736 of ndx_delete_key: a pair that is not found was never inserted,
\* "which is a coding bug" of the caller - so no REPLACE asks for one.
NoKeyIsMissing == ~missing
============================================================================
