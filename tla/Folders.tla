------------------------------ MODULE Folders -------------------------------
(* What the directories of a volume promise: a tree of named folders and      *)
(* files that changes by one whole operation at a time.                       *)
EXTENDS Integers

CONSTANTS Ids,     \* identities of folders
          Names

VARIABLE entries   \* what is named, and where

Root == 0
File == 0          \* a file has no identity of its own here

Entry == [in: Ids \cup {Root}, name: Names, id: Ids \cup {File}]

Exists(g)   == g = Root \/ \E e \in entries : e.id = g
Taken(g, n) == \E e \in entries : e.in = g /\ e.name = n
Empty(g)    == \A e \in entries : e.in # g

\* The folder g and those it lies in: the least set that holds, with a folder,
\* the one it is in.
Above(g) ==
  {h \in Ids \cup {Root} :
     \A A \in SUBSET (Ids \cup {Root}) :
       g \in A /\ (\A e \in entries : e.id # File /\ e.id \in A => e.in \in A) => h \in A}

Init == entries = {}

Put(e) ==
  /\ Exists(e.in) /\ ~Taken(e.in, e.name)
  /\ e.id # File => ~Exists(e.id)
  /\ entries' = entries \cup {e}

Drop(e) ==
  /\ e.id # File => Empty(e.id)
  /\ entries' = entries \ {e}

\* To another folder, under another name, or both.
Move(e, g, n) ==
  /\ Exists(g) /\ ~Taken(g, n)
  /\ e.id # File => e.id \notin Above(g)
  /\ entries' = (entries \ {e}) \cup {[in |-> g, name |-> n, id |-> e.id]}

Next ==
  \/ \E e \in Entry : Put(e)
  \/ \E e \in entries : Drop(e)
  \/ \E e \in entries, g \in Ids \cup {Root}, n \in Names : Move(e, g, n)

Spec == Init /\ [][Next]_entries

=============================================================================
