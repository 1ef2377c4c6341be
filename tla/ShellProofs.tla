---------------------------- MODULE ShellProofs -----------------------------
(* Proofs about Shell, for any lines, any batch files and any limits.        *)
EXTENDS Shell, FiniteSetTheorems, SequenceTheorems, WellFoundedInduction, TLAPS

-----------------------------------------------------------------------------
(* Numbers and lists.                                                        *)

(* Induction up to a number.                                                 *)
LEMMA UpTo ==
  ASSUME NEW n \in Nat, NEW T, 0 \in T, \A k \in 0 .. n - 1 : k \in T => k + 1 \in T
  PROVE  \A k \in 0 .. n : k \in T
  <1> DEFINE S == {k \in 0 .. n : k \notin T}
  <1>1. SUFFICES ASSUME S # {} PROVE FALSE
    OBVIOUS
  <1>2. S \subseteq Nat
    OBVIOUS
  <1>3. PICK m \in S : \A k \in S : <<k, m>> \notin OpToRel(<, Nat)
    BY <1>1, <1>2, NatLessThanWellFounded, WFMin
  <1>4. m \in 0 .. n /\ m # 0
    OBVIOUS
  <1>5. m - 1 \in 0 .. n - 1 /\ m - 1 \in Nat /\ m \in Nat /\ m - 1 < m /\ (m - 1) + 1 = m
    BY <1>4
  <1>6. m - 1 \notin S
    BY <1>3, <1>5 DEF OpToRel
  <1>7. QED
    BY <1>5, <1>6

LEMMA MinIs ==
  ASSUME NEW S \in SUBSET Nat, S # {}
  PROVE  Min(S) \in S
  <1>1. PICK m \in S : \A k \in S : <<k, m>> \notin OpToRel(<, Nat)
    BY NatLessThanWellFounded, WFMin
  <1>2. ASSUME NEW k \in S PROVE m <= k
    <2>1. k \in Nat /\ m \in Nat
      OBVIOUS
    <2>2. ASSUME k < m PROVE FALSE
      BY <1>1, <2>1, <2>2 DEF OpToRel
    <2>3. QED
      BY <2>1, <2>2
  <1>3. QED
    BY <1>2 DEF Min

LEMMA MaxIs ==
  ASSUME NEW S, NEW m \in S, S \subseteq Int, \A k \in S : k <= m
  PROVE  Max(S) = m
  <1>1. \A k \in S : k >= m => k = m
    BY SMT
  <1>2. \A k \in S : m >= k
    BY SMT
  <1>3. QED
    BY <1>1, <1>2 DEF Max

IsList(s) == s \in Seq(ToSet(s))

LEMMA ListIs ==
  ASSUME NEW s, IsList(s)
  PROVE  /\ Len(s) \in Nat /\ DOMAIN s = 1 .. Len(s)
         /\ s = <<>> <=> Len(s) = 0
         /\ \A i \in 1 .. Len(s) : s[i] \in ToSet(s)
         /\ \A x \in ToSet(s) : \E i \in 1 .. Len(s) : x = s[i]
  <1>1. s \in Seq(ToSet(s))
    BY DEF IsList
  <1>2. Len(s) \in Nat /\ DOMAIN s = 1 .. Len(s)
    BY <1>1, LenProperties
  <1>3. s = <<>> <=> Len(s) = 0
    BY <1>1, <1>2, EmptySeq
  <1>4. QED
    BY <1>2, <1>3 DEF ToSet

(* A sequence is a list of its elements.                                     *)
LEMMA SeqIsList ==
  ASSUME NEW S, NEW s \in Seq(S)
  PROVE  IsList(s)
  <1>1. Len(s) \in Nat /\ s \in [1 .. Len(s) -> S] /\ DOMAIN s = 1 .. Len(s)
    BY LenProperties
  <1>2. s \in [1 .. Len(s) -> ToSet(s)]
    BY <1>1 DEF ToSet
  <1>3. QED
    BY <1>1, <1>2, SeqDef DEF IsList

LEMMA NoneIsList == IsList(<<>>) /\ Len(<<>>) = 0
  <1>1. <<>> \in Seq({}) /\ Len(<<>>) = 0
    BY EmptySeq
  <1>2. QED
    BY <1>1, SeqIsList

Put(b, f) == Append(b, f)

(* A frame on top of others.                                                 *)
LEMMA PutIs ==
  ASSUME NEW b, IsList(b), NEW f
  PROVE  /\ IsList(Put(b, f)) /\ Len(Put(b, f)) = Len(b) + 1 /\ Put(b, f) # <<>>
         /\ \A i \in 1 .. Len(b) : Put(b, f)[i] = b[i]
         /\ Put(b, f)[Len(b) + 1] = f
         /\ Last(Put(b, f)) = f /\ Front(Put(b, f)) = b
  <1> DEFINE S == ToSet(b) \cup {f}
             t == Append(b, f)
  <1>1. b \in Seq(S) /\ f \in S
    BY SeqMonotonic DEF IsList
  <1>2. /\ t \in Seq(S) /\ t # <<>> /\ Len(t) = Len(b) + 1
        /\ \A i \in 1 .. Len(b) : t[i] = b[i]
        /\ t[Len(b) + 1] = f
    BY <1>1, AppendProperties
  <1>3. IsList(t)
    BY <1>2, SeqIsList
  <1>4. Len(b) \in Nat
    BY ListIs
  <1>5. Last(t) = f
    BY <1>2 DEF Last
  <1>6. Front(t) = b
    <2>1. /\ SubSeq(t, 1, Len(b)) \in Seq(S)
          /\ Len(SubSeq(t, 1, Len(b))) = IF 1 <= Len(b) THEN Len(b) - 1 + 1 ELSE 0
          /\ \A i \in 1 .. Len(b) - 1 + 1 : SubSeq(t, 1, Len(b))[i] = t[1 + i - 1]
      <3>1. \A i \in 1 .. Len(b) : t[i] \in S
        BY <1>2, ListIs
      <3>2. 1 \in Int /\ Len(b) \in Int
        BY <1>4
      <3>3. QED
        BY <3>1, <3>2, SubSeqProperties
    <2>2. Len(SubSeq(t, 1, Len(b))) = Len(b) /\ \A i \in 1 .. Len(b) : SubSeq(t, 1, Len(b))[i] = b[i]
      BY <1>2, <1>4, <2>1
    <2>3. SubSeq(t, 1, Len(b)) = b
      BY <1>1, <2>1, <2>2, SeqEqual
    <2>4. Len(t) - 1 = Len(b)
      BY <1>2, <1>4
    <2>5. QED
      BY <2>3, <2>4 DEF Front
  <1>7. QED
    BY <1>2, <1>3, <1>5, <1>6 DEF Put

(* What is on top and what is below it.                                      *)
LEMMA PeelIs ==
  ASSUME NEW s, IsList(s), s # <<>>
  PROVE  /\ IsList(Front(s)) /\ s = Put(Front(s), Last(s)) /\ Len(s) = Len(Front(s)) + 1
  <1>1. s \in Seq(ToSet(s))
    BY DEF IsList
  <1>2. PICK b \in Seq(ToSet(s)), f \in ToSet(s) : s = Append(b, f)
    BY <1>1, SequenceEmptyOrAppend
  <1>3. IsList(b)
    BY <1>2, SeqIsList
  <1>4. s = Put(b, f)
    BY <1>2 DEF Put
  <1>5. Last(s) = f /\ Front(s) = b /\ Len(s) = Len(b) + 1
    BY <1>3, <1>4, PutIs
  <1>6. QED
    BY <1>3, <1>4, <1>5

LEMMA PutAgain ==
  ASSUME NEW b, IsList(b), NEW g
  PROVE  b \o <<>> = b /\ b \o <<g>> = Put(b, g)
  <1> DEFINE S == ToSet(b) \cup {g}
  <1>1. b \in Seq(S) /\ g \in S
    BY SeqMonotonic DEF IsList
  <1>2. Append(b, g) = b \o <<g>>
    BY <1>1, AppendIsConcat
  <1>3. b \o <<>> = b
    BY <1>1, ConcatEmptySeq
  <1>4. QED
    BY <1>2, <1>3 DEF Put

-----------------------------------------------------------------------------
(* What the lines ask for.                                                   *)

(* d and all that it runs, IF, FOR and COMMAND /C inside each other, are      *)
(* among A.                                                                  *)
Within(d, A) == \E S \in SUBSET A : d \in S /\ \A e \in S : e.op \in Nesting => e.body \in S

(* Changing no directory, and starting no batch but those in K.              *)
Steady(K) == {e \in Commands : e.op # "cd" /\ (e.op \in {"call", "run"} => e.file \in K)}

Quiet   == {e \in Commands : e.op \notin {"call", "run"}}
ByCall  == {e \in Commands : e.op # "run"}
Showing == {e \in Commands : e.op = "slash" => Within(e.body, Quiet)}

AllWithin(line, A) == \A s \in ToSet(line) : Within(s.do, A)

AnyLine == Typed \cup UNION {ToSet(Texts[file]) : file \in DOMAIN Texts}

SafeIn(K) ==
  /\ K \subseteq DOMAIN Texts
  /\ \A file \in K : \A line \in ToSet(Texts[file]) : AllWithin(line, Steady(K))
  /\ \A line \in AnyLine : Len(line) > 1 => AllWithin(line, Steady(K))

(* Nothing that a pipeline runs, through whatever batches, changes the       *)
(* directory.                                                                *)
PipesStay == \E K : SafeIn(K)
InPipes   == CHOOSE K : SafeIn(K)

(* No batch names another without CALL.                                      *)
BatchesCall == \A file \in DOMAIN Texts : \A line \in ToSet(Texts[file]) : AllWithin(line, ByCall)

(* No batch starts one below COMMAND /C.                                     *)
NoneHidden == \A file \in DOMAIN Texts : \A line \in ToSet(Texts[file]) : AllWithin(line, Showing)

LEMMA WithinIs ==
  ASSUME NEW A, NEW d, Within(d, A)
  PROVE  d \in A /\ (d.op \in Nesting => Within(d.body, A))
  BY DEF Within

LEMMA SafeIs == PipesStay => SafeIn(InPipes)
  BY DEF PipesStay, InPipes

-----------------------------------------------------------------------------
(* Levels.  What holds below a place in the stack: the handles, the items    *)
(* and the batch that must be found again once the frames above have ended.  *)

(* What f makes of the table.                                                *)
Rewired(f, j) ==
  IF f.at # "scope" \/ f.pc = "open" \/ f.file = NoHandle THEN j
  ELSE IF f.pc = "dup" THEN [j EXCEPT ![f.file] = f.name]
  ELSE IF f.pc = "dup2" THEN [j EXCEPT ![f.file] = f.name, ![f.saved] = j[f.h]]
  ELSE [j EXCEPT ![f.file] = f.name, ![f.saved] = j[f.h], ![f.h] = f.name]

(* A frame with others above it waits for them.  A pipeline that has begun a *)
(* stage and opened nothing for it is "unfed".                               *)
Readiness(f) ==
  IF f.at = "do" \/ (f.at = "scope" /\ f.pc # "run") \/ (f.at = "pipe" /\ f.i = 0) THEN "busy"
  ELSE IF f.at = "pipe" /\ ~f.halted /\ f.made = <<>> THEN "unfed" ELSE "waits"

Kinds(f, v) == {f.at} \cup (IF f.at = "batch" /\ "pipe" \in v.under THEN {"inside"} ELSE {})

AllNames(f, items)  == IF f.at = "for" THEN items \o f.do.set ELSE items
AllMade(f, made)    == IF f.at = "pipe" THEN made \cup ToSet(f.made) ELSE made
ItemAt(f, item)     == IF f.at = "for" THEN f.do.set[f.next - 1] ELSE item
BatchAt(f, i, b)    == IF f.at = "batch" THEN i ELSE IF f.at = "slash" THEN 0 ELSE b
BatchesAt(f, i, bs) == IF f.at = "batch" THEN bs \cup {i} ELSE bs
TextAt(f, text)     == IF f.at = "batch" THEN f.file ELSE text

(* The level above the frame f, the i-th, on top of the level v.             *)
LevelOn(f, i, v) ==
  [jft |-> Rewired(f, v.jft), names |-> AllNames(f, v.names), made |-> AllMade(f, v.made),
   item |-> ItemAt(f, v.item), under |-> v.under \cup Kinds(f, v),
   batch |-> BatchAt(f, i, v.batch), batches |-> BatchesAt(f, i, v.batches),
   text |-> TextAt(f, v.text), ready |-> Readiness(f), at |-> f.at]

Base ==
  [jft |-> AtFirst, names |-> <<>>, made |-> {}, item |-> 0, under |-> {},
   batch |-> 0, batches |-> {}, text |-> "none", ready |-> "waits", at |-> "prompt"]

(* w is the level above f on v, field by field.                              *)
Above(f, i, v, w) ==
  /\ w.jft = Rewired(f, v.jft) /\ w.names = AllNames(f, v.names)
  /\ w.made = AllMade(f, v.made) /\ w.item = ItemAt(f, v.item)
  /\ w.under = v.under \cup Kinds(f, v) /\ w.batch = BatchAt(f, i, v.batch)
  /\ w.batches = BatchesAt(f, i, v.batches) /\ w.text = TextAt(f, v.text)
  /\ w.ready = Readiness(f) /\ w.at = f.at

LEMMA AfterIs ==
  ASSUME NEW f, NEW i, NEW v
  PROVE  Above(f, i, v, LevelOn(f, i, v))
  BY DEF Above, LevelOn

(* A table of handles: the standard ones are open.                           *)
IsTable(j) == j = [h \in Handles |-> j[h]] /\ j[Stdin] # Closed /\ j[Stdout] # Closed

IsLevel(v, n) ==
  /\ PipesStay => IsTable(v.jft)
  /\ IsList(v.names)
  /\ v.batches \subseteq 1 .. n /\ v.batch \in {0} \cup v.batches
  /\ v.batch # 0 => \A k \in v.batches : k <= v.batch
  /\ "pipe" \notin v.under => v.made = {}
  /\ v.batches # {} => v.text \in DOMAIN Texts
  /\ "inside" \in v.under => "pipe" \in v.under
  /\ PipesStay /\ "inside" \in v.under /\ v.batch # 0 => v.text \in InPipes

(* What may run at a level.                                                  *)
Allowed(d, v) ==
  /\ Within(d, Commands)
  /\ PipesStay /\ "pipe" \in v.under => Within(d, Steady(InPipes))
  /\ BatchesCall /\ v.batches # {} => Within(d, ByCall)
  /\ NoneHidden /\ v.batches # {} => Within(d, Showing)
  /\ NoneHidden /\ v.batches # {} /\ v.batch = 0 => Within(d, Quiet)

(* What a scope opens.                                                       *)
NameFits(kind, name, v) ==
  /\ kind \in {"in", "out"} => name # Closed /\ ~IsTemp(name)
  /\ kind = "feed" /\ PipesStay => name \in v.made

ScopeKinds == {"in", "out", "feed", "pipe"}

(* The rest of a stage: scopes, then the command.                            *)
IsFresh(s) == s = Scope(s.kind, s.name)
Errand(w, v, at) ==
  /\ IsList(w) /\ w # <<>>
  /\ \A i \in 1 .. Len(w) - 1 :
       /\ IsFresh(w[i]) /\ w[i].kind \in ScopeKinds /\ NameFits(w[i].kind, w[i].name, v)
       /\ w[i].kind = "pipe" => i = 1 /\ at = "pipe"
  /\ w[Len(w)] = Do(w[Len(w)].do, 0) /\ Allowed(w[Len(w)].do, v)

-----------------------------------------------------------------------------
(* The frames that fit on a level.                                           *)

DoFits(f, v) ==
  /\ f = [at |-> "do", do |-> f.do, item |-> f.item]
  /\ Allowed(f.do, v)
  /\ f.item # 0 => "for" \in v.under /\ f.item = v.item

(* The handles of a scope: nobody else's, and none if it could not be set up *)
(* for want of one.                                                          *)
Wired(s, v) ==
  \/ s.pc = "open" /\ s.file = NoHandle /\ s.saved = NoHandle /\ ~s.deaf
  \/ s.pc = "run" /\ s.file = NoHandle /\ s.saved = NoHandle /\ s.deaf
  \/ /\ s.pc \in {"dup", "dup2", "run"} /\ ~s.deaf /\ s.name # Closed
     /\ s.file \in Handles /\ v.jft[s.file] = Closed
     /\ IF s.pc = "dup" THEN s.saved = NoHandle
        ELSE s.saved \in Handles /\ v.jft[s.saved] = Closed /\ s.saved # s.file

IsScope(s) ==
  s = [at |-> "scope", kind |-> s.kind, name |-> s.name, pc |-> s.pc, h |-> s.h,
       file |-> s.file, saved |-> s.saved, deaf |-> s.deaf, rest |-> s.rest]

ScopeFits(s, v) ==
  /\ IsScope(s)
  /\ s.kind \in ScopeKinds /\ s.pc \in {"open", "dup", "dup2", "run"} /\ s.deaf \in BOOLEAN
  /\ s.h = IF s.kind \in {"in", "feed"} THEN Stdin ELSE Stdout
  /\ Errand(s.rest, v, "scope")
  /\ s.pc = "open" => NameFits(s.kind, s.name, v)
  /\ s.kind = "feed" /\ s.pc # "run" /\ PipesStay => s.name \in v.made
  /\ s.pc # "run" /\ s.kind = "pipe" => v.at = "pipe"
  /\ PipesStay => Wired(s, v)

IsPipe(f) ==
  f = [at |-> "pipe", line |-> f.line, i |-> f.i, made |-> f.made, halted |-> f.halted]

PipeFits(f, v) ==
  /\ IsPipe(f)
  /\ IsLine(f.line) /\ Len(f.line) > 1 /\ f.i \in 0 .. Len(f.line)
  /\ \A s \in ToSet(f.line) :
       Allowed(s.do, v) /\ (PipesStay => Within(s.do, Steady(InPipes)))
  /\ IsList(f.made) /\ f.halted \in BOOLEAN
  /\ f.i = 0 => f.made = <<>> /\ ~f.halted
  /\ PipesStay => \A t \in ToSet(f.made) :
       IsTemp(t) /\ t # Closed /\ t \notin v.made /\ t \notin UserFiles

IfFits(f) == f = [at |-> "if"]

ForFits(f, v) ==
  /\ f = [at |-> "for", do |-> f.do, mark |-> f.mark, next |-> f.next, batch |-> f.batch,
          left |-> f.left]
  /\ f.do.op = "for" /\ Allowed(f.do, v)
  /\ f.mark = Len(v.names) /\ IsList(f.do.set) /\ f.next \in 1 .. Len(f.do.set) + 1

SlashFits(f, v) ==
  /\ f = [at |-> "slash", leaving |-> f.leaving, batch |-> f.batch]
  /\ f.leaving \in BOOLEAN /\ (f.leaving => "slash" \in v.under)
  /\ f.batch = v.batch

BatchFits(f, v) ==
  /\ f = [at |-> "batch", file |-> f.file, pos |-> f.pos, cancelled |-> f.cancelled,
          prev |-> f.prev]
  /\ f.cancelled \in BOOLEAN /\ f.prev = v.batch /\ f.file \in DOMAIN Texts
  /\ PipesStay /\ "pipe" \in v.under => f.file \in InPipes
  /\ NoneHidden /\ f.prev = 0 => v.batches = {}
  /\ BatchesCall /\ f.prev # 0 => v.at = "call"

CallFits(f, v) ==
  /\ f = [at |-> "call", caller |-> f.caller]
  /\ f.caller = v.batch
  /\ NoneHidden /\ f.caller = 0 => v.batches = {}

(* Only a pipe's scope comes on top of a pipeline that is unfed.             *)
Bears(f, v) ==
  \/ v.ready = "waits"
  \/ v.ready = "unfed" /\ f.at = "scope" /\ f.kind = "pipe" /\ f.pc = "open"

Fits(f, v) ==
  /\ Bears(f, v)
  /\ \/ DoFits(f, v) \/ ScopeFits(f, v) \/ PipeFits(f, v) \/ IfFits(f)
     \/ ForFits(f, v) \/ SlashFits(f, v) \/ BatchFits(f, v) \/ CallFits(f, v)

LEMMA KindIs ==
  ASSUME NEW f, NEW v
  PROVE  /\ DoFits(f, v) => f.at = "do"
         /\ ScopeFits(f, v) => f.at = "scope"
         /\ PipeFits(f, v) => f.at = "pipe"
         /\ IfFits(f) => f.at = "if"
         /\ ForFits(f, v) => f.at = "for"
         /\ SlashFits(f, v) => f.at = "slash"
         /\ BatchFits(f, v) => f.at = "batch"
         /\ CallFits(f, v) => f.at = "call"
  <1>1. DoFits(f, v) => f.at = "do"
    BY DEF DoFits
  <1>2. ScopeFits(f, v) => f.at = "scope"
    BY DEF ScopeFits, IsScope
  <1>3. PipeFits(f, v) => f.at = "pipe"
    BY DEF PipeFits, IsPipe
  <1>4. IfFits(f) => f.at = "if"
    BY DEF IfFits
  <1>5. ForFits(f, v) => f.at = "for"
    BY DEF ForFits
  <1>6. SlashFits(f, v) => f.at = "slash"
    BY DEF SlashFits
  <1>7. BatchFits(f, v) => f.at = "batch"
    BY DEF BatchFits
  <1>8. CallFits(f, v) => f.at = "call"
    BY DEF CallFits
  <1>9. QED
    BY <1>1, <1>2, <1>3, <1>4, <1>5, <1>6, <1>7, <1>8

-----------------------------------------------------------------------------
(* A level above a level.                                                    *)

LEMMA HandlesAre ==
  Stdin \in Handles /\ Stdout \in Handles /\ Stdin # Stdout /\ NoHandle \notin Handles
  BY ShellAssumption DEF Stdin, Stdout, NoHandle, Handles

(* The handles of a scope are none of the standard ones.                     *)
LEMMA WiredIs ==
  ASSUME NEW s, NEW v, ScopeFits(s, v), IsTable(v.jft), Wired(s, v)
  PROVE  /\ s.h \in {Stdin, Stdout} /\ s.h \in Handles
         /\ s.pc = "open" \/ s.file = NoHandle \/
              (s.file \in Handles \ {Stdin, Stdout} /\ v.jft[s.file] = Closed /\ s.name # Closed)
         /\ s.saved = NoHandle \/
              (s.saved \in Handles \ {Stdin, Stdout} /\ v.jft[s.saved] = Closed /\ s.saved # s.file)
         /\ s.pc = "open" => s.file = NoHandle
         /\ s.pc = "dup" => s.saved = NoHandle
         /\ s.file = NoHandle => s.saved = NoHandle
         /\ s.pc \in {"dup", "dup2"} => s.file # NoHandle
         /\ s.pc \in {"dup2", "run"} /\ s.file # NoHandle => s.saved # NoHandle
         /\ s.pc = "run" => (s.deaf <=> s.file = NoHandle)
  <1>1. s.h \in {Stdin, Stdout} /\ s.h \in Handles
    BY HandlesAre DEF ScopeFits
  <1>2. v.jft[Stdin] # Closed /\ v.jft[Stdout] # Closed
    BY DEF IsTable
  <1>3. CASE s.pc = "open" /\ s.file = NoHandle /\ s.saved = NoHandle /\ ~s.deaf
    BY <1>1, <1>3
  <1>4. CASE s.pc = "run" /\ s.file = NoHandle /\ s.saved = NoHandle /\ s.deaf
    BY <1>1, <1>4
  <1>5. CASE /\ s.pc \in {"dup", "dup2", "run"} /\ ~s.deaf /\ s.name # Closed
             /\ s.file \in Handles /\ v.jft[s.file] = Closed
             /\ IF s.pc = "dup" THEN s.saved = NoHandle
                ELSE s.saved \in Handles /\ v.jft[s.saved] = Closed /\ s.saved # s.file
    BY <1>1, <1>2, <1>5, HandlesAre
  <1>6. QED
    BY <1>3, <1>4, <1>5 DEF Wired

LEMMA RewiredIs ==
  ASSUME NEW s, NEW v, ScopeFits(s, v), IsTable(v.jft), Wired(s, v)
  PROVE  /\ IsTable(Rewired(s, v.jft))
         /\ s.pc = "open" \/ s.file = NoHandle => Rewired(s, v.jft) = v.jft
         /\ s.pc # "open" /\ s.file # NoHandle =>
              \A h \in Handles : Rewired(s, v.jft)[h] =
                IF h = s.h /\ s.pc = "run" THEN s.name
                ELSE IF h = s.saved /\ s.pc # "dup" THEN v.jft[s.h]
                ELSE IF h = s.file THEN s.name ELSE v.jft[h]
  <1> DEFINE j == v.jft
             k == Rewired(s, j)
  <1>1. j = [h \in Handles |-> j[h]] /\ j[Stdin] # Closed /\ j[Stdout] # Closed
    BY DEF IsTable
  <1>2. CASE s.pc = "open" \/ s.file = NoHandle
    BY <1>2 DEF Rewired
  <1>3. CASE s.pc # "open" /\ s.file # NoHandle
    <2>1. /\ s.h \in {Stdin, Stdout} /\ s.h \in Handles
          /\ s.file \in Handles \ {Stdin, Stdout} /\ s.name # Closed
          /\ s.saved = NoHandle \/ (s.saved \in Handles \ {Stdin, Stdout} /\ s.saved # s.file)
          /\ s.pc \in {"dup2", "run"} => s.saved # NoHandle
      BY <1>3, WiredIs
    <2>2. s.at = "scope" /\ s.pc \in {"dup", "dup2", "run"}
      BY <1>3, KindIs DEF ScopeFits
    <2> HIDE DEF j
    <2>3. CASE s.pc = "dup"
      <3>1. k = [j EXCEPT ![s.file] = s.name]
        BY <1>3, <2>2, <2>3 DEF Rewired
      <3>2. k = [h \in Handles |-> k[h]] /\ \A h \in Handles : k[h] = IF h = s.file THEN s.name ELSE j[h]
        BY <1>1, <2>1, <3>1
      <3>3. QED
        BY <1>1, <1>3, <2>1, <2>3, <3>2, HandlesAre DEF IsTable, j
    <2>4. CASE s.pc = "dup2"
      <3>1. k = [j EXCEPT ![s.file] = s.name, ![s.saved] = j[s.h]]
        BY <1>3, <2>2, <2>4 DEF Rewired
      <3>2. /\ k = [h \in Handles |-> k[h]]
            /\ \A h \in Handles : k[h] = IF h = s.saved THEN j[s.h]
                                         ELSE IF h = s.file THEN s.name ELSE j[h]
        BY <1>1, <2>1, <2>4, <3>1
      <3>3. k[Stdin] # Closed /\ k[Stdout] # Closed
        BY <1>1, <2>1, <3>2, HandlesAre
      <3>4. QED
        BY <1>3, <2>4, <3>2, <3>3 DEF IsTable, j
    <2>5. CASE s.pc = "run"
      <3>1. k = [j EXCEPT ![s.file] = s.name, ![s.saved] = j[s.h], ![s.h] = s.name]
        BY <1>3, <2>2, <2>5 DEF Rewired
      <3>2. /\ k = [h \in Handles |-> k[h]]
            /\ \A h \in Handles : k[h] = IF h = s.h THEN s.name ELSE IF h = s.saved THEN j[s.h]
                                         ELSE IF h = s.file THEN s.name ELSE j[h]
        BY <1>1, <2>1, <2>5, <3>1
      <3>3. k[Stdin] # Closed /\ k[Stdout] # Closed
        BY <1>1, <2>1, <3>2, HandlesAre
      <3>4. QED
        BY <1>3, <2>5, <3>2, <3>3 DEF IsTable, j
    <2>6. QED
      BY <2>2, <2>3, <2>4, <2>5
  <1>4. QED
    BY <1>2, <1>3

LEMMA AboveIsLevel ==
  ASSUME NEW n \in Nat, NEW v, IsLevel(v, n), NEW f, Fits(f, v), NEW w, Above(f, n + 1, v, w)
  PROVE  IsLevel(w, n + 1)
  <1>1. ASSUME PipesStay PROVE IsTable(w.jft)
    <2>1. IsTable(v.jft) /\ w.jft = Rewired(f, v.jft)
      BY <1>1 DEF IsLevel, Above
    <2>2. CASE f.at = "scope"
      <3>1. ScopeFits(f, v)
        BY <2>2, KindIs DEF Fits
      <3>2. Wired(f, v)
        BY <1>1, <3>1 DEF ScopeFits
      <3>3. QED
        BY <2>1, <3>1, <3>2, RewiredIs
    <2>3. CASE f.at # "scope"
      BY <2>1, <2>3 DEF Rewired
    <2>4. QED
      BY <2>2, <2>3
  <1>2. IsList(w.names)
    <2>1. IsList(v.names) /\ w.names = AllNames(f, v.names)
      BY DEF IsLevel, Above
    <2>2. CASE f.at = "for"
      <3>1. ForFits(f, v)
        BY <2>2, KindIs DEF Fits
      <3>2. IsList(f.do.set) /\ w.names = v.names \o f.do.set
        BY <2>1, <2>2, <3>1 DEF ForFits, AllNames
      <3> DEFINE S == ToSet(v.names) \cup ToSet(f.do.set)
      <3>3. v.names \in Seq(S) /\ f.do.set \in Seq(S)
        BY <2>1, <3>2, SeqMonotonic DEF IsList
      <3>4. w.names \in Seq(S)
        BY <3>2, <3>3, ConcatProperties
      <3>5. QED
        BY <3>4, SeqIsList
    <2>3. CASE f.at # "for"
      BY <2>1, <2>3 DEF AllNames
    <2>4. QED
      BY <2>2, <2>3
  <1>3. /\ w.batches \subseteq 1 .. n + 1 /\ w.batch \in {0} \cup w.batches
        /\ w.batch # 0 => \A k \in w.batches : k <= w.batch
    <2>1. /\ v.batches \subseteq 1 .. n /\ v.batch \in {0} \cup v.batches
          /\ v.batch # 0 => \A k \in v.batches : k <= v.batch
      BY DEF IsLevel
    <2>2. /\ w.batch = (IF f.at = "batch" THEN n + 1 ELSE IF f.at = "slash" THEN 0 ELSE v.batch)
          /\ w.batches = (IF f.at = "batch" THEN v.batches \cup {n + 1} ELSE v.batches)
      BY DEF Above, BatchAt, BatchesAt
    <2>3. CASE f.at = "batch"
      BY <2>1, <2>2, <2>3
    <2>4. CASE f.at # "batch"
      BY <2>1, <2>2, <2>4
    <2>5. QED
      BY <2>3, <2>4
  <1>4. w.under = v.under \cup Kinds(f, v) /\ w.made = AllMade(f, v.made)
    BY DEF Above
  <1>5. "pipe" \notin w.under => w.made = {}
    <2>1. ASSUME "pipe" \notin w.under PROVE w.made = {}
      <3>1. "pipe" \notin v.under /\ f.at # "pipe"
        BY <1>4, <2>1 DEF Kinds
      <3>2. QED
        BY <1>4, <3>1 DEF AllMade, IsLevel
    <2>2. QED
      BY <2>1
  <1>6. "inside" \in w.under => "inside" \in v.under \/ (f.at = "batch" /\ "pipe" \in v.under)
    <2>1. ASSUME "inside" \in w.under, "inside" \notin v.under
          PROVE  f.at = "batch" /\ "pipe" \in v.under
      <3>1. "inside" \in Kinds(f, v)
        BY <1>4, <2>1
      <3>2. f.at # "inside"
        BY KindIs DEF Fits
      <3>3. QED
        BY <3>1, <3>2 DEF Kinds
    <2>2. QED
      BY <2>1
  <1>7. "inside" \in w.under => "pipe" \in w.under
    BY <1>4, <1>6 DEF IsLevel
  <1>8. /\ w.text = (IF f.at = "batch" THEN f.file ELSE v.text)
        /\ w.batch = (IF f.at = "batch" THEN n + 1 ELSE IF f.at = "slash" THEN 0 ELSE v.batch)
        /\ f.at # "batch" => w.batches = v.batches
    BY DEF Above, TextAt, BatchAt, BatchesAt
  <1>9. /\ w.batches # {} => w.text \in DOMAIN Texts
        /\ PipesStay /\ "inside" \in w.under /\ w.batch # 0 => w.text \in InPipes
    <2>1. CASE f.at = "batch"
      <3>1. BatchFits(f, v)
        BY <2>1, KindIs DEF Fits
      <3>2. f.file \in DOMAIN Texts /\ (PipesStay /\ "pipe" \in v.under => f.file \in InPipes)
        BY <3>1 DEF BatchFits
      <3>3. "inside" \in w.under => "pipe" \in v.under
        BY <1>6 DEF IsLevel
      <3>4. QED
        BY <1>8, <2>1, <3>2, <3>3
    <2>2. CASE f.at # "batch"
      BY <1>6, <1>8, <2>2 DEF IsLevel
    <2>3. QED
      BY <2>1, <2>2
  <1>10. QED
    BY <1>1, <1>2, <1>3, <1>5, <1>7, <1>9 DEF IsLevel

LEMMA BaseIsLevel == IsLevel(Base, 0)
  <1>1. /\ Base.jft = AtFirst /\ Base.names = <<>> /\ Base.made = {} /\ Base.under = {}
        /\ Base.batch = 0 /\ Base.batches = {}
    BY DEF Base
  <1>2. IsTable(AtFirst)
    <2>1. AtFirst = [h \in Handles |-> AtFirst[h]]
      BY DEF AtFirst
    <2>2. AtFirst[Stdin] = Con /\ AtFirst[Stdout] = Con
      BY HandlesAre DEF AtFirst
    <2>3. Con # Closed
      BY DEF Con, Closed
    <2>4. QED
      BY <2>1, <2>2, <2>3 DEF IsTable
  <1>3. QED
    BY <1>1, <1>2, NoneIsList DEF IsLevel

-----------------------------------------------------------------------------
(* The stack, level by level, up to p.                                       *)

Reaches(s, p, V) ==
  /\ V[0] = Base /\ V[Len(s)] = p
  /\ \A i \in 0 .. Len(s) : IsLevel(V[i], i)
  /\ \A i \in 1 .. Len(s) : Fits(s[i], V[i - 1]) /\ Above(s[i], i, V[i - 1], V[i])

Holds(s, p) == IsList(s) /\ \E V : Reaches(s, p, V)

LEMMA HoldsIs ==
  ASSUME NEW s, NEW p, Holds(s, p)
  PROVE  IsLevel(p, Len(s)) /\ IsList(s) /\ Len(s) \in Nat
  <1>1. Len(s) \in Nat /\ IsList(s)
    BY ListIs DEF Holds
  <1>2. QED
    BY <1>1 DEF Holds, Reaches

LEMMA NothingHolds == Holds(<<>>, Base) /\ \A p : Holds(<<>>, p) => p = Base
  <1>1. Len(<<>>) = 0 /\ IsList(<<>>)
    BY NoneIsList
  <1>2. Reaches(<<>>, Base, [i \in 0 .. 0 |-> Base])
    BY <1>1, BaseIsLevel DEF Reaches
  <1>3. QED
    BY <1>1, <1>2 DEF Holds, Reaches

LEMMA PopIs ==
  ASSUME NEW b, IsList(b), NEW f, NEW p, Holds(Put(b, f), p)
  PROVE  \E v : Holds(b, v) /\ Fits(f, v) /\ Above(f, Len(b) + 1, v, p)
  <1> DEFINE s == Put(b, f)
             n == Len(b)
  <1>1. /\ n \in Nat /\ Len(s) = n + 1 /\ s[n + 1] = f
        /\ \A i \in 1 .. n : s[i] = b[i]
    BY PutIs, ListIs
  <1>2. PICK V : Reaches(s, p, V)
    BY DEF Holds
  <1> HIDE DEF s, n
  <1>3. /\ V[0] = Base /\ V[n + 1] = p
        /\ \A i \in 0 .. n + 1 : IsLevel(V[i], i)
        /\ \A i \in 1 .. n + 1 : Fits(s[i], V[i - 1]) /\ Above(s[i], i, V[i - 1], V[i])
    BY <1>1, <1>2 DEF Reaches
  <1>4. /\ \A i \in 0 .. n : IsLevel(V[i], i)
        /\ \A i \in 1 .. n : Fits(b[i], V[i - 1]) /\ Above(b[i], i, V[i - 1], V[i])
    BY <1>1, <1>3
  <1>5. Holds(b, V[n])
    BY <1>3, <1>4 DEF Holds, Reaches, n
  <1>6. n + 1 \in 1 .. n + 1 /\ (n + 1) - 1 = n
    BY <1>1
  <1>7. Fits(f, V[n]) /\ Above(f, n + 1, V[n], p)
    BY <1>1, <1>3, <1>6
  <1>8. QED
    BY <1>5, <1>7 DEF n

LEMMA PushIs ==
  ASSUME NEW b, NEW v, Holds(b, v), NEW f, Fits(f, v), NEW p, Above(f, Len(b) + 1, v, p)
  PROVE  Holds(Put(b, f), p)
  <1> DEFINE s == Put(b, f)
             n == Len(b)
  <1>1. /\ IsList(b) /\ IsList(s) /\ n \in Nat /\ Len(s) = n + 1 /\ s[n + 1] = f
        /\ \A i \in 1 .. n : s[i] = b[i]
    BY PutIs, ListIs DEF Holds
  <1>2. PICK V : Reaches(b, v, V)
    BY DEF Holds
  <1>3. IsLevel(v, n) /\ IsLevel(p, n + 1)
    BY HoldsIs, AboveIsLevel
  <1> DEFINE W == [i \in 0 .. n + 1 |-> IF i = n + 1 THEN p ELSE V[i]]
  <1>4. /\ V[0] = Base /\ V[n] = v
        /\ \A i \in 0 .. n : IsLevel(V[i], i)
        /\ \A i \in 1 .. n : Fits(b[i], V[i - 1]) /\ Above(b[i], i, V[i - 1], V[i])
    BY <1>2 DEF Reaches
  <1>5. Fits(f, V[n]) /\ Above(f, n + 1, V[n], p)
    BY <1>4
  <1> HIDE DEF n, s
  <1>6. W[0] = Base /\ W[n + 1] = p /\ \A i \in 0 .. n : W[i] = V[i]
    BY <1>1, <1>4
  <1> HIDE DEF W
  <1>7. \A i \in 0 .. n + 1 : IsLevel(W[i], i)
    <2>1. \A i \in 0 .. n + 1 : i \in 0 .. n \/ i = n + 1
      BY <1>1
    <2>2. QED
      BY <1>3, <1>4, <1>6, <2>1
  <1>8. ASSUME NEW i \in 1 .. n + 1
        PROVE  Fits(s[i], W[i - 1]) /\ Above(s[i], i, W[i - 1], W[i])
    <2>1. CASE i = n + 1
      <3>1. i - 1 = n /\ n \in 0 .. n
        BY <1>1, <2>1
      <3>2. s[i] = f /\ W[i - 1] = V[n] /\ W[i] = p
        BY <1>1, <1>6, <2>1, <3>1
      <3>3. QED
        BY <1>5, <2>1, <3>2
    <2>2. CASE i # n + 1
      <3>1. i \in 1 .. n /\ i \in 0 .. n /\ i - 1 \in 0 .. n
        BY <1>1, <2>2
      <3>2. s[i] = b[i] /\ W[i - 1] = V[i - 1] /\ W[i] = V[i]
        BY <1>1, <1>6, <3>1
      <3>3. QED
        BY <1>4, <3>1, <3>2
    <2>3. QED
      BY <2>1, <2>2
  <1>9. Reaches(s, p, W)
    BY <1>1, <1>6, <1>7, <1>8 DEF Reaches
  <1>10. QED
    BY <1>1, <1>9 DEF Holds, s

(* Frames that differ in what no level depends on: a FOR that was left, the  *)
(* cursor of a batch, a batch that was cancelled.                            *)
Resembles(g, f) ==
  \/ g = f
  \/ f.at = "for" /\ g = [f EXCEPT !.left = TRUE]
  \/ f.at = "batch" /\ \E x : g = [f EXCEPT !.pos = x]
  \/ f.at = "batch" /\ g = [f EXCEPT !.cancelled = TRUE]

LEMMA ResemblesIs ==
  ASSUME NEW f, NEW v, Fits(f, v), NEW g, Resembles(g, f), NEW i, NEW w, Above(f, i, v, w)
  PROVE  Fits(g, v) /\ Above(g, i, v, w) /\ g.at = f.at
  <1>1. CASE g = f
    BY <1>1
  <1>2. CASE f.at = "for" /\ g = [f EXCEPT !.left = TRUE]
    <2>1. ForFits(f, v)
      BY <1>2, KindIs DEF Fits
    <2>2. f \in [at : {"for"}, do : {f.do}, mark : {f.mark}, next : {f.next}, batch : {f.batch},
                 left : {f.left}]
      BY <2>1 DEF ForFits
    <2>3. g \in [at : {"for"}, do : {f.do}, mark : {f.mark}, next : {f.next}, batch : {f.batch},
                 left : {TRUE}]
      BY <1>2, <2>2
    <2> HIDE <1>2
    <2>4. /\ g = [at |-> "for", do |-> g.do, mark |-> g.mark, next |-> g.next,
                  batch |-> g.batch, left |-> g.left]
          /\ g.at = "for" /\ g.do = f.do /\ g.mark = f.mark /\ g.next = f.next
      BY <2>3
    <2>5. f.at = "for"
      BY <1>2
    <2>6. ForFits(g, v)
      BY <2>1, <2>4 DEF ForFits
    <2>7. Bears(g, v)
      BY <2>4, <2>5 DEF Fits, Bears
    <2>8. Above(g, i, v, w)
      BY <2>4, <2>5 DEF Above, Rewired, AllNames, AllMade, ItemAt, Kinds, BatchAt, BatchesAt,
                        TextAt, Readiness
    <2>9. QED
      BY <2>4, <2>5, <2>6, <2>7, <2>8 DEF Fits
  <1>3. CASE f.at = "batch" /\ ((\E x : g = [f EXCEPT !.pos = x]) \/ g = [f EXCEPT !.cancelled = TRUE])
    <2>1. BatchFits(f, v)
      BY <1>3, KindIs DEF Fits
    <2>2. f \in [at : {"batch"}, file : {f.file}, pos : {f.pos}, cancelled : BOOLEAN,
                 prev : {f.prev}]
      BY <2>1 DEF BatchFits
    <2>3. \E x : g \in [at : {"batch"}, file : {f.file}, pos : {x}, cancelled : BOOLEAN,
                        prev : {f.prev}]
      <3>1. CASE \E x : g = [f EXCEPT !.pos = x]
        BY <2>2, <3>1
      <3>2. CASE g = [f EXCEPT !.cancelled = TRUE]
        BY <2>2, <3>2
      <3>3. QED
        BY <1>3, <3>1, <3>2
    <2> HIDE <1>3
    <2>4. /\ g = [at |-> "batch", file |-> g.file, pos |-> g.pos, cancelled |-> g.cancelled,
                  prev |-> g.prev]
          /\ g.at = "batch" /\ g.file = f.file /\ g.prev = f.prev /\ g.cancelled \in BOOLEAN
      BY <2>3
    <2>5. f.at = "batch"
      BY <1>3
    <2>6. BatchFits(g, v)
      BY <2>1, <2>4 DEF BatchFits
    <2>7. Bears(g, v)
      BY <2>4, <2>5 DEF Fits, Bears
    <2>8. Above(g, i, v, w)
      BY <2>4, <2>5 DEF Above, Rewired, AllNames, AllMade, ItemAt, Kinds, BatchAt, BatchesAt,
                        TextAt, Readiness
    <2>9. QED
      BY <2>4, <2>5, <2>6, <2>7, <2>8 DEF Fits
  <1>4. QED
    BY <1>1, <1>2, <1>3 DEF Resembles

AllResemble(t, s) == IsList(t) /\ Len(t) = Len(s) /\ \A i \in 1 .. Len(s) : Resembles(t[i], s[i])

LEMMA AlikeIs ==
  ASSUME NEW s, NEW p, Holds(s, p), NEW t, AllResemble(t, s)
  PROVE  Holds(t, p) /\ \A i \in 1 .. Len(s) : t[i].at = s[i].at
  <1>1. PICK V : Reaches(s, p, V)
    BY DEF Holds
  <1>2. ASSUME NEW i \in 1 .. Len(s)
        PROVE  Fits(t[i], V[i - 1]) /\ Above(t[i], i, V[i - 1], V[i]) /\ t[i].at = s[i].at
    <2>1. Fits(s[i], V[i - 1]) /\ Above(s[i], i, V[i - 1], V[i]) /\ Resembles(t[i], s[i])
      BY <1>1 DEF Reaches, AllResemble
    <2>2. QED
      BY <2>1, ResemblesIs
  <1>3. Reaches(t, p, V)
    BY <1>1, <1>2 DEF Reaches, AllResemble
  <1>4. QED
    BY <1>2, <1>3 DEF Holds, AllResemble

-----------------------------------------------------------------------------
(* What a level says of the frames below it.                                 *)

LEMMA LevelIs ==
  ASSUME NEW s, NEW p, NEW V, Reaches(s, p, V), Len(s) \in Nat, NEW k \in 1 .. Len(s)
  PROVE  /\ k - 1 \in 0 .. Len(s) - 1 /\ k - 1 \in 0 .. Len(s)
         /\ Fits(s[k], V[k - 1]) /\ Above(s[k], k, V[k - 1], V[k]) /\ IsLevel(V[k - 1], k - 1)
  BY DEF Reaches

LEMMA BatchesAre ==
  ASSUME NEW s, NEW p, Holds(s, p)
  PROVE  /\ p.batches = {i \in 1 .. Len(s) : s[i].at = "batch"}
         /\ p.batch # 0 => p.batch \in 1 .. Len(s) /\ s[p.batch].at = "batch"
                           /\ s[p.batch].file = p.text
  <1>1. Len(s) \in Nat
    BY HoldsIs
  <1>2. PICK V : Reaches(s, p, V)
    BY DEF Holds
  <1> DEFINE C(k) == /\ V[k].batches = {i \in 1 .. k : s[i].at = "batch"}
                     /\ V[k].batch # 0 => V[k].batch \in 1 .. k /\ s[V[k].batch].at = "batch"
                                          /\ s[V[k].batch].file = V[k].text
             T == {k \in 0 .. Len(s) : C(k)}
  <1>3. 0 \in T
    BY <1>1, <1>2 DEF Reaches, Base
  <1>4. ASSUME NEW k \in 0 .. Len(s) - 1, k \in T PROVE k + 1 \in T
    <2>1. k + 1 \in 1 .. Len(s) /\ k + 1 \in 0 .. Len(s) /\ (k + 1) - 1 = k
      BY <1>1
    <2>2. Above(s[k + 1], k + 1, V[k], V[k + 1])
      BY <1>1, <1>2, <2>1, LevelIs
    <2>3. /\ V[k + 1].batch = (IF s[k + 1].at = "batch" THEN k + 1
                               ELSE IF s[k + 1].at = "slash" THEN 0 ELSE V[k].batch)
          /\ V[k + 1].batches = (IF s[k + 1].at = "batch" THEN V[k].batches \cup {k + 1}
                                 ELSE V[k].batches)
          /\ V[k + 1].text = (IF s[k + 1].at = "batch" THEN s[k + 1].file ELSE V[k].text)
      BY <2>2 DEF Above, BatchAt, BatchesAt, TextAt
    <2>4. C(k)
      BY <1>4
    <2>5. 1 .. k + 1 = (1 .. k) \cup {k + 1}
      BY <1>1
    <2>6. V[k + 1].batches = {i \in 1 .. k + 1 : s[i].at = "batch"}
      BY <2>3, <2>4, <2>5
    <2>7. C(k + 1)
      BY <2>3, <2>4, <2>5, <2>6
    <2>8. QED
      BY <2>1, <2>7
  <1> HIDE DEF C
  <1>5. T \subseteq 0 .. Len(s)
    OBVIOUS
  <1> HIDE DEF T
  <1>6. \A k \in 0 .. Len(s) : k \in T
    BY <1>1, <1>3, <1>4, UpTo
  <1>7. C(Len(s))
    BY <1>1, <1>6 DEF T
  <1>8. V[Len(s)] = p
    BY <1>2 DEF Reaches
  <1>9. QED
    BY <1>7, <1>8 DEF C

LEMMA UnderIs ==
  ASSUME NEW s, NEW p, Holds(s, p), NEW kind \in {"for", "slash", "pipe", "batch"}
  PROVE  kind \in p.under <=> \E i \in 1 .. Len(s) : s[i].at = kind
  <1>1. Len(s) \in Nat
    BY HoldsIs
  <1>2. PICK V : Reaches(s, p, V)
    BY DEF Holds
  <1> DEFINE C(k) == kind \in V[k].under <=> \E i \in 1 .. k : s[i].at = kind
             T == {k \in 0 .. Len(s) : C(k)}
  <1>3. 0 \in T
    BY <1>1, <1>2 DEF Reaches, Base
  <1>4. ASSUME NEW k \in 0 .. Len(s) - 1, k \in T PROVE k + 1 \in T
    <2>1. k + 1 \in 1 .. Len(s) /\ k + 1 \in 0 .. Len(s) /\ (k + 1) - 1 = k
      BY <1>1
    <2>2. Above(s[k + 1], k + 1, V[k], V[k + 1])
      BY <1>1, <1>2, <2>1, LevelIs
    <2>3. kind \in V[k + 1].under <=> kind \in V[k].under \/ s[k + 1].at = kind
      BY <2>2 DEF Above, Kinds
    <2>4. C(k)
      BY <1>4
    <2>5. \A i : i \in 1 .. k + 1 <=> i \in 1 .. k \/ i = k + 1
      BY <1>1
    <2>6. C(k + 1)
      BY <2>3, <2>4, <2>5
    <2>7. QED
      BY <2>1, <2>6
  <1> HIDE DEF T
  <1>5. \A k \in 0 .. Len(s) : k \in T
    BY <1>1, <1>3, <1>4, UpTo
  <1>6. C(Len(s))
    BY <1>1, <1>5 DEF T
  <1>7. V[Len(s)] = p
    BY <1>2 DEF Reaches
  <1>8. QED
    BY <1>6, <1>7

(* The last of the frames in question, among the first k.                    *)
LastOf(S, j, k) == j \in S /\ j <= k /\ \A i \in S : i <= k => i <= j

Fors(s) == {i \in DOMAIN s : s[i].at = "for"}

LEMMA ItemIs ==
  ASSUME NEW s, NEW p, Holds(s, p), "for" \in p.under
  PROVE  Fors(s) # {} /\ p.item = s[Max(Fors(s))].do.set[s[Max(Fors(s))].next - 1]
  <1>1. Len(s) \in Nat /\ DOMAIN s = 1 .. Len(s)
    BY HoldsIs, ListIs
  <1>2. PICK V : Reaches(s, p, V)
    BY DEF Holds
  <1> DEFINE Nth(j) == s[j].do.set[s[j].next - 1]
             C(k) == "for" \in V[k].under => \E j : LastOf(Fors(s), j, k) /\ V[k].item = Nth(j)
             T == {k \in 0 .. Len(s) : C(k)}
  <1>3. 0 \in T
    BY <1>1, <1>2 DEF Reaches, Base
  <1>4. ASSUME NEW k \in 0 .. Len(s) - 1, k \in T PROVE k + 1 \in T
    <2>1. k + 1 \in 1 .. Len(s) /\ k + 1 \in 0 .. Len(s) /\ (k + 1) - 1 = k /\ k \in Nat
      BY <1>1
    <2>2. Above(s[k + 1], k + 1, V[k], V[k + 1])
      BY <1>1, <1>2, <2>1, LevelIs
    <2>3. C(k)
      BY <1>4
    <2>4. CASE s[k + 1].at = "for"
      <3>1. V[k + 1].item = Nth(k + 1)
        BY <2>2, <2>4 DEF Above, ItemAt
      <3>2. LastOf(Fors(s), k + 1, k + 1)
        BY <1>1, <2>1, <2>4 DEF LastOf, Fors
      <3>3. QED
        BY <2>1, <3>1, <3>2
    <2>5. CASE s[k + 1].at # "for"
      <3>1. V[k + 1].item = V[k].item /\ ("for" \in V[k + 1].under => "for" \in V[k].under)
        BY <2>2, <2>5 DEF Above, ItemAt, Kinds
      <3>2. ASSUME NEW j, LastOf(Fors(s), j, k) PROVE LastOf(Fors(s), j, k + 1)
        BY <1>1, <2>1, <2>5, <3>2 DEF LastOf, Fors
      <3>3. QED
        BY <2>1, <2>3, <3>1, <3>2
    <2>6. QED
      BY <2>4, <2>5
  <1> HIDE DEF T
  <1>5. \A k \in 0 .. Len(s) : k \in T
    BY <1>1, <1>3, <1>4, UpTo
  <1>6. C(Len(s)) /\ V[Len(s)] = p
    BY <1>1, <1>2, <1>5 DEF T, Reaches
  <1>7. PICK j : LastOf(Fors(s), j, Len(s)) /\ p.item = Nth(j)
    BY <1>6
  <1>8. j \in Fors(s) /\ Fors(s) \subseteq Int /\ \A i \in Fors(s) : i <= j
    BY <1>1, <1>7 DEF LastOf, Fors
  <1>9. Max(Fors(s)) = j
    BY <1>8, MaxIs
  <1>10. QED
    BY <1>7, <1>8, <1>9

ScopesOf(s, h) == {i \in DOMAIN s : s[i].at = "scope" /\ s[i].h = h /\ ~s[i].deaf}

LEMMA AskedIs ==
  ASSUME PipesStay, NEW s, NEW p, Holds(s, p), p.ready # "busy", NEW h \in {Stdin, Stdout}
  PROVE  p.jft[h] = IF ScopesOf(s, h) = {} THEN Con ELSE s[Max(ScopesOf(s, h))].name
  <1>1. Len(s) \in Nat /\ DOMAIN s = 1 .. Len(s)
    BY HoldsIs, ListIs
  <1>2. PICK V : Reaches(s, p, V)
    BY DEF Holds
  <1> DEFINE S == ScopesOf(s, h)
             C(k) == \/ V[k].jft[h] = Con /\ \A i \in S : ~(i <= k)
                     \/ \E j : LastOf(S, j, k) /\ V[k].jft[h] = s[j].name
             T == {k \in 0 .. Len(s) : C(k)}
  <1>3. S \subseteq 1 .. Len(s)
    BY <1>1 DEF ScopesOf
  <1>4. 0 \in T
    <2>1. V[0].jft[h] = Con
      BY <1>2, HandlesAre DEF Reaches, Base, AtFirst
    <2>2. \A i \in S : ~(i <= 0)
      BY <1>1, <1>3
    <2>3. QED
      BY <1>1, <2>1, <2>2
  <1>5. ASSUME NEW k \in 0 .. Len(s) - 1, k \in T PROVE k + 1 \in T
    <2>1. k + 1 \in 1 .. Len(s) /\ k + 1 \in 0 .. Len(s) /\ (k + 1) - 1 = k /\ k \in Nat
      BY <1>1
    <2> DEFINE f == s[k + 1]
               v == V[k]
               w == V[k + 1]
    <2>2. Above(f, k + 1, v, w) /\ Fits(f, v) /\ IsLevel(v, k)
      BY <1>1, <1>2, <2>1, LevelIs
    <2>3. C(k)
      BY <1>5
    <2>4. w.ready # "busy"
      <3>1. CASE k + 1 = Len(s)
        BY <1>2, <3>1 DEF Reaches
      <3>2. CASE k + 1 # Len(s)
        <4> DEFINE n == Len(s)
        <4>3. k \in Nat /\ n \in Nat /\ k + 1 \in 1 .. n /\ k + 1 # n
          BY <1>1, <2>1, <3>2
        <4> HIDE DEF n
        <4>4. (k + 1) + 1 \in 1 .. n /\ ((k + 1) + 1) - 1 = k + 1
          BY <4>3
        <4>1. (k + 1) + 1 \in 1 .. Len(s) /\ ((k + 1) + 1) - 1 = k + 1
          BY <4>4 DEF n
        <4>2. Fits(s[(k + 1) + 1], w)
          BY <1>1, <1>2, <4>1, LevelIs
        <4>5. QED
          BY <4>2 DEF Fits, Bears
      <3>3. QED
        BY <3>1, <3>2
    <2>5. w.jft = Rewired(f, v.jft) /\ w.ready = Readiness(f)
      BY <2>2 DEF Above
    <2>6. IsTable(v.jft)
      BY <2>2 DEF IsLevel
    <2> HIDE DEF f, v, w
    <2>7. CASE f.at = "scope"
      <3>1. ScopeFits(f, v)
        BY <2>2, <2>7, KindIs DEF Fits
      <3>2. f.pc = "run"
        BY <2>4, <2>5, <2>7 DEF Readiness
      <3>3. Wired(f, v)
        BY <3>1 DEF ScopeFits
      <3>4. /\ f.h \in {Stdin, Stdout} /\ (f.deaf <=> f.file = NoHandle)
            /\ f.file = NoHandle \/ f.file \in Handles \ {Stdin, Stdout}
            /\ f.saved = NoHandle \/ f.saved \in Handles \ {Stdin, Stdout}
        BY <2>6, <3>1, <3>2, <3>3, WiredIs
      <3>5. CASE f.h = h /\ ~f.deaf
        <4>1. w.jft[h] = f.name
          BY <2>5, <2>6, <3>1, <3>2, <3>3, <3>4, <3>5, RewiredIs, HandlesAre
        <4>2. k + 1 \in S
          BY <1>1, <2>1, <2>7, <3>5 DEF ScopesOf, f
        <4>3. LastOf(S, k + 1, k + 1)
          BY <2>1, <4>2 DEF LastOf
        <4>4. QED
          BY <2>1, <4>1, <4>3 DEF f, w
      <3>6. CASE f.h # h \/ f.deaf
        <4>1. w.jft[h] = v.jft[h]
          <5>1. h \in Handles /\ h # NoHandle
            BY HandlesAre
          <5>2. CASE f.deaf
            BY <2>5, <2>6, <3>1, <3>3, <3>4, <5>2, RewiredIs
          <5>3. CASE ~f.deaf /\ f.h # h
            BY <2>5, <2>6, <3>1, <3>2, <3>3, <3>4, <5>1, <5>3, RewiredIs
          <5>4. QED
            BY <3>6, <5>2, <5>3
        <4>2. k + 1 \notin S
          BY <1>1, <2>1, <3>6 DEF ScopesOf, f
        <4>3. \A i \in S : i <= k + 1 => i <= k
          BY <1>1, <1>3, <2>1, <4>2
        <4>4. ASSUME NEW j, LastOf(S, j, k) PROVE LastOf(S, j, k + 1)
          <5>1. j \in S /\ j \in Int /\ j <= k /\ \A i \in S : i <= k => i <= j
            BY <1>1, <1>3, <4>4 DEF LastOf
          <5>2. j <= k + 1
            BY <2>1, <5>1
          <5>3. QED
            BY <4>3, <5>1, <5>2 DEF LastOf
        <4>5. QED
          BY <2>1, <2>3, <4>1, <4>3, <4>4 DEF v, w
      <3>7. QED
        BY <3>5, <3>6
    <2>8. CASE f.at # "scope"
      <3>1. w.jft = v.jft
        BY <2>5, <2>8 DEF Rewired
      <3>2. k + 1 \notin S
        BY <2>8 DEF ScopesOf, f
      <3>3. \A i \in S : i <= k + 1 => i <= k
        BY <1>1, <1>3, <2>1, <3>2
      <3>4. ASSUME NEW j, LastOf(S, j, k) PROVE LastOf(S, j, k + 1)
        <4>1. j \in S /\ j \in Int /\ j <= k /\ \A i \in S : i <= k => i <= j
          BY <1>1, <1>3, <3>4 DEF LastOf
        <4>2. j <= k + 1
          BY <2>1, <4>1
        <4>3. QED
          BY <3>3, <4>1, <4>2 DEF LastOf
      <3>5. QED
        BY <2>1, <2>3, <3>1, <3>3, <3>4 DEF v, w
    <2>9. QED
      BY <2>7, <2>8
  <1> HIDE DEF T, S
  <1>6. \A k \in 0 .. Len(s) : k \in T
    BY <1>1, <1>4, <1>5, UpTo
  <1>7. C(Len(s)) /\ V[Len(s)] = p
    BY <1>1, <1>2, <1>6 DEF T, Reaches
  <1>8. \A i \in S : i <= Len(s)
    BY <1>1, <1>3
  <1>9. CASE p.jft[h] = Con /\ \A i \in S : ~(i <= Len(s))
    BY <1>8, <1>9 DEF S
  <1>10. CASE \E j : LastOf(S, j, Len(s)) /\ p.jft[h] = s[j].name
    <2>1. PICK j : LastOf(S, j, Len(s)) /\ p.jft[h] = s[j].name
      BY <1>10
    <2>2. j \in S /\ S \subseteq Int /\ \A i \in S : i <= j
      BY <1>1, <1>3, <1>8, <2>1 DEF LastOf
    <2>3. Max(S) = j
      BY <2>2, MaxIs
    <2>4. QED
      BY <2>1, <2>2, <2>3 DEF S
  <1>11. QED
    BY <1>7, <1>9, <1>10

-----------------------------------------------------------------------------
(* The invariant: the state is that of the level at the top of the stack.    *)

Flagged(p) ==
  /\ latched \in BOOLEAN /\ ended \in BOOLEAN /\ leaving \in BOOLEAN
  /\ leaving => "slash" \in p.under
  /\ latched => p.ready = "waits"
  /\ p.ready # "unfed"

(* A batch ended with Y takes all batches along.                             *)
Cancelled(p) == NoneHidden /\ ended => latched /\ \A i \in p.batches : stack[i].cancelled

Reads(p) ==
  /\ p.batches # {} => buf \in DOMAIN Texts
  /\ NoneHidden /\ BatchesCall /\ p.batches # {} /\ p.at # "call" => buf = p.text
  /\ PipesStay /\ "inside" \in p.under => buf \in InPipes

Temps(S) == {f \in S : IsTemp(f)}

Stored(p) ==
  PipesStay =>
    /\ jft = p.jft /\ IsFiniteSet(files)
    /\ Temps(files) = Temps(UserFiles) \cup p.made
    /\ \A t \in p.made : t = Here(t)

Matches(p) ==
  /\ Flagged(p) /\ Cancelled(p)
  /\ p.names = names /\ p.batch = batch
  /\ Reads(p) /\ Stored(p)

Inv == \E p : Holds(stack, p) /\ Matches(p)

On(p, v) == Holds(Below, v) /\ Fits(Top, v) /\ Above(Top, Len(stack), v, p)

LEMMA StackIs ==
  ASSUME IsList(stack), stack # <<>>
  PROVE  /\ IsList(Below) /\ Len(Below) \in Nat /\ stack = Put(Below, Top)
         /\ Len(stack) = Len(Below) + 1 /\ DOMAIN stack = 1 .. Len(stack)
         /\ stack[Len(stack)] = Top /\ \A i \in 1 .. Len(Below) : stack[i] = Below[i]
  <1>1. IsList(Below) /\ stack = Put(Below, Top) /\ Len(stack) = Len(Below) + 1
    BY PeelIs DEF Below, Top
  <1>2. Len(Below) \in Nat /\ DOMAIN stack = 1 .. Len(stack)
    BY <1>1, ListIs
  <1>3. stack[Len(Below) + 1] = Top /\ \A i \in 1 .. Len(Below) : stack[i] = Below[i]
    BY <1>1, PutIs
  <1>4. QED
    BY <1>1, <1>2, <1>3

LEMMA TopIs ==
  ASSUME NEW p, Holds(stack, p), stack # <<>>
  PROVE  IsList(stack) /\ IsList(Below) /\ \E v : On(p, v)
  <1>1. IsList(stack)
    BY DEF Holds
  <1>2. IsList(Below) /\ stack = Put(Below, Top) /\ Len(stack) = Len(Below) + 1
    BY <1>1, StackIs
  <1>3. \E v : Holds(Below, v) /\ Fits(Top, v) /\ Above(Top, Len(Below) + 1, v, p)
    BY <1>2, PopIs
  <1>4. QED
    BY <1>1, <1>2, <1>3 DEF On

LEMMA BelowIs ==
  ASSUME NEW f, NEW i, NEW v, NEW p, Above(f, i, v, p)
  PROVE  /\ f.at # "scope" => p.jft = v.jft
         /\ f.at # "for" => p.names = v.names /\ p.item = v.item
         /\ f.at # "pipe" => p.made = v.made
         /\ f.at \notin {"batch", "slash"} => p.batch = v.batch
         /\ f.at # "batch" => p.batches = v.batches /\ p.text = v.text
         /\ f.at # "batch" => p.under = v.under \cup {f.at}
         /\ f.at = "batch" => p.batches = v.batches \cup {i} /\ p.text = f.file /\ p.batch = i
         /\ f.at = "slash" => p.batch = 0
         /\ f.at = "for" => p.names = v.names \o f.do.set
         /\ f.at = "pipe" => p.made = v.made \cup ToSet(f.made)
         /\ v.batches \subseteq p.batches /\ v.under \subseteq p.under
         /\ p.at = f.at /\ p.ready = Readiness(f)
  BY DEF Above, AllNames, AllMade, ItemAt, Kinds, BatchAt, BatchesAt, TextAt, Rewired

LEMMA OnIs ==
  ASSUME NEW p, NEW v, On(p, v)
  PROVE  /\ Holds(Below, v) /\ Fits(Top, v)
         /\ Top.at # "scope" => p.jft = v.jft
         /\ Top.at # "for" => p.names = v.names /\ p.item = v.item
         /\ Top.at # "pipe" => p.made = v.made
         /\ Top.at \notin {"batch", "slash"} => p.batch = v.batch
         /\ Top.at # "batch" => p.batches = v.batches /\ p.text = v.text
         /\ Top.at # "batch" => \A x : x \in p.under <=> x \in v.under \/ x = Top.at
         /\ v.batches \subseteq p.batches /\ v.under \subseteq p.under
         /\ p.at = Top.at /\ p.ready = Readiness(Top)
  <1>1. Holds(Below, v) /\ Fits(Top, v) /\ Above(Top, Len(stack), v, p)
    BY DEF On
  <1> DEFINE f == Top
             i == Len(stack)
  <1>2. Above(f, i, v, p)
    BY <1>1
  <1> HIDE DEF f, i
  <1>3. /\ f.at # "scope" => p.jft = v.jft
        /\ f.at # "for" => p.names = v.names /\ p.item = v.item
        /\ f.at # "pipe" => p.made = v.made
        /\ f.at \notin {"batch", "slash"} => p.batch = v.batch
        /\ f.at # "batch" => p.batches = v.batches /\ p.text = v.text
        /\ f.at # "batch" => p.under = v.under \cup {f.at}
        /\ v.batches \subseteq p.batches /\ v.under \subseteq p.under
        /\ p.at = f.at /\ p.ready = Readiness(f)
    BY <1>2 DEF Above, AllNames, AllMade, ItemAt, Kinds, BatchAt, BatchesAt, TextAt, Rewired
  <1>4. QED
    BY <1>1, <1>3 DEF f

(* What a frame rests on waits for it, unless it is an unfed pipeline.       *)
LEMMA RestsOn ==
  ASSUME NEW f, NEW v, Fits(f, v)
  PROVE  /\ f.at # "scope" \/ f.pc # "open" \/ f.kind # "pipe" => v.ready = "waits"
         /\ v.ready \in {"waits", "unfed"}
  BY DEF Fits, Bears

LEMMA BusyIs ==
  ASSUME NEW p, Matches(p), p.ready = "busy"
  PROVE  ~latched /\ (NoneHidden => ~ended)
  BY DEF Matches, Flagged, Cancelled

LEMMA CancelledBelow ==
  ASSUME NEW p, Holds(stack, p), stack # <<>>, Matches(p), NEW v, On(p, v),
         stack' = Below, ended' = ended, NoneHidden /\ ended => latched'
  PROVE  Cancelled(v)'
  <1>1. IsList(stack) /\ Len(Below) \in Nat
    BY StackIs DEF Holds
  <1>2. \A i \in 1 .. Len(Below) : stack[i] = Below[i]
    BY <1>1, StackIs
  <1>3. Holds(Below, v) /\ Above(Top, Len(stack), v, p)
    BY DEF On
  <1>4. IsLevel(v, Len(Below))
    BY <1>3, HoldsIs
  <1>5. v.batches \subseteq 1 .. Len(Below)
    BY <1>4 DEF IsLevel
  <1>6. v.batches \subseteq p.batches
    BY <1>3, BelowIs
  <1>7. QED
    BY <1>2, <1>5, <1>6 DEF Cancelled, Matches

-----------------------------------------------------------------------------
(* Commands.                                                                 *)

LEMMA SameResembles ==
  ASSUME NEW s, IsList(s)
  PROVE  AllResemble(s, s)
  BY DEF AllResemble, Resembles

(* A command that has been done, with no more than cursors and FORs changed  *)
(* below it.                                                                 *)
Done(v, t) ==
  /\ stack' = t /\ AllResemble(t, Below)
  /\ latched' \in {latched, TRUE}
  /\ leaving' \in BOOLEAN /\ (leaving' => "slash" \in v.under)
  /\ UNCHANGED <<jft, files, batch, buf, names, ended>>

LEMMA DoneIs ==
  ASSUME NEW p, Holds(stack, p), Matches(p), At("do"), NEW v, On(p, v), NEW t, Done(v, t),
         PipesStay => cwd' = cwd \/ p.made = {}
  PROVE  Inv'
  <1>1. stack # <<>> /\ Top.at = "do"
    BY DEF At
  <1>2. Holds(Below, v) /\ Fits(Top, v) /\ Above(Top, Len(stack), v, p)
    BY DEF On
  <1>3. /\ p.jft = v.jft /\ p.names = v.names /\ p.made = v.made /\ p.batch = v.batch
        /\ p.batches = v.batches /\ p.text = v.text /\ v.under \subseteq p.under
        /\ p.at = "do" /\ p.ready = "busy"
    BY <1>1, OnIs DEF Readiness
  <1>4. v.ready = "waits"
    BY <1>1, <1>2, RestsOn
  <1>5. ~latched /\ (NoneHidden => ~ended) /\ latched \in BOOLEAN /\ ended \in BOOLEAN
    BY <1>3, BusyIs DEF Matches, Flagged
  <1>6. Holds(stack', v)
    BY <1>2, AlikeIs DEF Done
  <1>7. Flagged(v)'
    BY <1>4, <1>5 DEF Flagged, Done
  <1>8. Cancelled(v)'
    BY <1>5 DEF Cancelled, Done
  <1>9. v.names = names' /\ v.batch = batch'
    BY <1>3 DEF Matches, Done
  <1>10. Reads(v)'
    BY <1>3 DEF Matches, Reads, Done
  <1>11. Stored(v)'
    BY <1>3 DEF Matches, Stored, Done, Here
  <1>12. Matches(v)'
    BY <1>7, <1>8, <1>9, <1>10, <1>11 DEF Matches
  <1>13. QED
    BY <1>6, <1>12 DEF Inv

(* A command on top of the stack, and what is below it.                      *)
LEMMA DoingIs ==
  ASSUME Inv, At("do")
  PROVE  /\ stack # <<>> /\ IsList(stack) /\ IsList(Below) /\ AllResemble(Below, Below)
         /\ \E p, v : /\ Holds(stack, p) /\ Matches(p) /\ On(p, v)
                      /\ DoFits(Top, v) /\ Holds(Below, v) /\ v.ready = "waits"
                      /\ leaving \in BOOLEAN /\ (leaving => "slash" \in v.under)
                      /\ v.under \subseteq p.under /\ p.made = v.made
                      /\ "slash" \in p.under => "slash" \in v.under
  <1>1. PICK p : Holds(stack, p) /\ Matches(p)
    BY DEF Inv
  <1>2. stack # <<>> /\ Top.at = "do"
    BY DEF At
  <1>3. IsList(stack) /\ IsList(Below)
    BY <1>1, <1>2, TopIs
  <1>4. PICK v : On(p, v)
    BY <1>1, <1>2, TopIs
  <1>5. Holds(Below, v) /\ Fits(Top, v) /\ Above(Top, Len(stack), v, p)
    BY <1>4 DEF On
  <1>6. DoFits(Top, v) /\ v.ready = "waits"
    BY <1>2, <1>5, KindIs, RestsOn DEF Fits
  <1>7. /\ \A x : x \in p.under <=> x \in v.under \/ x = "do"
        /\ p.made = v.made
    BY <1>2, <1>4, OnIs
  <1>8. leaving \in BOOLEAN /\ (leaving => "slash" \in v.under)
    BY <1>1, <1>7 DEF Matches, Flagged
  <1>9. QED
    BY <1>1, <1>2, <1>3, <1>4, <1>5, <1>6, <1>7, <1>8, SameResembles

LEMMA CommandStep == Inv /\ Command => Inv'
  <1>1. SUFFICES ASSUME Inv, Command PROVE Inv'
    OBVIOUS
  <1>2. At("do")
    BY <1>1 DEF Command, Doing
  <1>3. PICK p, v : /\ Holds(stack, p) /\ Matches(p) /\ On(p, v)
                    /\ leaving \in BOOLEAN /\ (leaving => "slash" \in v.under)
    BY <1>1, <1>2, DoingIs
  <1>4. Done(v, Below) /\ cwd' = cwd
    BY <1>1, <1>2, <1>3, DoingIs DEF Command, Returns, Done
  <1>5. QED
    BY <1>2, <1>3, <1>4, DoneIs

LEMMA ChangeDirectoryStep == Inv /\ ChangeDirectory => Inv'
  <1>1. SUFFICES ASSUME Inv, ChangeDirectory PROVE Inv'
    OBVIOUS
  <1>2. At("do") /\ Top.do.op = "cd"
    BY <1>1 DEF ChangeDirectory, Doing
  <1>3. PICK p, v : /\ Holds(stack, p) /\ Matches(p) /\ On(p, v) /\ DoFits(Top, v)
                    /\ Holds(Below, v) /\ p.made = v.made
                    /\ leaving \in BOOLEAN /\ (leaving => "slash" \in v.under)
    BY <1>1, <1>2, DoingIs
  <1>4. Done(v, Below)
    BY <1>1, <1>2, <1>3, DoingIs DEF ChangeDirectory, Returns, Done, Matches, Flagged
  <1>5. ASSUME PipesStay PROVE p.made = {}
    <2>1. ASSUME "pipe" \in v.under PROVE FALSE
      <3>1. Within(Top.do, Steady(InPipes))
        BY <1>3, <1>5, <2>1 DEF DoFits, Allowed
      <3>2. Top.do \in Steady(InPipes)
        BY <3>1, WithinIs
      <3>3. QED
        BY <1>2, <3>2 DEF Steady
    <2>2. IsLevel(v, Len(Below))
      BY <1>3, HoldsIs
    <2>3. QED
      BY <1>3, <2>1, <2>2 DEF IsLevel
  <1>6. QED
    BY <1>2, <1>3, <1>4, <1>5, DoneIs

LEMMA ExitStep == Inv /\ Exit => Inv'
  <1>1. SUFFICES ASSUME Inv, Exit PROVE Inv'
    OBVIOUS
  <1>2. At("do")
    BY <1>1 DEF Exit, Doing
  <1>3. PICK p, v : /\ Holds(stack, p) /\ Matches(p) /\ On(p, v)
                    /\ leaving \in BOOLEAN /\ (leaving => "slash" \in v.under)
                    /\ "slash" \in p.under => "slash" \in v.under
    BY <1>1, <1>2, DoingIs
  <1>4. CountOf({"slash"}) > 0 => "slash" \in v.under
    <2> DEFINE S == {i \in DOMAIN stack : stack[i].at \in {"slash"}}
    <2>1. ASSUME "slash" \notin p.under PROVE S = {}
      <3>1. DOMAIN stack = 1 .. Len(stack)
        BY <1>3, HoldsIs, ListIs
      <3>2. QED
        BY <1>3, <2>1, <3>1, UnderIs
    <2>2. S = {} => Cardinality(S) = 0
      BY FS_EmptySet
    <2>3. QED
      BY <1>3, <2>1, <2>2 DEF CountOf
  <1>5. Done(v, Below) /\ cwd' = cwd
    BY <1>1, <1>2, <1>3, <1>4, DoingIs DEF Exit, Returns, Done, Matches, Flagged
  <1>6. QED
    BY <1>2, <1>3, <1>5, DoneIs

-----------------------------------------------------------------------------
(* A frame put on a level, and the level above it.                           *)

Upon(b, g, v, u) == Above(g, Len(b) + 1, v, u) /\ Holds(Put(b, g), u)

LEMMA PutUpon ==
  ASSUME NEW b, NEW v, Holds(b, v), NEW g, Fits(g, v)
  PROVE  \E u : Upon(b, g, v, u)
  <1> DEFINE u == LevelOn(g, Len(b) + 1, v)
  <1>1. Above(g, Len(b) + 1, v, u)
    BY AfterIs
  <1> HIDE DEF u
  <1>2. Holds(Put(b, g), u)
    BY <1>1, PushIs
  <1>3. QED
    BY <1>1, <1>2 DEF Upon

LEMMA UponIs ==
  ASSUME NEW b, NEW g, NEW v, NEW u, Upon(b, g, v, u)
  PROVE  /\ Holds(Put(b, g), u)
         /\ g.at # "scope" => u.jft = v.jft
         /\ g.at # "for" => u.names = v.names /\ u.item = v.item
         /\ g.at # "pipe" => u.made = v.made
         /\ g.at \notin {"batch", "slash"} => u.batch = v.batch
         /\ g.at = "slash" => u.batch = 0
         /\ g.at # "batch" => u.batches = v.batches /\ u.text = v.text
         /\ u.at = g.at /\ u.ready = Readiness(g)
  <1> DEFINE i == Len(b) + 1
  <1>1. Above(g, i, v, u) /\ Holds(Put(b, g), u)
    BY DEF Upon
  <1> HIDE DEF i
  <1>2. QED
    BY <1>1 DEF Above, Rewired, AllNames, AllMade, ItemAt, BatchAt, BatchesAt, TextAt

LEMMA UnderUpon ==
  ASSUME NEW b, NEW g, NEW v, NEW u, Upon(b, g, v, u), NEW x
  PROVE  x \in u.under <=> x \in v.under \/ x = g.at
                            \/ (x = "inside" /\ g.at = "batch" /\ "pipe" \in v.under)
  <1>1. u.under = v.under \cup Kinds(g, v)
    BY DEF Above, Upon
  <1>2. x \in Kinds(g, v) <=> x = g.at \/ (x = "inside" /\ g.at = "batch"
                                              /\ "pipe" \in v.under)
    BY DEF Kinds
  <1>3. QED
    BY <1>1, <1>2

(* Two frames on what is below, in the place of the topmost.                 *)
LEMMA PushesTwo ==
  ASSUME NEW g, NEW h, IsList(Below), Pushes(g, <<h>>)
  PROVE  stack' = Put(Put(Below, g), h)
  <1>1. IsList(Put(Below, g))
    BY PutIs
  <1>2. stack' = Put(Below, g) \o <<h>>
    BY DEF Pushes, Put
  <1>3. QED
    BY <1>1, <1>2, PutAgain

LEMMA PushesOne ==
  ASSUME NEW g, IsList(Below), Pushes(g, <<>>)
  PROVE  stack' = Put(Below, g)
  <1>1. IsList(Put(Below, g))
    BY PutIs
  <1>2. stack' = Put(Below, g) \o <<>>
    BY DEF Pushes, Put
  <1>3. QED
    BY <1>1, <1>2, PutAgain

(* What the body of IF, FOR and COMMAND /C may be.                           *)
LEMMA BodyIs ==
  ASSUME NEW d, NEW v, Allowed(d, v), d.op \in Nesting, NEW u,
         "pipe" \in u.under => "pipe" \in v.under, u.batches = v.batches,
         u.batch = v.batch \/ d.op = "slash"
  PROVE  Allowed(d.body, u)
  <1>1. Within(d.body, Commands)
    BY WithinIs DEF Allowed
  <1>2. PipesStay /\ "pipe" \in u.under => Within(d.body, Steady(InPipes))
    BY WithinIs DEF Allowed
  <1>3. BatchesCall /\ u.batches # {} => Within(d.body, ByCall)
    BY WithinIs DEF Allowed
  <1>4. NoneHidden /\ u.batches # {} => Within(d.body, Showing)
    BY WithinIs DEF Allowed
  <1>5. NoneHidden /\ u.batches # {} /\ u.batch = 0 => Within(d.body, Quiet)
    <2>1. ASSUME NoneHidden, u.batches # {}, u.batch = 0 PROVE Within(d.body, Quiet)
      <3>1. CASE v.batch = 0
        BY <2>1, <3>1, WithinIs DEF Allowed
      <3>2. CASE d.op = "slash"
        <4>1. d \in Showing
          BY <2>1, WithinIs DEF Allowed
        <4>2. QED
          BY <3>2, <4>1 DEF Showing
      <3>3. QED
        BY <2>1, <3>1, <3>2
    <2>2. QED
      BY <2>1
  <1>6. QED
    BY <1>1, <1>2, <1>3, <1>4, <1>5 DEF Allowed

(* Two levels of the same state.                                             *)
Alike(w, p) ==
  /\ w.jft = p.jft /\ w.made = p.made /\ w.batches = p.batches /\ w.text = p.text
  /\ "slash" \in p.under => "slash" \in w.under
  /\ "inside" \in w.under => "inside" \in p.under
  /\ w.ready # "unfed" /\ (w.at = "call" \/ p.at # "call")

LEMMA AlikeMatches ==
  ASSUME NEW p, Matches(p), NEW w, Alike(w, p), ~latched, NoneHidden => ~ended,
         w.names = names', w.batch = batch',
         leaving' \in {leaving, FALSE},
         UNCHANGED <<jft, files, cwd, buf, latched, ended>>
  PROVE  Matches(w)'
  <1>1. Flagged(w)'
    <2>1. /\ latched \in BOOLEAN /\ ended \in BOOLEAN /\ leaving \in BOOLEAN
          /\ leaving => "slash" \in p.under
      BY DEF Matches, Flagged
    <2>2. latched' \in BOOLEAN /\ ended' \in BOOLEAN /\ leaving' \in BOOLEAN
      BY <2>1
    <2>3. leaving' => "slash" \in w.under
      BY <2>1 DEF Alike
    <2>4. ~latched' /\ w.ready # "unfed"
      BY DEF Alike
    <2>5. QED
      BY <2>2, <2>3, <2>4 DEF Flagged
  <1>2. Cancelled(w)'
    BY DEF Cancelled
  <1>3. Reads(w)'
    BY DEF Reads, Matches, Alike
  <1>4. Stored(w)'
    BY DEF Stored, Matches, Alike, Here
  <1>5. QED
    BY <1>1, <1>2, <1>3, <1>4 DEF Matches

-----------------------------------------------------------------------------
(* IF, FOR and COMMAND /C.                                                   *)

(* A command about to be done, and the level it is at.                       *)
Busy(w, u) ==
  /\ w.jft = u.jft /\ w.names = u.names /\ w.made = u.made /\ w.batch = u.batch
  /\ w.batches = u.batches /\ w.text = u.text /\ w.at = "do" /\ w.ready = "busy"
  /\ \A x : x \in w.under <=> x \in u.under \/ x = "do"

LEMMA DoFitsOn ==
  ASSUME NEW d, NEW x, NEW u, Allowed(d, u), u.ready = "waits",
         x # 0 => "for" \in u.under /\ x = u.item
  PROVE  Fits(Do(d, x), u) /\ Do(d, x).at = "do"
  <1> DEFINE h == Do(d, x)
  <1>1. h = [at |-> "do", do |-> h.do, item |-> h.item] /\ h.at = "do" /\ h.do = d /\ h.item = x
    BY DEF Do
  <1> HIDE DEF h
  <1>2. DoFits(h, u)
    BY <1>1 DEF DoFits
  <1>3. QED
    BY <1>1, <1>2 DEF Fits, Bears, h

LEMMA BodyOn ==
  ASSUME NEW b, NEW u, Holds(b, u), NEW d, NEW x, Allowed(d, u), u.ready = "waits",
         x # 0 => "for" \in u.under /\ x = u.item
  PROVE  \E w : Holds(Put(b, Do(d, x)), w) /\ Busy(w, u)
  <1> DEFINE h == Do(d, x)
  <1>1. Fits(h, u) /\ h.at = "do"
    BY DoFitsOn
  <1> HIDE DEF h
  <1>2. PICK w : Upon(b, h, u, w)
    BY <1>1, PutUpon
  <1>3. Readiness(h) = "busy"
    BY <1>1 DEF Readiness
  <1>4. Busy(w, u) /\ Holds(Put(b, h), w)
    <2>1. /\ Holds(Put(b, h), w)
          /\ w.jft = u.jft /\ w.names = u.names /\ w.made = u.made /\ w.batch = u.batch
          /\ w.batches = u.batches /\ w.text = u.text /\ w.at = "do" /\ w.ready = "busy"
      BY <1>1, <1>2, <1>3, UponIs
    <2>2. \A y : y \in w.under <=> y \in u.under \/ y = "do"
      BY <1>1, <1>2, UnderUpon
    <2>3. QED
      BY <2>1, <2>2 DEF Busy
  <1>5. QED
    BY <1>4 DEF h

LEMMA IfStep == Inv /\ If => Inv'
  <1>1. SUFFICES ASSUME Inv, If PROVE Inv'
    OBVIOUS
  <1>2. At("do") /\ Top.do.op = "if"
    BY <1>1 DEF If, Doing
  <1>3. PICK p, v : /\ Holds(stack, p) /\ Matches(p) /\ On(p, v) /\ DoFits(Top, v)
                    /\ Holds(Below, v) /\ v.ready = "waits"
                    /\ leaving \in BOOLEAN /\ (leaving => "slash" \in v.under)
    BY <1>1, <1>2, DoingIs
  <1>4. CASE Returns(leaving)
    <2>1. Done(v, Below) /\ cwd' = cwd
      BY <1>1, <1>2, <1>3, <1>4, DoingIs DEF If, Returns, Done, Matches, Flagged
    <2>2. QED
      BY <1>2, <1>3, <2>1, DoneIs
  <1>5. CASE Pushes([at |-> "if"], <<Do(Top.do.body, Top.item)>>)
    <2> DEFINE g == [at |-> "if"]
               d == Top.do.body
               x == Top.item
    <2>1. g.at = "if" /\ IfFits(g)
      BY DEF IfFits
    <2>2. Pushes(g, <<Do(d, x)>>)
      BY <1>5
    <2> HIDE DEF g
    <2>3. Fits(g, v)
      BY <1>3, <2>1 DEF Fits, Bears
    <2>4. PICK u : Upon(Below, g, v, u)
      BY <1>3, <2>3, PutUpon
    <2>5. /\ Holds(Put(Below, g), u)
          /\ u.jft = v.jft /\ u.names = v.names /\ u.item = v.item /\ u.made = v.made
          /\ u.batch = v.batch /\ u.batches = v.batches /\ u.text = v.text
      BY <2>1, <2>4, UponIs
    <2>6. \A y : y \in u.under <=> y \in v.under \/ y = "if"
      BY <2>1, <2>4, UnderUpon
    <2>7. u.ready = "waits"
      BY <2>1, <2>4, UponIs DEF Readiness
    <2>8. Allowed(Top.do, v) /\ (x # 0 => "for" \in v.under /\ x = v.item)
      BY <1>3 DEF DoFits
    <2>9. Allowed(d, u)
      BY <1>2, <2>5, <2>6, <2>8, BodyIs DEF Nesting
    <2>10. PICK w : Holds(Put(Put(Below, g), Do(d, x)), w) /\ Busy(w, u)
      BY <2>5, <2>6, <2>7, <2>8, <2>9, BodyOn
    <2>11. Holds(stack', w)
      BY <1>1, <1>2, <2>2, <2>10, DoingIs, PushesTwo
    <2>12. /\ p.jft = v.jft /\ p.made = v.made /\ p.names = v.names /\ p.batch = v.batch
           /\ p.batches = v.batches /\ p.text = v.text /\ p.at = "do"
           /\ p.ready = "busy" /\ \A y : y \in p.under <=> y \in v.under \/ y = "do"
      BY <1>2, <1>3, OnIs DEF At, Readiness
    <2>13. Alike(w, p) /\ w.names = p.names /\ w.batch = p.batch
      BY <2>5, <2>6, <2>10, <2>12 DEF Alike, Busy
    <2>14. Matches(w)'
      BY <1>1, <1>3, <2>12, <2>13, BusyIs, AlikeMatches DEF If, Matches
    <2>15. QED
      BY <2>11, <2>14 DEF Inv
  <1>6. QED
    BY <1>1, <1>4, <1>5 DEF If

(* What a frame that waited for others goes back to.                         *)
LEMMA WaitingIs ==
  ASSUME Inv, stack # <<>>, Top.at # "do", Readiness(Top) # "busy"
  PROVE  /\ IsList(stack) /\ IsList(Below)
         /\ \E p, v : /\ Holds(stack, p) /\ Matches(p) /\ On(p, v)
                      /\ Holds(Below, v) /\ Fits(Top, v) /\ v.ready = "waits"
  <1>1. PICK p : Holds(stack, p) /\ Matches(p)
    BY DEF Inv
  <1>2. IsList(stack) /\ IsList(Below)
    BY <1>1, TopIs
  <1>3. PICK v : On(p, v)
    BY <1>1, TopIs
  <1>4. Holds(Below, v) /\ Fits(Top, v)
    BY <1>3 DEF On
  <1>5. v.ready = "waits"
    BY <1>4, RestsOn DEF Readiness
  <1>6. QED
    BY <1>1, <1>2, <1>3, <1>4, <1>5

LEMMA EndIfStep == Inv /\ EndIf => Inv'
  <1>1. SUFFICES ASSUME Inv, EndIf PROVE Inv'
    OBVIOUS
  <1>2. stack # <<>> /\ Top.at = "if"
    BY <1>1 DEF EndIf, At
  <1>3. PICK p, v : /\ Holds(stack, p) /\ Matches(p) /\ On(p, v)
                    /\ Holds(Below, v) /\ v.ready = "waits"
    BY <1>1, <1>2, WaitingIs DEF Readiness
  <1>4. /\ p.jft = v.jft /\ p.made = v.made /\ p.names = v.names /\ p.batch = v.batch
        /\ p.batches = v.batches /\ p.text = v.text /\ p.at = "if"
        /\ \A y : y \in p.under <=> y \in v.under \/ y = "if"
    BY <1>2, <1>3, OnIs
  <1>5. stack' = Below
    BY <1>1 DEF EndIf, Returns
  <1>6. Cancelled(v)'
    BY <1>1, <1>2, <1>3, <1>5, CancelledBelow DEF EndIf, Matches, Cancelled
  <1>7. Flagged(v)'
    BY <1>1, <1>3, <1>4 DEF EndIf, Matches, Flagged
  <1>8. Reads(v)' /\ Stored(v)' /\ v.names = names' /\ v.batch = batch'
    BY <1>1, <1>3, <1>4 DEF EndIf, Matches, Reads, Stored, Here
  <1>9. QED
    BY <1>3, <1>5, <1>6, <1>7, <1>8 DEF Inv, Matches

Joined(a, b) == a \o b

LEMMA JoinedIs ==
  ASSUME NEW a, IsList(a), NEW b, IsList(b)
  PROVE  /\ SubSeq(Joined(a, b), 1, Len(a)) = a
         /\ \A k \in 1 .. Len(b) : Joined(a, b)[Len(a) + k] = b[k]
  <1> DEFINE S == ToSet(a) \cup ToSet(b)
             c == a \o b
             r == SubSeq(c, 1, Len(a))
  <1>1. a \in Seq(S) /\ b \in Seq(S)
    BY SeqMonotonic DEF IsList
  <1>2. /\ c \in Seq(S) /\ Len(c) = Len(a) + Len(b) /\ Len(a) \in Nat /\ Len(b) \in Nat
        /\ \A i \in 1 .. Len(c) : c[i] = IF i <= Len(a) THEN a[i] ELSE b[i - Len(a)]
    BY <1>1, ConcatProperties, LenProperties
  <1> HIDE DEF c
  <1>3. ASSUME NEW k \in 1 .. Len(b) PROVE c[Len(a) + k] = b[k]
    <2>1. Len(a) + k \in 1 .. Len(c) /\ ~(Len(a) + k <= Len(a)) /\ (Len(a) + k) - Len(a) = k
      BY <1>2
    <2>2. QED
      BY <1>2, <2>1
  <1>4. \A i \in 1 .. Len(a) : c[i] \in S /\ c[i] = a[i]
    <2>1. ASSUME NEW i \in 1 .. Len(a) PROVE c[i] = a[i]
      <3>1. i \in 1 .. Len(c) /\ i <= Len(a)
        BY <1>2
      <3>2. QED
        BY <1>2, <3>1
    <2>2. \A i \in 1 .. Len(a) : a[i] \in S
      BY <1>1, ElementOfSeq
    <2>3. QED
      BY <2>1, <2>2
  <1>5. /\ r \in Seq(S)
        /\ Len(r) = IF 1 <= Len(a) THEN Len(a) - 1 + 1 ELSE 0
        /\ \A i \in 1 .. Len(a) - 1 + 1 : r[i] = c[1 + i - 1]
    <2>1. 1 \in Int /\ Len(a) \in Int /\ \A i \in 1 .. Len(a) : c[i] \in S
      BY <1>2, <1>4
    <2>2. QED
      BY <2>1, SubSeqProperties
  <1> HIDE DEF r
  <1>6. Len(r) = Len(a) /\ \A i \in 1 .. Len(a) : r[i] = a[i]
    BY <1>2, <1>4, <1>5
  <1>7. r = a
    BY <1>1, <1>5, <1>6, SeqEqual
  <1>8. QED
    BY <1>3, <1>7 DEF Joined, c, r

LEMMA ForUpon ==
  ASSUME NEW b, NEW g, NEW v, NEW u, Upon(b, g, v, u), g.at = "for"
  PROVE  u.names = Joined(v.names, g.do.set) /\ u.item = g.do.set[g.next - 1]
  BY DEF Upon, Above, AllNames, ItemAt, Joined

LEMMA ForOn ==
  ASSUME NEW p, NEW v, On(p, v), Top.at = "for"
  PROVE  p.names = Joined(v.names, Top.do.set) /\ ForFits(Top, v)
  <1>1. ForFits(Top, v)
    BY KindIs DEF On, Fits
  <1>2. QED
    BY <1>1 DEF On, Above, AllNames, Joined

LEMMA ForStep == Inv /\ For => Inv'
  <1>1. SUFFICES ASSUME Inv, For PROVE Inv'
    OBVIOUS
  <1>2. At("do") /\ Top.do.op = "for"
    BY <1>1 DEF For, Doing
  <1>3. PICK p, v : /\ Holds(stack, p) /\ Matches(p) /\ On(p, v) /\ DoFits(Top, v)
                    /\ Holds(Below, v) /\ v.ready = "waits"
                    /\ leaving \in BOOLEAN /\ (leaving => "slash" \in v.under)
    BY <1>1, <1>2, DoingIs
  <1>4. CASE Returns(leaving) /\ names' = names
    <2>1. Done(v, Below) /\ cwd' = cwd
      BY <1>1, <1>2, <1>3, <1>4, DoingIs DEF For, Returns, Done, Matches, Flagged
    <2>2. QED
      BY <1>2, <1>3, <2>1, DoneIs
  <1> DEFINE g == [at |-> "for", do |-> Top.do, mark |-> Len(names), next |-> 1,
                   batch |-> batch, left |-> FALSE]
  <1>5. CASE Becomes(g) /\ names' = names \o Top.do.set
    <2>1. stack' = Put(Below, g)
      BY <1>5 DEF Becomes, Put
    <2>2. /\ g = [at |-> "for", do |-> g.do, mark |-> g.mark, next |-> g.next, batch |-> g.batch,
                  left |-> g.left]
          /\ g.at = "for" /\ g.do = Top.do /\ g.mark = Len(names) /\ g.next = 1
      OBVIOUS
    <2> HIDE DEF g
    <2>3. Allowed(Top.do, v)
      BY <1>3 DEF DoFits
    <2>4. Top.do \in Commands
      BY <2>3, WithinIs DEF Allowed
    <2>5. IsList(Top.do.set)
      BY <1>2, <2>4, ShellAssumption DEF IsList
    <2>6. 1 \in 1 .. Len(Top.do.set) + 1
      BY <2>5, ListIs
    <2>7. /\ p.jft = v.jft /\ p.made = v.made /\ p.names = v.names /\ p.batch = v.batch
          /\ p.batches = v.batches /\ p.text = v.text /\ p.at = "do" /\ p.ready = "busy"
          /\ \A y : y \in p.under <=> y \in v.under \/ y = "do"
      BY <1>2, <1>3, OnIs DEF At, Readiness
    <2>8. p.names = names /\ p.batch = batch
      BY <1>3 DEF Matches
    <2>9. ForFits(g, v)
      BY <1>2, <2>2, <2>3, <2>5, <2>6, <2>7, <2>8 DEF ForFits
    <2>10. Fits(g, v)
      BY <1>3, <2>9 DEF Fits, Bears
    <2>11. PICK u : Upon(Below, g, v, u)
      BY <1>3, <2>10, PutUpon
    <2>12. /\ Holds(Put(Below, g), u)
           /\ u.jft = v.jft /\ u.made = v.made /\ u.batch = v.batch /\ u.batches = v.batches
           /\ u.text = v.text /\ u.at = "for"
      BY <2>2, <2>11, UponIs
    <2>13. \A y : y \in u.under <=> y \in v.under \/ y = "for"
      BY <2>2, <2>11, UnderUpon
    <2>14. u.ready = "waits"
      BY <2>2, <2>11, UponIs DEF Readiness
    <2>15. u.names = names'
      <3>1. u.names = Joined(v.names, g.do.set)
        BY <2>2, <2>11, ForUpon
      <3>2. names' = Joined(names, Top.do.set)
        BY <1>5 DEF Joined
      <3>3. QED
        BY <2>2, <2>7, <2>8, <3>1, <3>2
    <2>16. Alike(u, p)
      BY <2>7, <2>12, <2>13, <2>14 DEF Alike
    <2>17. Matches(u)'
      BY <1>1, <1>3, <2>7, <2>8, <2>12, <2>15, <2>16, BusyIs, AlikeMatches DEF For, Matches, Flagged
    <2>18. QED
      BY <2>1, <2>12, <2>17 DEF Inv
  <1>6. QED
    BY <1>1, <1>4, <1>5 DEF For

LEMMA ForBodyStep == Inv /\ ForBody => Inv'
  <1>1. SUFFICES ASSUME Inv, ForBody PROVE Inv'
    OBVIOUS
  <1>2. stack # <<>> /\ Top.at = "for"
    BY <1>1 DEF ForBody, At
  <1>3. PICK p, v : /\ Holds(stack, p) /\ Matches(p) /\ On(p, v)
                    /\ Holds(Below, v) /\ v.ready = "waits"
    BY <1>1, <1>2, WaitingIs DEF Readiness
  <1>4. /\ p.jft = v.jft /\ p.made = v.made /\ p.batch = v.batch
        /\ p.batches = v.batches /\ p.text = v.text /\ p.at = "for"
        /\ \A y : y \in p.under <=> y \in v.under \/ y = "for"
    BY <1>2, <1>3, OnIs
  <1>5. p.names = Joined(v.names, Top.do.set) /\ ForFits(Top, v)
    BY <1>2, <1>3, ForOn
  <1>6. ~latched /\ ~leaving /\ Top.next <= Len(Top.do.set)
    BY <1>1 DEF ForBody, ForStops
  <1>7. p.names = names /\ p.batch = batch /\ (NoneHidden => ~ended)
    BY <1>3, <1>6 DEF Matches, Cancelled
  <1>8. /\ IsList(v.names) /\ IsList(Top.do.set) /\ Top.mark = Len(v.names)
        /\ Top.next \in 1 .. Len(Top.do.set) + 1 /\ Len(Top.do.set) \in Nat
    <2>1. IsLevel(v, Len(Below))
      BY <1>3, HoldsIs
    <2>2. /\ IsList(Top.do.set) /\ Top.mark = Len(v.names)
          /\ Top.next \in 1 .. Len(Top.do.set) + 1
      BY <1>5 DEF ForFits
    <2>3. QED
      BY <2>1, <2>2, ListIs DEF IsLevel
  <1>9. /\ Top.next \in 1 .. Len(Top.do.set) /\ Top.next + 1 \in 1 .. Len(Top.do.set) + 1
        /\ (Top.next + 1) - 1 = Top.next
    BY <1>6, <1>8
  <1> DEFINE x == ForItem(Top)
             d == Top.do.body
  <1>10. x = Top.do.set[Top.next]
    <2> DEFINE a == v.names
               b == Top.do.set
    <2>1. \A k \in 1 .. Len(Top.do.set) :
            Joined(v.names, Top.do.set)[Len(v.names) + k] = Top.do.set[k]
      <3>1. IsList(a) /\ IsList(b)
        BY <1>8
      <3> HIDE DEF a, b
      <3>2. \A k \in 1 .. Len(b) : Joined(a, b)[Len(a) + k] = b[k]
        BY <3>1, JoinedIs
      <3>3. QED
        BY <3>2 DEF a, b
    <2>2. x = names[Top.mark + Top.next]
      BY DEF ForItem
    <2>3. x = Joined(v.names, Top.do.set)[Len(v.names) + Top.next]
      BY <1>5, <1>7, <1>8, <2>2
    <2>4. QED
      BY <1>9, <2>1, <2>3
  <1> DEFINE g == [Top EXCEPT !.next = @ + 1]
  <1>11. /\ g = [at |-> "for", do |-> g.do, mark |-> g.mark, next |-> g.next, batch |-> g.batch,
                 left |-> g.left]
         /\ g.at = "for" /\ g.do = Top.do /\ g.mark = Top.mark /\ g.next = Top.next + 1
    <2>1. Top \in [at : {"for"}, do : {Top.do}, mark : {Top.mark}, next : {Top.next},
                   batch : {Top.batch}, left : {Top.left}]
      BY <1>5 DEF ForFits
    <2>2. g \in [at : {"for"}, do : {Top.do}, mark : {Top.mark}, next : {Top.next + 1},
                 batch : {Top.batch}, left : {Top.left}]
      BY <2>1
    <2> HIDE DEF g
    <2>3. QED
      BY <2>2
  <1>12. IF CountOf({"if", "for"}) > BodyMax THEN Pushes(g, <<>>) ELSE Pushes(g, <<Do(d, x)>>)
    BY <1>1 DEF ForBody
  <1> HIDE DEF g, x
  <1>13. ForFits(g, v)
    BY <1>5, <1>9, <1>11 DEF ForFits
  <1>14. Fits(g, v)
    BY <1>3, <1>13 DEF Fits, Bears
  <1>15. PICK u : Upon(Below, g, v, u)
    BY <1>3, <1>14, PutUpon
  <1>16. /\ Holds(Put(Below, g), u)
         /\ u.jft = v.jft /\ u.made = v.made /\ u.batch = v.batch /\ u.batches = v.batches
         /\ u.text = v.text /\ u.at = "for"
    BY <1>11, <1>15, UponIs
  <1>17. \A y : y \in u.under <=> y \in v.under \/ y = "for"
    BY <1>11, <1>15, UnderUpon
  <1>18. u.ready = "waits"
    BY <1>11, <1>15, UponIs DEF Readiness
  <1>19. u.names = p.names /\ u.item = x
    <2>1. u.names = Joined(v.names, g.do.set) /\ u.item = g.do.set[g.next - 1]
      BY <1>11, <1>15, ForUpon
    <2>2. QED
      BY <1>5, <1>9, <1>10, <1>11, <2>1
  <1>20. CASE Pushes(g, <<>>)
    <2>1. stack' = Put(Below, g)
      BY <1>1, <1>2, <1>3, <1>20, PushesOne, WaitingIs, TopIs
    <2>2. Alike(u, p)
      BY <1>4, <1>16, <1>17, <1>18 DEF Alike
    <2>3. Matches(u)'
      BY <1>1, <1>3, <1>4, <1>6, <1>7, <1>16, <1>19, <2>2, AlikeMatches DEF ForBody
    <2>4. QED
      BY <1>16, <2>1, <2>3 DEF Inv
  <1>21. CASE Pushes(g, <<Do(d, x)>>)
    <2>1. Allowed(d, u)
      <3>1. Allowed(Top.do, v) /\ Top.do.op = "for"
        BY <1>5 DEF ForFits
      <3>2. QED
        BY <1>16, <1>17, <3>1, BodyIs DEF Nesting
    <2>2. PICK w : Holds(Put(Put(Below, g), Do(d, x)), w) /\ Busy(w, u)
      BY <1>16, <1>17, <1>18, <1>19, <2>1, BodyOn
    <2>3. stack' = Put(Put(Below, g), Do(d, x))
      BY <1>2, <1>3, <1>21, PushesTwo, TopIs
    <2>4. Alike(w, p) /\ w.names = p.names /\ w.batch = p.batch
      BY <1>4, <1>16, <1>17, <1>19, <2>2 DEF Alike, Busy
    <2>5. Matches(w)'
      BY <1>1, <1>3, <1>6, <1>7, <2>4, AlikeMatches DEF ForBody
    <2>6. QED
      BY <2>2, <2>3, <2>5 DEF Inv
  <1>22. QED
    BY <1>12, <1>20, <1>21

LEMMA EndForStep == Inv /\ EndFor => Inv'
  <1>1. SUFFICES ASSUME Inv, EndFor PROVE Inv'
    OBVIOUS
  <1>2. stack # <<>> /\ Top.at = "for"
    BY <1>1 DEF EndFor, At
  <1>3. PICK p, v : /\ Holds(stack, p) /\ Matches(p) /\ On(p, v)
                    /\ Holds(Below, v) /\ v.ready = "waits"
    BY <1>1, <1>2, WaitingIs DEF Readiness
  <1>4. /\ p.jft = v.jft /\ p.made = v.made /\ p.batch = v.batch
        /\ p.batches = v.batches /\ p.text = v.text /\ p.at = "for"
        /\ \A y : y \in p.under <=> y \in v.under \/ y = "for"
    BY <1>2, <1>3, OnIs
  <1>5. p.names = Joined(v.names, Top.do.set) /\ ForFits(Top, v)
    BY <1>2, <1>3, ForOn
  <1>6. stack' = Below
    BY <1>1 DEF EndFor, Returns
  <1>7. v.names = names'
    <2> DEFINE a == v.names
               b == Top.do.set
    <2>1. IsLevel(v, Len(Below))
      BY <1>3, HoldsIs
    <2>2. IsList(a) /\ IsList(b) /\ Top.mark = Len(a) /\ names = Joined(a, b)
      BY <1>3, <1>5, <2>1 DEF IsLevel, ForFits, Matches
    <2>3. names' = SubSeq(names, 1, Top.mark)
      BY <1>1 DEF EndFor
    <2> HIDE DEF a, b
    <2>4. SubSeq(Joined(a, b), 1, Len(a)) = a
      BY <2>2, JoinedIs
    <2>5. QED
      BY <2>2, <2>3, <2>4 DEF a
  <1>8. Cancelled(v)'
    BY <1>1, <1>2, <1>3, <1>6, CancelledBelow DEF EndFor, Matches, Cancelled
  <1>9. Flagged(v)'
    BY <1>1, <1>3, <1>4 DEF EndFor, Matches, Flagged
  <1>10. Reads(v)' /\ Stored(v)' /\ v.batch = batch'
    BY <1>1, <1>3, <1>4 DEF EndFor, Matches, Reads, Stored, Here
  <1>11. QED
    BY <1>3, <1>6, <1>7, <1>8, <1>9, <1>10 DEF Inv, Matches

LEMMA SlashStep == Inv /\ Slash => Inv'
  <1>1. SUFFICES ASSUME Inv, Slash PROVE Inv'
    OBVIOUS
  <1>2. At("do") /\ Top.do.op = "slash"
    BY <1>1 DEF Slash, Doing
  <1>3. PICK p, v : /\ Holds(stack, p) /\ Matches(p) /\ On(p, v) /\ DoFits(Top, v)
                    /\ Holds(Below, v) /\ v.ready = "waits"
                    /\ leaving \in BOOLEAN /\ (leaving => "slash" \in v.under)
    BY <1>1, <1>2, DoingIs
  <1>4. CASE Returns(FALSE) /\ UNCHANGED <<batch, leaving>>
    <2>1. Done(v, Below) /\ cwd' = cwd
      BY <1>1, <1>2, <1>3, <1>4, DoingIs DEF Slash, Returns, Done, Matches, Flagged
    <2>2. QED
      BY <1>2, <1>3, <2>1, DoneIs
  <1> DEFINE g == [at |-> "slash", leaving |-> leaving, batch |-> batch]
             d == Top.do.body
             x == Top.item
  <1>5. CASE Pushes(g, <<Do(d, x)>>) /\ leaving' = FALSE /\ batch' = 0
    <2>1. /\ g = [at |-> "slash", leaving |-> g.leaving, batch |-> g.batch]
          /\ g.at = "slash" /\ (g.leaving <=> leaving) /\ g.batch = batch
          /\ g.leaving \in BOOLEAN
      BY <1>3
    <2> HIDE DEF g
    <2>2. /\ p.jft = v.jft /\ p.made = v.made /\ p.names = v.names /\ p.batch = v.batch
          /\ p.batches = v.batches /\ p.text = v.text /\ p.at = "do" /\ p.ready = "busy"
          /\ \A y : y \in p.under <=> y \in v.under \/ y = "do"
      BY <1>2, <1>3, OnIs DEF At, Readiness
    <2>3. p.names = names /\ p.batch = batch
      BY <1>3 DEF Matches
    <2>4. SlashFits(g, v)
      BY <1>3, <2>1, <2>2, <2>3 DEF SlashFits
    <2>5. Fits(g, v)
      BY <1>3, <2>4 DEF Fits, Bears
    <2>6. PICK u : Upon(Below, g, v, u)
      BY <1>3, <2>5, PutUpon
    <2>7. /\ Holds(Put(Below, g), u)
          /\ u.jft = v.jft /\ u.names = v.names /\ u.item = v.item /\ u.made = v.made
          /\ u.batch = 0 /\ u.batches = v.batches /\ u.text = v.text
      BY <2>1, <2>6, UponIs
    <2>8. \A y : y \in u.under <=> y \in v.under \/ y = "slash"
      BY <2>1, <2>6, UnderUpon
    <2>9. u.ready = "waits"
      BY <2>1, <2>6, UponIs DEF Readiness
    <2>10. Allowed(Top.do, v) /\ (x # 0 => "for" \in v.under /\ x = v.item)
      BY <1>3 DEF DoFits
    <2>11. Allowed(d, u)
      BY <1>2, <2>7, <2>8, <2>10, BodyIs DEF Nesting
    <2>12. PICK w : Holds(Put(Put(Below, g), Do(d, x)), w) /\ Busy(w, u)
      BY <2>7, <2>8, <2>9, <2>10, <2>11, BodyOn
    <2>13. stack' = Put(Put(Below, g), Do(d, x))
      BY <1>1, <1>2, <1>3, <1>5, PushesTwo, DoingIs
    <2>14. Alike(w, p) /\ w.names = p.names /\ w.batch = 0
      BY <2>2, <2>7, <2>8, <2>12 DEF Alike, Busy
    <2>15. Matches(w)'
      BY <1>1, <1>3, <1>5, <2>2, <2>3, <2>14, BusyIs, AlikeMatches DEF Slash
    <2>16. QED
      BY <2>12, <2>13, <2>15 DEF Inv
  <1>6. QED
    BY <1>1, <1>4, <1>5 DEF Slash

LEMMA EndSlashStep == Inv /\ EndSlash => Inv'
  <1>1. SUFFICES ASSUME Inv, EndSlash PROVE Inv'
    OBVIOUS
  <1>2. stack # <<>> /\ Top.at = "slash"
    BY <1>1 DEF EndSlash, At
  <1>3. PICK p, v : /\ Holds(stack, p) /\ Matches(p) /\ On(p, v)
                    /\ Holds(Below, v) /\ Fits(Top, v) /\ v.ready = "waits"
    BY <1>1, <1>2, WaitingIs DEF Readiness
  <1>4. /\ p.jft = v.jft /\ p.made = v.made /\ p.names = v.names
        /\ p.batches = v.batches /\ p.text = v.text /\ p.at = "slash"
        /\ \A y : y \in p.under <=> y \in v.under \/ y = "slash"
    BY <1>2, <1>3, OnIs
  <1>5. SlashFits(Top, v)
    BY <1>2, <1>3, KindIs DEF Fits
  <1>6. stack' = Below
    BY <1>1 DEF EndSlash, Returns
  <1>7. Cancelled(v)'
    BY <1>1, <1>2, <1>3, <1>6, CancelledBelow DEF EndSlash, Matches, Cancelled
  <1>8. Flagged(v)'
    <2>1. leaving' = Top.leaving /\ latched' = latched /\ ended' = ended
      BY <1>1 DEF EndSlash
    <2>2. Top.leaving \in BOOLEAN /\ (Top.leaving => "slash" \in v.under)
      BY <1>5 DEF SlashFits
    <2>3. QED
      BY <1>3, <2>1, <2>2 DEF Matches, Flagged
  <1>9. Reads(v)' /\ Stored(v)' /\ v.names = names'
    BY <1>1, <1>3, <1>4 DEF EndSlash, Matches, Reads, Stored, Here
  <1>10. v.batch = batch'
    BY <1>1, <1>5 DEF EndSlash, SlashFits
  <1>11. QED
    BY <1>3, <1>6, <1>7, <1>8, <1>9, <1>10 DEF Inv, Matches

(* FORs that were left, and one batch whose cursor was moved.                *)
LEMMA BranchedIs ==
  ASSUME NEW s, IsList(s), NEW t, AllResemble(t, s), NEW S,
         \A i \in 1 .. Len(s) : t[i] = s[i] \/ (t[i].at = "batch" /\ s[i].at = "batch")
  PROVE  AllResemble(Branched(t, S), s)
  <1>1. /\ IsList(t) /\ Len(t) = Len(s) /\ Len(s) \in Nat /\ DOMAIN t = 1 .. Len(s)
        /\ \A i \in 1 .. Len(s) : Resembles(t[i], s[i])
    BY ListIs DEF AllResemble
  <1> DEFINE r == Branched(t, S)
             n == Len(s)
  <1>2. r = [i \in 1 .. n |->
               IF t[i].at = "for" /\ t[i].batch \in S THEN [t[i] EXCEPT !.left = TRUE] ELSE t[i]]
    BY <1>1 DEF Branched
  <1>3. IsList(r) /\ Len(r) = n
    <2> DEFINE R == {r[i] : i \in 1 .. n}
    <2>1. r \in [1 .. n -> R]
      BY <1>2
    <2>2. r \in Seq(R) /\ DOMAIN r = 1 .. n
      BY <1>1, <1>2, <2>1, SeqDef
    <2>3. Len(r) = n
      BY <1>1, <2>2, LenProperties
    <2>4. QED
      BY <2>2, <2>3, SeqIsList
  <1>4. ASSUME NEW i \in 1 .. n PROVE Resembles(r[i], s[i])
    <2>1. r[i] = IF t[i].at = "for" /\ t[i].batch \in S THEN [t[i] EXCEPT !.left = TRUE] ELSE t[i]
      BY <1>2
    <2>2. CASE t[i] = s[i]
      BY <2>1, <2>2 DEF Resembles
    <2>3. CASE t[i] # s[i]
      <3>1. s[i].at = "batch" /\ Resembles(t[i], s[i])
        BY <1>1, <2>3
      <3>2. t[i].at # "for"
        BY <2>3
      <3>3. QED
        BY <2>1, <3>1, <3>2
    <2>4. QED
      BY <2>2, <2>3
  <1>5. QED
    BY <1>3, <1>4 DEF AllResemble

-----------------------------------------------------------------------------
(* The batches that CALLed each other.                                       *)

IsBatch(f) ==
  f = [at |-> "batch", file |-> f.file, pos |-> f.pos, cancelled |-> f.cancelled,
       prev |-> f.prev]

LEMMA BatchIs ==
  ASSUME NEW s, NEW p, Holds(s, p), NEW i \in 1 .. Len(s), s[i].at = "batch"
  PROVE  /\ IsBatch(s[i]) /\ s[i].file \in DOMAIN Texts
         /\ s[i].prev \in 0 .. i - 1
         /\ s[i].prev # 0 => s[s[i].prev].at = "batch"
         /\ \A k \in 1 .. i - 1 :
              s[k].at = "batch" => k <= s[i].prev \/ (s[i].prev = 0 /\ ~NoneHidden)
  <1>1. Len(s) \in Nat
    BY HoldsIs
  <1>2. PICK V : Reaches(s, p, V)
    BY DEF Holds
  <1>3. Fits(s[i], V[i - 1]) /\ IsLevel(V[i - 1], i - 1)
    BY <1>1, <1>2, LevelIs
  <1>4. BatchFits(s[i], V[i - 1])
    BY <1>3, KindIs DEF Fits
  <1> DEFINE C(k) == V[k].batches = {j \in 1 .. k : s[j].at = "batch"}
             T == {k \in 0 .. Len(s) : C(k)}
  <1>5. 0 \in T
    BY <1>1, <1>2 DEF Reaches, Base
  <1>6. ASSUME NEW k \in 0 .. Len(s) - 1, k \in T PROVE k + 1 \in T
    <2>1. k + 1 \in 1 .. Len(s) /\ k + 1 \in 0 .. Len(s) /\ (k + 1) - 1 = k
      BY <1>1
    <2>2. Above(s[k + 1], k + 1, V[k], V[k + 1])
      BY <1>1, <1>2, <2>1, LevelIs
    <2>3. V[k + 1].batches = (IF s[k + 1].at = "batch" THEN V[k].batches \cup {k + 1}
                              ELSE V[k].batches)
      BY <2>2 DEF Above, BatchesAt
    <2>4. C(k)
      BY <1>6
    <2>5. 1 .. k + 1 = (1 .. k) \cup {k + 1}
      BY <1>1
    <2>6. C(k + 1)
      BY <2>3, <2>4, <2>5
    <2>7. QED
      BY <2>1, <2>6
  <1> HIDE DEF T
  <1>7. \A k \in 0 .. Len(s) : k \in T
    BY <1>1, <1>5, <1>6, UpTo
  <1>8. i - 1 \in 0 .. Len(s) /\ i \in Int
    BY <1>1
  <1>9. V[i - 1].batches = {j \in 1 .. i - 1 : s[j].at = "batch"}
    BY <1>7, <1>8 DEF T
  <1> HIDE DEF C
  <1>10. /\ s[i].prev = V[i - 1].batch
         /\ NoneHidden /\ s[i].prev = 0 => V[i - 1].batches = {}
    BY <1>4 DEF BatchFits
  <1>11. /\ V[i - 1].batch \in {0} \cup V[i - 1].batches
         /\ V[i - 1].batch # 0 => \A k \in V[i - 1].batches : k <= V[i - 1].batch
    BY <1>3 DEF IsLevel
  <1>12. IsBatch(s[i]) /\ s[i].file \in DOMAIN Texts
    BY <1>4 DEF BatchFits, IsBatch
  <1>13. s[i].prev \in 0 .. i - 1 /\ (s[i].prev # 0 => s[s[i].prev].at = "batch")
    BY <1>8, <1>9, <1>10, <1>11
  <1>14. ASSUME NEW k \in 1 .. i - 1, s[k].at = "batch"
         PROVE  k <= s[i].prev \/ (s[i].prev = 0 /\ ~NoneHidden)
    BY <1>9, <1>10, <1>11, <1>14
  <1>15. QED
    BY <1>12, <1>13, <1>14

(* Chain's function is defined for all places: a batch's "prev" is below it. *)
Callers(r, i) == IF i = 0 \/ stack[i].at # "batch" THEN {} ELSE {i} \cup r[stack[i].prev]
Climbs(r, k)  == r = [i \in 0 .. k |-> Callers(r, i)]

LEMMA ClimbIs ==
  ASSUME NEW p, Holds(stack, p), NEW b \in Nat, b = Len(stack)
  PROVE  \E r : Climbs(r, b)
  <1> DEFINE T == {k \in 0 .. b : \E r : Climbs(r, k)}
  <1>1. 0 \in T
    <2> DEFINE r == [i \in 0 .. 0 |-> {}]
    <2>1. r = [i \in 0 .. 0 |-> Callers(r, i)]
      BY DEF Callers
    <2> HIDE DEF r
    <2>2. QED
      BY <2>1 DEF Climbs
  <1>2. ASSUME NEW k \in 0 .. b - 1, k \in T PROVE k + 1 \in T
    <2>1. PICK r : Climbs(r, k)
      BY <1>2
    <2> DEFINE q == [i \in 0 .. k + 1 |-> IF i = k + 1 THEN Callers(r, i) ELSE r[i]]
    <2>2. \A i \in 0 .. k : r[i] = Callers(r, i)
      BY <2>1 DEF Climbs
    <2>3. \A i \in 0 .. k : q[i] = r[i]
      OBVIOUS
    <2>4. q[k + 1] = Callers(r, k + 1)
      OBVIOUS
    <2>5. q = [i \in 0 .. k + 1 |-> q[i]]
      OBVIOUS
    <2> HIDE DEF q
    <2>6. ASSUME NEW i \in 0 .. k + 1 PROVE q[i] = Callers(q, i)
      <3>1. q[i] = Callers(r, i)
        <4>1. i \in 0 .. k \/ i = k + 1
          OBVIOUS
        <4>2. QED
          BY <2>2, <2>3, <2>4, <4>1
      <3>2. CASE i = 0 \/ stack[i].at # "batch"
        BY <3>1, <3>2 DEF Callers
      <3>3. CASE ~(i = 0 \/ stack[i].at # "batch")
        <4>1. i \in 1 .. b
          BY <3>3
        <4>2. stack[i].prev \in 0 .. i - 1
          BY <3>3, <4>1, BatchIs
        <4>3. stack[i].prev \in 0 .. k
          BY <4>2
        <4>4. QED
          BY <2>3, <3>1, <3>3, <4>3 DEF Callers
      <3>4. QED
        BY <3>2, <3>3
    <2>7. q = [i \in 0 .. k + 1 |-> Callers(q, i)]
      BY <2>5, <2>6
    <2>8. k + 1 \in 0 .. b
      OBVIOUS
    <2>9. QED
      BY <2>7, <2>8 DEF Climbs
  <1> HIDE DEF T
  <1>3. \A k \in 0 .. b : k \in T
    BY <1>1, <1>2, UpTo
  <1>4. b \in 0 .. b
    OBVIOUS
  <1>5. QED
    BY <1>3, <1>4 DEF T

(* The batch on top and those that CALLed it are batches, and all there are  *)
(* if COMMAND /C hides none.                                                 *)
LEMMA ChainIs ==
  ASSUME NEW p, Holds(stack, p), stack # <<>>, Top.at = "batch"
  PROVE  /\ \A k \in Chain(Len(stack)) : k \in 1 .. Len(stack) /\ stack[k].at = "batch"
         /\ NoneHidden => \A k \in 1 .. Len(stack) : stack[k].at = "batch" => k \in Chain(Len(stack))
  <1> DEFINE b == Len(stack)
             From(r) == r = [i \in 0 .. b |-> IF i = 0 \/ stack[i].at # "batch" THEN {}
                                              ELSE {i} \cup r[stack[i].prev]]
             from == CHOOSE r : From(r)
  <1>1. IsList(stack)
    BY DEF Holds
  <1>2. b \in Nat /\ b # 0 /\ stack[b] = Top
    BY <1>1, StackIs, ListIs
  <1>3. \E r : From(r)
    BY <1>2, ClimbIs DEF Climbs, Callers
  <1>4. From(from)
    BY <1>3
  <1>5. Chain(b) = from[b]
    BY DEF Chain
  <1> HIDE DEF from
  <1>6. \A i \in 0 .. b : from[i] = IF i = 0 \/ stack[i].at # "batch" THEN {}
                                    ELSE {i} \cup from[stack[i].prev]
    BY <1>4
  <1> HIDE DEF From
  <1>7. \A i \in 1 .. b : stack[i].at = "batch" =>
          /\ stack[i].prev \in 0 .. i - 1
          /\ stack[i].prev # 0 => stack[stack[i].prev].at = "batch"
          /\ \A k \in 1 .. i - 1 :
               stack[k].at = "batch" => k <= stack[i].prev \/ (stack[i].prev = 0 /\ ~NoneHidden)
    BY BatchIs
  <1> HIDE DEF b
  <1> DEFINE Sound(i) == \A k \in from[i] : k \in 1 .. b /\ stack[k].at = "batch"
             Whole(i) == NoneHidden /\ i # 0 /\ stack[i].at = "batch" =>
                           \A k \in 1 .. i : stack[k].at = "batch" => k \in from[i]
             T == {m \in 0 .. b : \A i \in 0 .. m : Sound(i) /\ Whole(i)}
  <1>8. 0 \in T
    <2>1. 0 \in 0 .. b /\ \A i \in 0 .. 0 : i = 0
      BY <1>2
    <2>2. from[0] = {}
      BY <1>6, <2>1
    <2>3. Sound(0) /\ Whole(0)
      BY <2>2
    <2> HIDE DEF Sound, Whole
    <2>4. QED
      BY <2>1, <2>3
  <1>9. ASSUME NEW m \in 0 .. b - 1, m \in T PROVE m + 1 \in T
    <2> DEFINE i == m + 1
    <2>1. i \in 1 .. b /\ i \in 0 .. b /\ i - 1 = m /\ i # 0
      BY <1>2
    <2>2. \A k \in 0 .. i : k \in 0 .. m \/ k = i
      BY <1>2
    <2>3. \A k \in 0 .. m : Sound(k) /\ Whole(k)
      BY <1>9
    <2> HIDE DEF i
    <2>4. CASE stack[i].at # "batch"
      <3>1. from[i] = {}
        BY <1>6, <2>1, <2>4
      <3>2. QED
        BY <2>1, <2>2, <2>3, <2>4, <3>1 DEF i
    <2>5. CASE stack[i].at = "batch"
      <3> DEFINE c == stack[i].prev
      <3>1. /\ c \in 0 .. m /\ (c # 0 => stack[c].at = "batch")
            /\ \A k \in 1 .. m : stack[k].at = "batch" => k <= c \/ (c = 0 /\ ~NoneHidden)
        BY <1>7, <2>1, <2>5
      <3>2. from[i] = {i} \cup from[c]
        BY <1>6, <2>1, <2>5
      <3> HIDE DEF c
      <3>3. Sound(i)
        BY <2>1, <2>3, <2>5, <3>1, <3>2
      <3>4. ASSUME NoneHidden, NEW k \in 1 .. i, stack[k].at = "batch" PROVE k \in from[i]
        <4>1. CASE k = i
          BY <3>2, <4>1
        <4>2. CASE k # i
          <5>1. k \in 1 .. m
            BY <1>2, <2>1, <4>2
          <5>2. k \in 1 .. c /\ c # 0
            BY <1>2, <3>1, <3>4, <5>1
          <5>3. k \in from[c]
            BY <2>3, <3>1, <3>4, <5>2
          <5>4. QED
            BY <3>2, <5>3
        <4>3. QED
          BY <4>1, <4>2
      <3>5. Whole(i)
        BY <3>4
      <3> HIDE DEF Sound, Whole
      <3>6. QED
        BY <2>1, <2>2, <2>3, <3>3, <3>5 DEF i
    <2>6. QED
      BY <2>4, <2>5
  <1> HIDE DEF T
  <1>10. b \in T
    <2>1. \A m \in 0 .. b : m \in T
      BY <1>2, <1>8, <1>9, UpTo
    <2>2. b \in 0 .. b
      BY <1>2
    <2>3. QED
      BY <2>1, <2>2
  <1>11. Sound(b) /\ Whole(b)
    <2>1. b \in 0 .. b
      BY <1>2
    <2>2. QED
      BY <1>10, <2>1 DEF T
  <1>12. QED
    BY <1>2, <1>5, <1>11 DEF b

LEMMA ListOf ==
  ASSUME NEW n \in Nat, NEW t, t = [i \in 1 .. n |-> t[i]]
  PROVE  IsList(t) /\ Len(t) = n
  <1> DEFINE R == {t[i] : i \in 1 .. n}
  <1>1. t \in [1 .. n -> R]
    OBVIOUS
  <1>2. t \in Seq(R) /\ DOMAIN t = 1 .. n
    BY <1>1, SeqDef
  <1>3. Len(t) = n
    BY <1>2, LenProperties
  <1>4. QED
    BY <1>2, <1>3, SeqIsList

LEMMA EditedIs ==
  ASSUME NEW f, IsBatch(f), NEW x
  PROVE  /\ [f EXCEPT !.pos = x].at = "batch"
         /\ [f EXCEPT !.cancelled = TRUE].at = "batch" /\ [f EXCEPT !.cancelled = TRUE].cancelled
  <1>1. f \in [at : {"batch"}, file : {f.file}, pos : {f.pos}, cancelled : {f.cancelled},
               prev : {f.prev}]
    BY DEF IsBatch
  <1>2. [f EXCEPT !.pos = x] \in
          [at : {"batch"}, file : {f.file}, pos : {x}, cancelled : {f.cancelled}, prev : {f.prev}]
    BY <1>1
  <1>3. [f EXCEPT !.cancelled = TRUE] \in
          [at : {"batch"}, file : {f.file}, pos : {f.pos}, cancelled : {TRUE}, prev : {f.prev}]
    BY <1>1
  <1>4. QED
    BY <1>2, <1>3

LEMMA GotoStep == Inv /\ Goto => Inv'
  <1>1. SUFFICES ASSUME Inv, Goto PROVE Inv'
    OBVIOUS
  <1>2. At("do")
    BY <1>1 DEF Goto, Doing
  <1>3. PICK p, v : /\ Holds(stack, p) /\ Matches(p) /\ On(p, v) /\ Holds(Below, v)
                    /\ leaving \in BOOLEAN /\ (leaving => "slash" \in v.under)
    BY <1>1, <1>2, DoingIs
  <1>4. IsList(Below) /\ AllResemble(Below, Below) /\ IsList(stack)
    BY <1>1, <1>2, DoingIs
  <1>5. CASE batch = 0
    <2>1. Done(v, Below) /\ cwd' = cwd
      BY <1>1, <1>3, <1>4, <1>5 DEF Goto, Done, Matches, Flagged
    <2>2. QED
      BY <1>2, <1>3, <2>1, DoneIs
  <1>6. CASE batch # 0
    <2> DEFINE x == Top.do.to
               f == Below[batch]
               t == [Below EXCEPT ![batch].pos = x]
               r == Branched(t, {batch})
               n == Len(Below)
    <2>1. n \in Nat /\ DOMAIN Below = 1 .. n
      BY <1>4, ListIs
    <2>2. batch = v.batch
      BY <1>2, <1>3, OnIs DEF At, Matches
    <2>3. batch \in 1 .. n /\ f.at = "batch"
      BY <1>3, <1>6, <2>2, BatchesAre
    <2>4. IsBatch(f)
      BY <1>3, <2>3, BatchIs
    <2>5. Below = [i \in 1 .. n |-> Below[i]]
      BY <1>4, <2>1 DEF IsList
    <2>6. t = [i \in 1 .. n |-> IF i = batch THEN [f EXCEPT !.pos = x] ELSE Below[i]]
      BY <2>1, <2>3, <2>5
    <2>7. [f EXCEPT !.pos = x].at = "batch"
      BY <2>4, EditedIs
    <2> HIDE DEF t
    <2>8. IsList(t) /\ Len(t) = n
      BY <2>1, <2>6, ListOf
    <2>9. \A i \in 1 .. n : t[i] = Below[i] \/ (t[i].at = "batch" /\ Below[i].at = "batch")
      BY <2>3, <2>6, <2>7
    <2>10. \A i \in 1 .. n : Resembles(t[i], Below[i])
      BY <2>3, <2>6 DEF Resembles
    <2>11. AllResemble(t, Below)
      BY <2>8, <2>10 DEF AllResemble
    <2>12. AllResemble(r, Below)
      BY <1>4, <2>9, <2>11, BranchedIs
    <2>13. stack' = r
      BY <1>1, <1>6 DEF Goto, t
    <2> HIDE DEF r
    <2>14. Done(v, r) /\ cwd' = cwd
      BY <1>1, <1>3, <2>12, <2>13 DEF Goto, Done, Matches, Flagged
    <2>15. QED
      BY <1>2, <1>3, <2>14, DoneIs
  <1>7. QED
    BY <1>5, <1>6

LEMMA BatchOn ==
  ASSUME NEW p, NEW v, On(p, v), Top.at = "batch"
  PROVE  /\ BatchFits(Top, v) /\ p.batches = v.batches \cup {Len(stack)} /\ p.text = Top.file
         /\ \A x : x \in p.under => x \in v.under \/ x = "batch" \/ (x = "inside" /\ "pipe" \in v.under)
  <1>1. BatchFits(Top, v)
    BY KindIs DEF On, Fits
  <1>2. p.batches = v.batches \cup {Len(stack)} /\ p.text = Top.file
    BY DEF On, Above, BatchesAt, TextAt
  <1>3. p.under = v.under \cup Kinds(Top, v)
    BY DEF On, Above
  <1>4. ASSUME NEW x \in Kinds(Top, v) PROVE x = "batch" \/ (x = "inside" /\ "pipe" \in v.under)
    BY <1>4 DEF Kinds
  <1>5. QED
    BY <1>1, <1>2, <1>3, <1>4

(* Back to what the batch was started from.                                  *)
LEMMA LeaveBatch ==
  ASSUME NEW p, Matches(p), NEW v, On(p, v), Top.at = "batch",
         batch' = Top.prev, UNCHANGED <<jft, files, cwd, buf, names, leaving>>
  PROVE  /\ Reads(v)' /\ Stored(v)' /\ v.names = names' /\ v.batch = batch'
         /\ leaving' \in BOOLEAN /\ (leaving' => "slash" \in v.under)
  <1>1. /\ p.jft = v.jft /\ p.made = v.made /\ p.names = v.names
        /\ v.batches \subseteq p.batches /\ v.under \subseteq p.under
    BY OnIs
  <1>2. BatchFits(Top, v) /\ ("slash" \in p.under => "slash" \in v.under)
    BY BatchOn
  <1>3. Top.prev = v.batch
    BY <1>2 DEF BatchFits
  <1>4. NoneHidden /\ BatchesCall /\ v.at # "call" => v.batches = {}
    BY <1>2 DEF BatchFits
  <1>5. Reads(v)'
    BY <1>1, <1>4 DEF Matches, Reads
  <1>6. Stored(v)'
    BY <1>1 DEF Matches, Stored, Here
  <1>7. QED
    BY <1>1, <1>2, <1>3, <1>5, <1>6 DEF Matches, Flagged

LEMMA EndBatchStep == Inv /\ EndBatch => Inv'
  <1>1. SUFFICES ASSUME Inv, EndBatch PROVE Inv'
    OBVIOUS
  <1>2. stack # <<>> /\ Top.at = "batch"
    BY <1>1 DEF EndBatch, At
  <1>3. PICK p, v : /\ Holds(stack, p) /\ Matches(p) /\ On(p, v)
                    /\ Holds(Below, v) /\ v.ready = "waits"
    BY <1>1, <1>2, WaitingIs DEF Readiness
  <1>4. stack' = Below /\ batch' = Top.prev
    BY <1>1 DEF EndBatch, LeavesBatch, Returns
  <1>5. ASSUME NoneHidden, ended PROVE latched'
    <2>1. Len(stack) \in p.batches /\ stack[Len(stack)] = Top
      BY <1>2, <1>3, BatchOn, StackIs DEF Holds
    <2>2. latched /\ Top.cancelled
      BY <1>3, <1>5, <2>1 DEF Matches, Cancelled
    <2>3. QED
      BY <1>1, <2>2 DEF EndBatch, Runs
  <1>6. Cancelled(v)'
    BY <1>1, <1>2, <1>3, <1>4, <1>5, CancelledBelow DEF EndBatch
  <1>7. /\ Reads(v)' /\ Stored(v)' /\ v.names = names' /\ v.batch = batch'
        /\ leaving' \in BOOLEAN /\ (leaving' => "slash" \in v.under)
    BY <1>1, <1>2, <1>3, <1>4, LeaveBatch DEF EndBatch
  <1>8. Flagged(v)'
    BY <1>1, <1>3, <1>7 DEF EndBatch, Matches, Flagged
  <1>9. QED
    BY <1>3, <1>4, <1>6, <1>7, <1>8 DEF Inv, Matches

LEMMA TerminateStep == Inv /\ Terminate => Inv' /\ Len(stack') = Len(Below)
  <1>1. SUFFICES ASSUME Inv, Terminate PROVE Inv' /\ Len(stack') = Len(Below)
    OBVIOUS
  <1>2. stack # <<>> /\ Top.at = "batch"
    BY <1>1 DEF Terminate, Runs, At
  <1>3. PICK p, v : /\ Holds(stack, p) /\ Matches(p) /\ On(p, v)
                    /\ Holds(Below, v) /\ v.ready = "waits"
    BY <1>1, <1>2, WaitingIs DEF Readiness
  <1> DEFINE ends == Chain(Len(stack))
             t == [i \in DOMAIN stack |->
                     IF i \in ends THEN [stack[i] EXCEPT !.cancelled = TRUE] ELSE stack[i]]
             r == Branched(t, ends)
             n == Len(stack)
  <1>4. /\ IsList(stack) /\ IsList(Below) /\ Len(Below) \in Nat /\ n = Len(Below) + 1
        /\ DOMAIN stack = 1 .. n /\ \A i \in 1 .. Len(Below) : stack[i] = Below[i]
    BY <1>2, <1>3, StackIs DEF Holds
  <1>5. /\ \A k \in ends : k \in 1 .. n /\ stack[k].at = "batch"
        /\ NoneHidden => \A k \in 1 .. n : stack[k].at = "batch" => k \in ends
    BY <1>2, <1>3, ChainIs
  <1>6. stack' = Front(r)
    BY <1>1 DEF Terminate
  <1> HIDE DEF ends
  <1>7. ASSUME NEW i \in ends
        PROVE  [stack[i] EXCEPT !.cancelled = TRUE].at = "batch"
               /\ [stack[i] EXCEPT !.cancelled = TRUE].cancelled
    <2>1. IsBatch(stack[i])
      BY <1>3, <1>5, BatchIs
    <2>2. QED
      BY <2>1, EditedIs
  <1>8. t = [i \in 1 .. n |->
               IF i \in ends THEN [stack[i] EXCEPT !.cancelled = TRUE] ELSE stack[i]]
    BY <1>4
  <1>9. /\ n \in Nat
        /\ \A i \in 1 .. n : t[i] = IF i \in ends THEN [stack[i] EXCEPT !.cancelled = TRUE]
                                    ELSE stack[i]
    BY <1>4, <1>8
  <1>10. IsList(t) /\ Len(t) = n
    <2>1. t = [i \in 1 .. n |-> t[i]]
      BY <1>8
    <2> HIDE DEF t
    <2>2. QED
      BY <1>9, <2>1, ListOf
  <1> HIDE DEF t
  <1>11. AllResemble(t, stack)
    BY <1>5, <1>9, <1>10 DEF AllResemble, Resembles
  <1>12. \A i \in 1 .. n : t[i] = stack[i] \/ (t[i].at = "batch" /\ stack[i].at = "batch")
    BY <1>5, <1>7, <1>9
  <1>13. AllResemble(r, stack)
    BY <1>4, <1>11, <1>12, BranchedIs
  <1>14. \A i \in ends : r[i] = t[i] /\ t[i].cancelled
    <2>1. ASSUME NEW i \in ends PROVE r[i] = t[i] /\ t[i].cancelled
      <3>1. i \in 1 .. n /\ t[i].at = "batch" /\ t[i].cancelled
        BY <1>5, <1>7, <1>9
      <3>2. DOMAIN t = 1 .. n
        BY <1>10, ListIs
      <3>3. r[i] = t[i]
        BY <3>1, <3>2 DEF Branched
      <3>4. QED
        BY <3>1, <3>3
    <2>2. QED
      BY <2>1
  <1> HIDE DEF r
  <1>15. IsList(r) /\ Len(r) = n /\ \A i \in 1 .. n : Resembles(r[i], stack[i])
    BY <1>13 DEF AllResemble
  <1>16. r # <<>>
    BY <1>4, <1>15, NoneIsList
  <1>17. IsList(Front(r)) /\ r = Put(Front(r), Last(r)) /\ Len(r) = Len(Front(r)) + 1
    BY <1>15, <1>16, PeelIs
  <1> DEFINE q == Front(r)
  <1>18. Len(q) = Len(Below)
    <2>1. Len(q) \in Nat
      BY <1>17, ListIs
    <2>2. QED
      BY <1>4, <1>15, <1>17, <2>1
  <1>19. \A i \in 1 .. Len(q) : r[i] = q[i]
    BY <1>17, PutIs
  <1> HIDE DEF q
  <1>20. AllResemble(q, Below)
    <2>1. \A i \in 1 .. Len(Below) : i \in 1 .. n
      BY <1>4
    <2>2. IsList(q)
      BY <1>17 DEF q
    <2>3. QED
      BY <1>4, <1>15, <1>18, <1>19, <2>1, <2>2 DEF AllResemble
  <1>21. stack' = q
    BY <1>6 DEF q
  <1>22. Holds(stack', v)
    BY <1>3, <1>20, <1>21, AlikeIs
  <1>23. Cancelled(v)'
    <2>1. ASSUME NoneHidden, NEW i \in v.batches PROVE stack'[i].cancelled
      <3>1. i \in 1 .. Len(Below) /\ Below[i].at = "batch"
        BY <1>3, BatchesAre
      <3>2. i \in 1 .. n /\ stack[i].at = "batch"
        BY <1>4, <3>1
      <3>3. i \in ends
        BY <1>5, <2>1, <3>2
      <3>4. QED
        BY <1>14, <1>18, <1>19, <1>21, <3>1, <3>3
    <2>2. QED
      BY <1>1, <2>1 DEF Cancelled, Terminate
  <1>24. /\ Reads(v)' /\ Stored(v)' /\ v.names = names' /\ v.batch = batch'
         /\ leaving' \in BOOLEAN /\ (leaving' => "slash" \in v.under)
    BY <1>1, <1>2, <1>3, LeaveBatch DEF Terminate
  <1>25. Flagged(v)'
    BY <1>1, <1>3, <1>24 DEF Terminate, Matches, Flagged
  <1>26. QED
    BY <1>18, <1>21, <1>22, <1>23, <1>24, <1>25 DEF Inv, Matches

(* A batch is started on a level.                                            *)
Welcomes(l, p, file) ==
  /\ l.jft = p.jft /\ l.names = p.names /\ l.made = p.made /\ l.batch = p.batch
  /\ ("slash" \in p.under => "slash" \in l.under)
  /\ l.ready = "waits" /\ file \in DOMAIN Texts
  /\ PipesStay /\ "pipe" \in l.under => file \in InPipes
  /\ NoneHidden /\ l.batch = 0 => l.batches = {}
  /\ BatchesCall /\ l.batch # 0 => l.at = "call"

LEMMA EnterIs ==
  ASSUME NEW p, Matches(p), ~latched, NoneHidden => ~ended, NEW b, NEW l, Holds(b, l), NEW file,
         Welcomes(l, p, file), stack' = Put(b, BatchFrame(file)), batch' = Len(b) + 1, buf' = file,
         UNCHANGED <<jft, files, cwd, names, latched, leaving, ended>>
  PROVE  Inv'
  <1> DEFINE g == BatchFrame(file)
  <1>1. /\ g = [at |-> "batch", file |-> g.file, pos |-> g.pos, cancelled |-> g.cancelled,
                prev |-> g.prev]
        /\ g.at = "batch" /\ g.file = file /\ g.prev = batch /\ g.cancelled \in BOOLEAN
    BY DEF BatchFrame
  <1>2. stack' = Put(b, g)
    OBVIOUS
  <1> HIDE DEF g
  <1>3. batch = l.batch
    BY DEF Matches, Welcomes
  <1>4. BatchFits(g, l)
    BY <1>1, <1>3 DEF BatchFits, Welcomes
  <1>5. Fits(g, l)
    BY <1>4 DEF Fits, Bears, Welcomes
  <1>6. PICK u : Upon(b, g, l, u)
    BY <1>5, PutUpon
  <1>7. Holds(Put(b, g), u) /\ u.jft = l.jft /\ u.names = l.names /\ u.made = l.made /\ u.at = "batch"
    BY <1>1, <1>6, UponIs
  <1>8. u.ready = "waits"
    BY <1>1, <1>6, UponIs DEF Readiness
  <1>9. u.batch = batch' /\ u.text = file
    BY <1>1, <1>6 DEF Upon, Above, BatchAt, TextAt
  <1>10. \A x : x \in u.under <=> x \in l.under \/ x = "batch" \/ (x = "inside" /\ "pipe" \in l.under)
    BY <1>1, <1>6, UnderUpon
  <1>11. IsLevel(l, Len(b))
    BY HoldsIs
  <1>12. Reads(u)'
    <2>1. "inside" \in u.under => "pipe" \in l.under
      BY <1>10, <1>11 DEF IsLevel
    <2>2. QED
      BY <1>9, <2>1 DEF Reads, Welcomes
  <1>13. Stored(u)'
    BY <1>7 DEF Matches, Stored, Welcomes, Here
  <1>14. Cancelled(u)'
    BY DEF Cancelled
  <1>15. Flagged(u)'
    <2>1. leaving => "slash" \in u.under
      BY <1>10 DEF Matches, Flagged, Welcomes
    <2>2. QED
      BY <1>8, <2>1 DEF Matches, Flagged
  <1>16. u.names = names'
    BY <1>7 DEF Matches, Welcomes
  <1>17. QED
    BY <1>2, <1>7, <1>9, <1>12, <1>13, <1>14, <1>15, <1>16 DEF Inv, Matches

(* The batch that may be started.                                            *)
LEMMA StartsIs ==
  ASSUME NEW d, NEW v, Allowed(d, v), d.op \in {"run", "call"}
  PROVE  /\ PipesStay /\ "pipe" \in v.under => d.file \in InPipes
         /\ NoneHidden /\ v.batch = 0 => v.batches = {}
         /\ d.op = "run" /\ BatchesCall => v.batches = {}
  <1>1. PipesStay /\ "pipe" \in v.under => d \in Steady(InPipes)
    BY WithinIs DEF Allowed
  <1>2. NoneHidden /\ v.batches # {} /\ v.batch = 0 => d \in Quiet
    BY WithinIs DEF Allowed
  <1>3. BatchesCall /\ v.batches # {} => d \in ByCall
    BY WithinIs DEF Allowed
  <1>4. PipesStay /\ "pipe" \in v.under => d.file \in InPipes
    BY <1>1 DEF Steady
  <1>5. NoneHidden /\ v.batch = 0 => v.batches = {}
    BY <1>2 DEF Quiet
  <1>6. d.op = "run" /\ BatchesCall => v.batches = {}
    BY <1>3 DEF ByCall
  <1>7. QED
    BY <1>4, <1>5, <1>6

LEMMA RunStep == Inv /\ Run => Inv'
  <1>1. SUFFICES ASSUME Inv, Run PROVE Inv'
    OBVIOUS
  <1>2. At("do") /\ Top.do.op = "run"
    BY <1>1 DEF Run, Doing
  <1>3. PICK p, v : /\ Holds(stack, p) /\ Matches(p) /\ On(p, v) /\ DoFits(Top, v)
                    /\ Holds(Below, v) /\ v.ready = "waits"
                    /\ leaving \in BOOLEAN /\ (leaving => "slash" \in v.under)
    BY <1>1, <1>2, DoingIs
  <1> DEFINE file == Top.do.file
  <1>4. CASE stack' = Below /\ UNCHANGED <<batch, buf>>
    <2>1. Done(v, Below) /\ cwd' = cwd
      BY <1>1, <1>2, <1>3, <1>4, DoingIs DEF Run, Done, Matches, Flagged
    <2>2. QED
      BY <1>2, <1>3, <2>1, DoneIs
  <1>5. CASE /\ stack' = Append(Below, BatchFrame(file)) /\ batch' = Len(Below) + 1 /\ buf' = file
             /\ Found(file)
    <2>1. /\ p.jft = v.jft /\ p.made = v.made /\ p.names = v.names /\ p.batch = v.batch
          /\ p.ready = "busy" /\ \A y : y \in p.under <=> y \in v.under \/ y = "do"
      BY <1>2, <1>3, OnIs DEF At, Readiness
    <2>2. /\ PipesStay /\ "pipe" \in v.under => file \in InPipes
          /\ NoneHidden /\ v.batch = 0 => v.batches = {}
          /\ BatchesCall => v.batches = {}
      BY <1>2, <1>3, StartsIs DEF DoFits
    <2>3. v.batch # 0 => v.batches # {}
      BY <1>3, HoldsIs DEF IsLevel
    <2>4. Welcomes(v, p, file)
      BY <1>3, <1>5, <2>1, <2>2, <2>3 DEF Welcomes, Found
    <2>5. stack' = Put(Below, BatchFrame(file))
      BY <1>5 DEF Put
    <2>6. QED
      BY <1>1, <1>3, <1>5, <2>1, <2>4, <2>5, BusyIs, EnterIs DEF Run
  <1>6. QED
    BY <1>1, <1>4, <1>5 DEF Run, Enters

LEMMA CallStep == Inv /\ Call => Inv'
  <1>1. SUFFICES ASSUME Inv, Call PROVE Inv'
    OBVIOUS
  <1>2. At("do") /\ Top.do.op = "call"
    BY <1>1 DEF Call, Doing
  <1>3. PICK p, v : /\ Holds(stack, p) /\ Matches(p) /\ On(p, v) /\ DoFits(Top, v)
                    /\ Holds(Below, v) /\ v.ready = "waits"
                    /\ leaving \in BOOLEAN /\ (leaving => "slash" \in v.under)
    BY <1>1, <1>2, DoingIs
  <1> DEFINE file == Top.do.file
             g == [at |-> "call", caller |-> batch]
             b == Append(Below, g)
  <1>4. CASE Returns(leaving) /\ UNCHANGED <<batch, buf>>
    <2>1. Done(v, Below) /\ cwd' = cwd
      BY <1>1, <1>2, <1>3, <1>4, DoingIs DEF Call, Returns, Done, Matches, Flagged
    <2>2. QED
      BY <1>2, <1>3, <2>1, DoneIs
  <1>5. CASE Enters(b, file) /\ Found(file)
    <2>1. g = [at |-> "call", caller |-> g.caller] /\ g.at = "call" /\ g.caller = batch
      OBVIOUS
    <2>2. b = Put(Below, g)
      BY DEF Put
    <2> HIDE DEF g, b
    <2>3. /\ p.jft = v.jft /\ p.made = v.made /\ p.names = v.names /\ p.batch = v.batch
          /\ p.batches = v.batches /\ p.text = v.text /\ p.at = "do"
          /\ p.ready = "busy" /\ \A y : y \in p.under <=> y \in v.under \/ y = "do"
      BY <1>2, <1>3, OnIs DEF At, Readiness
    <2>4. /\ PipesStay /\ "pipe" \in v.under => file \in InPipes
          /\ NoneHidden /\ v.batch = 0 => v.batches = {}
      BY <1>2, <1>3, StartsIs DEF DoFits
    <2>5. CallFits(g, v)
      BY <1>3, <2>1, <2>3, <2>4 DEF CallFits, Matches
    <2>6. Fits(g, v)
      BY <1>3, <2>5 DEF Fits, Bears
    <2>7. PICK u : Upon(Below, g, v, u)
      BY <1>3, <2>6, PutUpon
    <2>8. /\ Holds(b, u)
          /\ u.jft = v.jft /\ u.names = v.names /\ u.made = v.made
          /\ u.batch = v.batch /\ u.batches = v.batches /\ u.text = v.text /\ u.at = "call"
      BY <2>1, <2>2, <2>7, UponIs
    <2>9. \A y : y \in u.under <=> y \in v.under \/ y = "call"
      BY <2>1, <2>7, UnderUpon
    <2>10. u.ready = "waits"
      BY <2>1, <2>7, UponIs DEF Readiness
    <2>11. CASE stack' = b /\ UNCHANGED <<batch, buf>>
      <3>1. Alike(u, p)
        BY <2>3, <2>8, <2>9, <2>10 DEF Alike
      <3>2. u.names = names' /\ u.batch = batch'
        BY <1>1, <1>3, <2>3, <2>8, <2>11 DEF Call, Matches
      <3>3. Matches(u)'
        BY <1>1, <1>3, <2>3, <2>11, <3>1, <3>2, BusyIs, AlikeMatches DEF Call
      <3>4. QED
        BY <2>8, <2>11, <3>3 DEF Inv
    <2>12. CASE stack' = Append(b, BatchFrame(file)) /\ batch' = Len(b) + 1 /\ buf' = file
      <3>1. Welcomes(u, p, file)
        BY <1>5, <2>3, <2>4, <2>8, <2>9, <2>10 DEF Welcomes, Found
      <3>2. stack' = Put(b, BatchFrame(file))
        BY <2>12 DEF Put
      <3>3. QED
        BY <1>1, <1>3, <2>3, <2>8, <2>12, <3>1, <3>2, BusyIs, EnterIs DEF Call
    <2>13. QED
      BY <1>5, <2>11, <2>12 DEF Enters
  <1>6. QED
    BY <1>1, <1>4, <1>5 DEF Call

LEMMA EndCallStep == Inv /\ EndCall => Inv'
  <1>1. SUFFICES ASSUME Inv, EndCall PROVE Inv'
    OBVIOUS
  <1>2. stack # <<>> /\ Top.at = "call"
    BY <1>1 DEF EndCall, At
  <1>3. PICK p, v : /\ Holds(stack, p) /\ Matches(p) /\ On(p, v)
                    /\ Holds(Below, v) /\ Fits(Top, v) /\ v.ready = "waits"
    BY <1>1, <1>2, WaitingIs DEF Readiness
  <1>4. /\ p.jft = v.jft /\ p.made = v.made /\ p.names = v.names /\ p.batch = v.batch
        /\ p.batches = v.batches /\ p.text = v.text /\ p.at = "call"
        /\ \A y : y \in p.under <=> y \in v.under \/ y = "call"
    BY <1>2, <1>3, OnIs
  <1>5. CallFits(Top, v)
    BY <1>2, <1>3, KindIs DEF Fits
  <1>6. stack' = Below
    BY <1>1 DEF EndCall, Returns
  <1>7. Cancelled(v)'
    BY <1>1, <1>2, <1>3, <1>6, CancelledBelow DEF EndCall, Matches, Cancelled
  <1>8. Flagged(v)'
    BY <1>1, <1>3, <1>4 DEF EndCall, Matches, Flagged
  <1>9. Stored(v)' /\ v.names = names' /\ v.batch = batch'
    BY <1>1, <1>3, <1>4 DEF EndCall, Matches, Stored, Here
  <1>10. Reads(v)'
    <2>1. IsLevel(v, Len(Below))
      BY <1>3, HoldsIs
    <2>2. CASE v.batch = 0
      <3>1. buf' = buf /\ (NoneHidden => v.batches = {})
        BY <1>1, <1>5, <2>2 DEF EndCall, Reloaded, CallFits
      <3>2. QED
        BY <1>3, <1>4, <3>1 DEF Matches, Reads
    <2>3. CASE v.batch # 0
      <3>1. stack[v.batch].file = v.text
        BY <1>3, <1>4, <2>3, BatchesAre
      <3>2. buf' = v.text
        BY <1>1, <1>5, <2>3, <3>1 DEF EndCall, Reloaded, CallFits
      <3>3. v.batches # {} => v.text \in DOMAIN Texts
        BY <2>1 DEF IsLevel
      <3>4. PipesStay /\ "inside" \in v.under => v.text \in InPipes
        BY <2>1, <2>3 DEF IsLevel
      <3>5. QED
        BY <3>2, <3>3, <3>4 DEF Reads
    <2>4. QED
      BY <2>2, <2>3
  <1>11. QED
    BY <1>3, <1>6, <1>7, <1>8, <1>9, <1>10 DEF Inv, Matches

-----------------------------------------------------------------------------
(* Scopes around a command.                                                  *)

One(x) == <<x>>

LEMMA OneIs ==
  ASSUME NEW x
  PROVE  IsList(One(x)) /\ Len(One(x)) = 1 /\ One(x)[1] = x
  <1>1. <<x>> \in Seq({x}) /\ Len(<<x>>) = 1 /\ <<x>>[1] = x
    OBVIOUS
  <1>2. QED
    BY <1>1, SeqIsList DEF One

LEMMA JoinedList ==
  ASSUME NEW a, IsList(a), NEW b, IsList(b)
  PROVE  /\ IsList(Joined(a, b)) /\ Len(Joined(a, b)) = Len(a) + Len(b)
         /\ Joined(<<>>, b) = b
         /\ \A i \in 1 .. Len(a) + Len(b) : Joined(a, b)[i] = IF i <= Len(a) THEN a[i] ELSE b[i - Len(a)]
  <1> DEFINE S == ToSet(a) \cup ToSet(b)
  <1>1. a \in Seq(S) /\ b \in Seq(S)
    BY SeqMonotonic DEF IsList
  <1>2. /\ a \o b \in Seq(S) /\ Len(a \o b) = Len(a) + Len(b)
        /\ \A i \in 1 .. Len(a) + Len(b) : (a \o b)[i] = IF i <= Len(a) THEN a[i] ELSE b[i - Len(a)]
    BY <1>1, ConcatProperties
  <1>3. <<>> \o b = b
    BY <1>1, ConcatEmptySeq
  <1>4. IsList(a \o b)
    BY <1>2, SeqIsList
  <1>5. QED
    BY <1>2, <1>3, <1>4 DEF Joined

LEMMA JoinedThree ==
  ASSUME NEW a, IsList(a), NEW b, IsList(b), NEW c, IsList(c)
  PROVE  Joined(Joined(a, b), c) = Joined(a, Joined(b, c))
  <1> DEFINE S == ToSet(a) \cup ToSet(b) \cup ToSet(c)
  <1>1. a \in Seq(S) /\ b \in Seq(S) /\ c \in Seq(S)
    BY SeqMonotonic DEF IsList
  <1>2. (a \o b) \o c = a \o (b \o c)
    BY <1>1, ConcatAssociative
  <1>3. QED
    BY <1>2 DEF Joined

LEMMA JoinOne ==
  ASSUME NEW x, NEW w, IsList(w)
  PROVE  /\ IsList(Joined(One(x), w)) /\ Len(Joined(One(x), w)) = Len(w) + 1
         /\ Joined(One(x), w)[1] = x
         /\ \A i \in 2 .. Len(w) + 1 : Joined(One(x), w)[i] = w[i - 1]
  <1>1. IsList(One(x)) /\ Len(One(x)) = 1 /\ One(x)[1] = x
    BY OneIs
  <1>2. Len(w) \in Nat
    BY ListIs
  <1> DEFINE a == One(x)
             r == Joined(a, w)
  <1> HIDE DEF a
  <1>3. /\ IsList(r) /\ Len(r) = Len(a) + Len(w)
        /\ \A i \in 1 .. Len(a) + Len(w) : r[i] = IF i <= Len(a) THEN a[i] ELSE w[i - Len(a)]
    BY <1>1, JoinedList DEF a
  <1> HIDE DEF r
  <1>4. r[1] = x
    BY <1>1, <1>2, <1>3 DEF a
  <1>5. \A i \in 2 .. Len(w) + 1 : r[i] = w[i - 1]
    BY <1>1, <1>2, <1>3 DEF a
  <1>6. QED
    BY <1>1, <1>2, <1>3, <1>4, <1>5 DEF a, r

(* None or one scope in front of the others.                                 *)
Front1(S, v, at) ==
  \/ S = <<>>
  \/ \E k \in ScopeKinds : \E name :
       S = One(Scope(k, name)) /\ NameFits(k, name, v) /\ (k = "pipe" => at = "pipe")

LEMMA PrependIs ==
  ASSUME NEW w, NEW v, Errand(w, v, "scope"), NEW at, NEW S, Front1(S, v, at)
  PROVE  Errand(Joined(S, w), v, at) /\ IsList(S)
  <1>1. /\ IsList(w) /\ w # <<>>
        /\ \A i \in 1 .. Len(w) - 1 :
             /\ IsFresh(w[i]) /\ w[i].kind \in ScopeKinds /\ NameFits(w[i].kind, w[i].name, v)
             /\ w[i].kind # "pipe"
        /\ w[Len(w)] = Do(w[Len(w)].do, 0) /\ Allowed(w[Len(w)].do, v)
    BY DEF Errand
  <1>2. Len(w) \in Nat /\ Len(w) # 0
    BY <1>1, ListIs
  <1>3. CASE S = <<>>
    <2>1. Joined(S, w) = w /\ IsList(S)
      BY <1>1, <1>3, NoneIsList, JoinedList
    <2>2. QED
      BY <1>1, <2>1 DEF Errand
  <1>4. CASE S # <<>>
    <2>1. PICK k, name : /\ k \in ScopeKinds /\ S = One(Scope(k, name)) /\ NameFits(k, name, v)
                         /\ k = "pipe" => at = "pipe"
      BY <1>4 DEF Front1
    <2> DEFINE x == Scope(k, name)
               r == Joined(One(x), w)
               n == Len(w)
    <2>2. x.kind = k /\ x.name = name /\ IsFresh(x)
      BY DEF Scope, IsFresh
    <2> HIDE DEF x
    <2>3. /\ IsList(r) /\ Len(r) = n + 1 /\ r[1] = x
          /\ \A i \in 2 .. n + 1 : r[i] = w[i - 1]
      BY <1>1, JoinOne
    <2> HIDE DEF r
    <2>4. r # <<>>
      BY <1>2, <2>3, NoneIsList
    <2>5. n + 1 \in 2 .. n + 1 /\ (n + 1) - 1 = n
      BY <1>2
    <2>6. r[Len(r)] = w[n]
      BY <2>3, <2>5
    <2>7. ASSUME NEW i \in 1 .. Len(r) - 1
          PROVE  /\ IsFresh(r[i]) /\ r[i].kind \in ScopeKinds /\ NameFits(r[i].kind, r[i].name, v)
                 /\ r[i].kind = "pipe" => i = 1 /\ at = "pipe"
      <3>1. CASE i = 1
        BY <2>1, <2>2, <2>3, <3>1
      <3>2. CASE i # 1
        <4>1. i \in 2 .. n + 1 /\ i - 1 \in 1 .. n - 1
          BY <1>2, <2>3, <3>2
        <4>2. r[i] = w[i - 1]
          BY <2>3, <4>1
        <4>3. QED
          BY <1>1, <4>1, <4>2
      <3>3. QED
        BY <3>1, <3>2
    <2>8. Errand(r, v, at)
      BY <1>1, <2>3, <2>4, <2>6, <2>7 DEF Errand
    <2>9. QED
      BY <2>1, <2>8, OneIs DEF r, x
  <1>5. QED
    BY <1>3, <1>4

(* A stage's own redirections.                                               *)
StageFits(stage, v) ==
  /\ \A f \in {stage.in, stage.out} : f # Closed /\ ~IsTemp(f)
  /\ Allowed(stage.do, v)

LEMMA RedirectedIs ==
  ASSUME NEW stage, NEW v, StageFits(stage, v)
  PROVE  Errand(Redirected(stage), v, "scope") /\ IsList(Redirected(stage))
  <1> DEFINE x == Do(stage.do, 0)
             w == One(x)
             A == IF stage.in = Unset THEN <<>> ELSE <<Scope("in", stage.in)>>
             B == IF stage.out = Unset THEN <<>> ELSE <<Scope("out", stage.out)>>
  <1>1. x.do = stage.do
    BY DEF Do
  <1>2. x = Do(x.do, 0)
    BY <1>1
  <1> HIDE DEF x
  <1>3. IsList(w) /\ Len(w) = 1 /\ w[1] = x
    BY OneIs
  <1>4. w # <<>>
    BY <1>3, NoneIsList
  <1> HIDE DEF w
  <1>5. Errand(w, v, "scope")
    BY <1>1, <1>2, <1>3, <1>4 DEF Errand, StageFits
  <1>6. Front1(B, v, "scope")
    <2>1. NameFits("out", stage.out, v) /\ "out" \in ScopeKinds
      BY DEF NameFits, StageFits, ScopeKinds
    <2>2. QED
      BY <2>1 DEF Front1, One
  <1>7. Front1(A, v, "scope")
    <2>1. NameFits("in", stage.in, v) /\ "in" \in ScopeKinds
      BY DEF NameFits, StageFits, ScopeKinds
    <2>2. QED
      BY <2>1 DEF Front1, One
  <1>8. Redirected(stage) = Joined(Joined(A, B), w)
    BY DEF Redirected, Joined, w, x, One
  <1> HIDE DEF A, B
  <1>9. Errand(Joined(B, w), v, "scope") /\ IsList(B)
    BY <1>5, <1>6, PrependIs
  <1>10. Errand(Joined(A, Joined(B, w)), v, "scope") /\ IsList(A)
    BY <1>7, <1>9, PrependIs
  <1>11. Joined(Joined(A, B), w) = Joined(A, Joined(B, w))
    BY <1>3, <1>9, <1>10, JoinedThree
  <1>12. QED
    BY <1>8, <1>10, <1>11 DEF Errand

LEMMA PipedIs ==
  ASSUME NEW p, NEW i, NEW v, v.at = "pipe", StageFits(p.line[i], v),
         i # 1 => NameFits("feed", Last(p.made), v)
  PROVE  /\ Errand(Piped(p, i), v, "pipe")
         /\ i # Len(p.line) => Len(Piped(p, i)) > 1 /\ Piped(p, i)[1].kind = "pipe"
  <1> DEFINE w == Redirected(p.line[i])
             A == IF i = Len(p.line) THEN <<>> ELSE <<Scope("pipe", Unset)>>
             B == IF i = 1 THEN <<>> ELSE <<Scope("feed", Last(p.made))>>
  <1>1. Errand(w, v, "scope") /\ IsList(w)
    BY RedirectedIs
  <1>2. Front1(B, v, "scope")
    <2>1. "feed" \in ScopeKinds
      BY DEF ScopeKinds
    <2>2. QED
      BY <2>1 DEF Front1, One
  <1>3. Front1(A, v, "pipe")
    <2>1. "pipe" \in ScopeKinds /\ NameFits("pipe", Unset, v)
      BY DEF ScopeKinds, NameFits
    <2>2. QED
      BY <2>1 DEF Front1, One
  <1>4. Piped(p, i) = Joined(Joined(A, B), w)
    BY DEF Piped, Joined
  <1> HIDE DEF w, B
  <1>5. Errand(Joined(B, w), v, "scope") /\ IsList(B)
    BY <1>1, <1>2, PrependIs
  <1> DEFINE y == Joined(B, w)
  <1>6. Joined(Joined(A, B), w) = Joined(A, y)
    <2>1. IsList(A)
      BY <1>3, <1>5, PrependIs
    <2> HIDE DEF A
    <2>2. QED
      BY <1>1, <1>5, <2>1, JoinedThree
  <1>7. Errand(Joined(A, y), v, "pipe")
    BY <1>3, <1>5, PrependIs
  <1>8. IsList(y) /\ y # <<>>
    BY <1>5 DEF Errand
  <1> HIDE DEF y
  <1>9. ASSUME i # Len(p.line)
        PROVE  Len(Joined(A, y)) > 1 /\ Joined(A, y)[1].kind = "pipe"
    <2> DEFINE x == Scope("pipe", Unset)
    <2>1. A = One(x) /\ x.kind = "pipe"
      BY <1>9 DEF One, Scope
    <2> HIDE DEF x, A
    <2>2. Len(Joined(A, y)) = Len(y) + 1 /\ Joined(A, y)[1] = x
      BY <1>8, <2>1, JoinOne
    <2>3. Len(y) \in Nat /\ Len(y) # 0
      BY <1>8, ListIs
    <2>4. QED
      BY <2>1, <2>2, <2>3
  <1> HIDE DEF A
  <1>10. QED
    BY <1>4, <1>6, <1>7, <1>9

LEMMA TailErrand ==
  ASSUME NEW w, NEW v, NEW at, Errand(w, v, at), Len(w) > 1
  PROVE  Errand(Tail(w), v, "scope")
  <1> DEFINE S == ToSet(w)
             t == Tail(w)
             n == Len(w)
  <1>1. /\ IsList(w) /\ w # <<>>
        /\ \A i \in 1 .. n - 1 :
             /\ IsFresh(w[i]) /\ w[i].kind \in ScopeKinds /\ NameFits(w[i].kind, w[i].name, v)
             /\ w[i].kind = "pipe" => i = 1
        /\ w[n] = Do(w[n].do, 0) /\ Allowed(w[n].do, v)
    BY DEF Errand
  <1>2. n \in Nat
    BY <1>1, ListIs
  <1>3. w \in Seq(S)
    BY <1>1 DEF IsList
  <1>4. t \in Seq(S) /\ Len(t) = n - 1 /\ \A i \in 1 .. Len(t) : t[i] = w[i + 1]
    BY <1>1, <1>3, HeadTailProperties
  <1>5. IsList(t)
    BY <1>4, SeqIsList
  <1> HIDE DEF t, n
  <1>6. t # <<>>
    BY <1>2, <1>4, NoneIsList DEF n
  <1>7. Len(t) \in 1 .. Len(t) /\ Len(t) + 1 = n
    BY <1>2, <1>4 DEF n
  <1>8. t[Len(t)] = w[n]
    BY <1>4, <1>7
  <1>9. ASSUME NEW i \in 1 .. Len(t) - 1
        PROVE  /\ IsFresh(t[i]) /\ t[i].kind \in ScopeKinds /\ NameFits(t[i].kind, t[i].name, v)
               /\ t[i].kind # "pipe"
    <2>1. i \in 1 .. Len(t) /\ i + 1 \in 1 .. n - 1 /\ i + 1 # 1
      BY <1>2, <1>4
    <2>2. t[i] = w[i + 1]
      BY <1>4, <2>1
    <2>3. QED
      BY <1>1, <2>1, <2>2
  <1>10. QED
    BY <1>1, <1>5, <1>6, <1>8, <1>9 DEF Errand, t

(* Two levels at which the same may be done.                                 *)
SameUse(u, v) ==
  /\ v.made \subseteq u.made /\ u.batches = v.batches /\ u.batch = v.batch
  /\ "pipe" \in u.under => "pipe" \in v.under

LEMMA ErrandUp ==
  ASSUME NEW w, NEW v, NEW at, Errand(w, v, at), NEW u, SameUse(u, v)
  PROVE  Errand(w, u, at)
  <1>1. ASSUME NEW d, Allowed(d, v) PROVE Allowed(d, u)
    BY <1>1 DEF Allowed, SameUse
  <1>2. ASSUME NEW k, NEW name, NameFits(k, name, v) PROVE NameFits(k, name, u)
    BY <1>2 DEF NameFits, SameUse
  <1>3. QED
    BY <1>1, <1>2 DEF Errand

(* A frame that has just begun.                                              *)
Fresh(g) ==
  \/ g.at = "do"
  \/ g.at = "scope" /\ g.pc = "open"
  \/ g.at = "pipe" /\ g.i = 0 /\ g.made = <<>>

Loaded(s, r) == [s EXCEPT !.rest = r]

NewScope(g, k, name, r) ==
  /\ IsScope(g) /\ g.at = "scope" /\ g.kind = k /\ g.name = name /\ g.pc = "open"
  /\ g.h = IF k \in {"in", "feed"} THEN Stdin ELSE Stdout
  /\ g.file = NoHandle /\ g.saved = NoHandle /\ g.deaf = FALSE /\ g.rest = r

LEMMA ScopeIs ==
  ASSUME NEW k, NEW name, NEW r, NEW s, s = Scope(k, name)
  PROVE  s.at = "scope" /\ NewScope(Loaded(s, r), k, name, r)
  <1> DEFINE h == IF k \in {"in", "feed"} THEN Stdin ELSE Stdout
             g == [s EXCEPT !.rest = r]
  <1>1. s \in [at : {"scope"}, kind : {k}, name : {name}, pc : {"open"}, h : {h},
               file : {NoHandle}, saved : {NoHandle}, deaf : {FALSE}, rest : {<<>>}]
    BY DEF Scope
  <1> HIDE DEF h
  <1>2. g \in [at : {"scope"}, kind : {k}, name : {name}, pc : {"open"}, h : {h},
               file : {NoHandle}, saved : {NoHandle}, deaf : {FALSE}, rest : {r}]
    BY <1>1
  <1>3. s.at = "scope"
    BY <1>1
  <1>4. Loaded(s, r) = g
    BY DEF Loaded
  <1> HIDE DEF g
  <1>5. QED
    BY <1>2, <1>3, <1>4 DEF NewScope, IsScope, h

LEMMA BeginIs ==
  ASSUME NEW w, NEW v, Errand(w, v, v.at),
         v.ready = "waits" \/ (v.ready = "unfed" /\ Len(w) > 1 /\ w[1].kind = "pipe")
  PROVE  \E g : Begin(w) = One(g) /\ Fits(g, v) /\ Fresh(g)
  <1> DEFINE n == Len(w)
  <1>1. /\ IsList(w) /\ w # <<>>
        /\ \A i \in 1 .. n - 1 :
             /\ IsFresh(w[i]) /\ w[i].kind \in ScopeKinds /\ NameFits(w[i].kind, w[i].name, v)
             /\ w[i].kind = "pipe" => i = 1 /\ v.at = "pipe"
        /\ w[n] = Do(w[n].do, 0) /\ Allowed(w[n].do, v)
    BY DEF Errand
  <1>2. n \in Nat /\ n # 0 /\ Head(w) = w[1]
    BY <1>1, ListIs
  <1>3. CASE n = 1
    <2> DEFINE g == w[1]
    <2>1. g = Do(g.do, 0) /\ Allowed(g.do, v)
      BY <1>1, <1>3
    <2>2. v.ready = "waits"
      BY <1>3
    <2>3. Fits(Do(g.do, 0), v) /\ Do(g.do, 0).at = "do"
      BY <2>1, <2>2, DoFitsOn
    <2>4. w = One(g)
      <3>1. w \in Seq(ToSet(w)) /\ g \in ToSet(w)
        BY <1>1, <1>3, ListIs DEF IsList
      <3>2. One(g) \in Seq(ToSet(w)) /\ Len(One(g)) = 1 /\ One(g)[1] = g
        BY <3>1 DEF One
      <3>3. \A i \in 1 .. Len(w) : w[i] = One(g)[i]
        BY <1>3, <3>2
      <3>4. QED
        BY <1>3, <3>1, <3>2, <3>3, SeqEqual
    <2>5. Begin(w) = w
      BY <1>2, <2>1, <2>3 DEF Begin
    <2>6. QED
      BY <2>1, <2>3, <2>4, <2>5 DEF Fresh
  <1>4. CASE n > 1
    <2> DEFINE s == w[1]
               g == Loaded(s, Tail(w))
    <2>1. /\ s = Scope(s.kind, s.name) /\ s.kind \in ScopeKinds /\ NameFits(s.kind, s.name, v)
          /\ s.kind = "pipe" => v.at = "pipe"
      <3>1. 1 \in 1 .. n - 1
        BY <1>2, <1>4
      <3>2. QED
        BY <1>1, <3>1 DEF IsFresh
    <2>2. Errand(Tail(w), v, "scope")
      BY <1>4, TailErrand
    <2> DEFINE t == Tail(w)
    <2>3. v.ready = "waits" \/ (v.ready = "unfed" /\ s.kind = "pipe")
      OBVIOUS
    <2> HIDE DEF s, t
    <2>4. s.at = "scope" /\ NewScope(g, s.kind, s.name, t)
      BY <2>1, ScopeIs DEF t
    <2>5. Begin(w) = One(g)
      BY <1>2, <2>4 DEF Begin, One, s, Loaded
    <2> HIDE DEF g
    <2>6. ScopeFits(g, v)
      BY <2>1, <2>2, <2>4 DEF ScopeFits, NameFits, NewScope, Wired, t
    <2>7. Bears(g, v)
      BY <2>3, <2>4 DEF Bears, NewScope
    <2>8. QED
      BY <2>4, <2>5, <2>6, <2>7 DEF Fits, Fresh, NewScope
  <1> HIDE DEF n
  <1>5. n = 1 \/ n > 1
    BY <1>2
  <1>6. QED
    BY <1>3, <1>4, <1>5

(* The level above a frame that has just begun.                              *)
Newly(w, u) ==
  /\ w.jft = u.jft /\ w.names = u.names /\ w.made = u.made /\ w.batch = u.batch
  /\ w.batches = u.batches /\ w.text = u.text /\ w.ready = "busy" /\ w.at # "call"
  /\ \A x : x \in u.under => x \in w.under
  /\ "inside" \in w.under => "inside" \in u.under

LEMMA FreshOn ==
  ASSUME NEW b, NEW u, Holds(b, u), NEW g, Fits(g, u), Fresh(g)
  PROVE  \E w : Holds(Put(b, g), w) /\ Newly(w, u)
  <1>1. PICK w : Upon(b, g, u, w)
    BY PutUpon
  <1>2. g.at \in {"do", "scope", "pipe"}
    BY DEF Fresh
  <1>3. Readiness(g) = "busy"
    BY DEF Fresh, Readiness
  <1>4. /\ Holds(Put(b, g), w) /\ w.names = u.names /\ w.batch = u.batch
        /\ w.batches = u.batches /\ w.text = u.text /\ w.at = g.at /\ w.ready = "busy"
    BY <1>1, <1>2, <1>3, UponIs
  <1>5. w.jft = u.jft
    BY <1>1 DEF Upon, Above, Rewired, Fresh
  <1>6. w.made = u.made
    <2>1. CASE g.at = "pipe"
      <3>1. g.made = <<>>
        BY <2>1 DEF Fresh
      <3>2. ToSet(<<>>) = {}
        BY DEF ToSet
      <3>3. w.made = u.made \cup {}
        BY <1>1, <2>1, <3>1, <3>2 DEF Upon, Above, AllMade
      <3>4. QED
        BY <3>3
    <2>2. CASE g.at # "pipe"
      BY <1>1, <2>2, UponIs
    <2>3. QED
      BY <2>1, <2>2
  <1>7. \A x : x \in w.under <=> x \in u.under \/ x = g.at
    BY <1>1, <1>2, UnderUpon
  <1>8. QED
    BY <1>2, <1>4, <1>5, <1>6, <1>7 DEF Newly

LEMMA StartedIs ==
  ASSUME NEW line, IsLine(line), NEW v, v.ready = "waits",
         \A s \in ToSet(line) : Allowed(s.do, v),
         PipesStay /\ Len(line) > 1 => AllWithin(line, Steady(InPipes))
  PROVE  \E g : Started(line) = One(g) /\ Fits(g, v) /\ Fresh(g)
  <1>1. IsList(line) /\ line # <<>>
    BY DEF IsLine, IsList
  <1>2. Len(line) \in Nat /\ Len(line) # 0 /\ \A i \in 1 .. Len(line) : line[i] \in ToSet(line)
    BY <1>1, ListIs
  <1>3. CASE Len(line) = 1
    <2>1. line[1] \in ToSet(line)
      BY <1>2, <1>3
    <2>2. StageFits(line[1], v)
      BY <2>1 DEF StageFits, IsLine
    <2>3. Errand(Redirected(line[1]), v, "scope")
      BY <2>2, RedirectedIs
    <2>4. Errand(Redirected(line[1]), v, v.at)
      BY <2>3 DEF Errand
    <2>5. Started(line) = Begin(Redirected(line[1]))
      BY <1>3 DEF Started
    <2>6. QED
      BY <2>4, <2>5, BeginIs
  <1>4. CASE Len(line) # 1
    <2> DEFINE g == [at |-> "pipe", line |-> line, i |-> 0, made |-> <<>>, halted |-> FALSE]
    <2>1. Started(line) = One(g)
      BY <1>4 DEF Started, One
    <2>2. /\ g = [at |-> "pipe", line |-> g.line, i |-> g.i, made |-> g.made, halted |-> g.halted]
          /\ g.at = "pipe" /\ g.line = line /\ g.i = 0 /\ g.made = <<>> /\ g.halted = FALSE
      OBVIOUS
    <2> HIDE DEF g
    <2>3. ToSet(<<>>) = {}
      BY DEF ToSet
    <2> DEFINE n == Len(line)
    <2>5. n \in Nat /\ n # 0 /\ n # 1
      BY <1>2, <1>4
    <2> HIDE DEF n
    <2>6. n > 1 /\ 0 \in 0 .. n
      BY <2>5
    <2>4. Len(line) > 1 /\ 0 \in 0 .. Len(line)
      BY <2>6 DEF n
    <2>7. PipeFits(g, v)
      BY <2>2, <2>3, <2>4, NoneIsList DEF PipeFits, IsPipe, AllWithin
    <2>8. QED
      BY <2>1, <2>2, <2>7 DEF Fits, Bears, Fresh
  <1>5. QED
    BY <1>3, <1>4

-----------------------------------------------------------------------------
(* Lines and pipelines.                                                      *)

LEMMA AlikeAgain ==
  ASSUME NEW p, Matches(p), NEW w, Alike(w, p), latched' = FALSE,
         ended' \in BOOLEAN, NoneHidden => ~ended',
         w.names = names', w.batch = batch', leaving' = leaving,
         UNCHANGED <<jft, files, cwd, buf>>
  PROVE  Matches(w)'
  <1>1. Flagged(w)'
    <2>1. leaving \in BOOLEAN /\ (leaving => "slash" \in p.under)
      BY DEF Matches, Flagged
    <2>2. latched' \in BOOLEAN /\ ~latched' /\ w.ready # "unfed"
      BY DEF Alike
    <2>3. QED
      BY <2>1, <2>2 DEF Flagged, Alike
  <1>2. Cancelled(w)'
    BY DEF Cancelled
  <1>3. Reads(w)'
    BY DEF Reads, Matches, Alike
  <1>4. Stored(w)'
    BY DEF Stored, Matches, Alike, Here
  <1>5. QED
    BY <1>1, <1>2, <1>3, <1>4 DEF Matches

LEMMA CommandsWithin == \A d \in Commands : Within(d, Commands)
  BY ShellAssumption DEF Within

LEMMA PromptStep == Inv /\ Prompt => Inv'
  <1>1. SUFFICES ASSUME Inv, Prompt PROVE Inv'
    OBVIOUS
  <1>2. stack = <<>>
    BY <1>1 DEF Prompt
  <1>3. Matches(Base) /\ Holds(<<>>, Base)
    BY <1>1, <1>2, NothingHolds DEF Inv
  <1>4. PICK line \in Typed : stack' = Started(line)
    BY <1>1 DEF Prompt
  <1>5. IsLine(line)
    BY ShellAssumption
  <1>6. /\ Base.batches = {} /\ Base.under = {} /\ Base.ready = "waits" /\ Base.at = "prompt"
    BY DEF Base
  <1>7. \A s \in ToSet(line) : Allowed(s.do, Base)
    BY <1>5, <1>6, CommandsWithin DEF IsLine, Allowed
  <1>8. PipesStay /\ Len(line) > 1 => AllWithin(line, Steady(InPipes))
    <2>1. line \in AnyLine
      BY DEF AnyLine
    <2>2. QED
      BY <2>1, SafeIs DEF SafeIn
  <1>9. PICK g : Started(line) = One(g) /\ Fits(g, Base) /\ Fresh(g)
    BY <1>5, <1>6, <1>7, <1>8, StartedIs
  <1>10. stack' = Put(<<>>, g)
    <2>1. <<>> \o <<g>> = Put(<<>>, g)
      BY NoneIsList, PutAgain
    <2>2. Joined(<<>>, One(g)) = One(g)
      BY NoneIsList, OneIs, JoinedList
    <2>3. QED
      BY <1>4, <1>9, <2>1, <2>2 DEF Joined, One
  <1>11. PICK w : Holds(Put(<<>>, g), w) /\ Newly(w, Base)
    BY <1>3, <1>9, FreshOn
  <1>12. Alike(w, Base) /\ w.names = Base.names /\ w.batch = Base.batch
    BY <1>6, <1>11 DEF Newly, Alike
  <1>13. Base.names = names /\ Base.batch = batch
    BY <1>3 DEF Matches
  <1>14. Matches(w)'
    BY <1>1, <1>3, <1>12, <1>13, AlikeAgain DEF Prompt
  <1>15. QED
    BY <1>10, <1>11, <1>14 DEF Inv

LEMMA NextLineStep == Inv /\ NextLine => Inv'
  <1>1. SUFFICES ASSUME Inv, NextLine PROVE Inv'
    OBVIOUS
  <1>2. stack # <<>> /\ Top.at = "batch" /\ ~Top.cancelled
    BY <1>1 DEF NextLine, Runs, At
  <1>3. PICK p, v : /\ Holds(stack, p) /\ Matches(p) /\ On(p, v)
                    /\ Holds(Below, v) /\ Fits(Top, v) /\ v.ready = "waits"
    BY <1>1, <1>2, WaitingIs DEF Readiness
  <1>4. /\ IsList(stack) /\ IsList(Below) /\ Len(stack) = Len(Below) + 1
        /\ Len(Below) \in Nat /\ stack[Len(stack)] = Top
    BY <1>2, <1>3, StackIs DEF Holds
  <1>5. /\ BatchFits(Top, v) /\ p.batches = v.batches \cup {Len(stack)} /\ p.text = Top.file
        /\ p.under = v.under \cup Kinds(Top, v) /\ p.batch = Len(stack) /\ p.at = "batch"
        /\ p.ready = "waits"
    BY <1>2, <1>3, BatchOn, OnIs DEF On, Above, BatchAt, Readiness
  <1>6. NoneHidden => ~ended
    BY <1>2, <1>3, <1>4, <1>5 DEF Matches, Cancelled
  <1>7. latched' = FALSE
    BY <1>1 DEF NextLine
  <1> DEFINE g == [Top EXCEPT !.pos = After(Top)]
             line == Texts[buf][Top.pos]
  <1>8. Resembles(g, Top)
    BY <1>2 DEF Resembles
  <1>9. Holds(Put(Below, g), p)
    <2>1. Above(Top, Len(stack), v, p)
      BY <1>3 DEF On
    <2>2. Fits(g, v) /\ Above(g, Len(stack), v, p)
      BY <1>3, <1>8, <2>1, ResemblesIs
    <2> HIDE DEF g
    <2>3. QED
      BY <1>3, <1>4, <2>2, PushIs
  <1>10. IF Top.pos \in DOMAIN Texts[buf] THEN Pushes(g, Started(line)) ELSE Pushes(g, <<>>)
    BY <1>1 DEF NextLine
  <1> HIDE DEF g
  <1>11. ASSUME NEW w, Alike(w, p), w.names = p.names, w.batch = p.batch PROVE Matches(w)'
    BY <1>1, <1>3, <1>6, <1>7, <1>11, AlikeAgain DEF NextLine, Matches, Flagged
  <1>12. CASE Pushes(g, <<>>)
    <2>1. stack' = Put(Below, g)
      BY <1>4, <1>12, PushesOne
    <2>2. Alike(p, p)
      BY <1>5 DEF Alike
    <2>3. Matches(p)'
      BY <1>11, <2>2
    <2>4. QED
      BY <1>9, <2>1, <2>3 DEF Inv
  <1>13. CASE Top.pos \in DOMAIN Texts[buf] /\ Pushes(g, Started(line))
    <2>1. buf \in DOMAIN Texts
      BY <1>3, <1>5 DEF Matches, Reads
    <2>2. line \in ToSet(Texts[buf])
      BY <1>13 DEF ToSet
    <2>3. IsLine(line)
      BY <2>1, <2>2, ShellAssumption
    <2>4. line \in AnyLine
      BY <2>1, <2>2 DEF AnyLine
    <2> HIDE DEF line
    <2>5. PipesStay /\ Len(line) > 1 => AllWithin(line, Steady(InPipes))
      BY <2>4, SafeIs DEF SafeIn
    <2>6. PipesStay /\ "pipe" \in p.under => AllWithin(line, Steady(InPipes))
      <3>1. ASSUME "pipe" \in p.under PROVE "inside" \in p.under
        <4>1. "pipe" \in v.under
          BY <1>2, <1>5, <3>1 DEF Kinds
        <4>2. QED
          BY <1>2, <1>5, <4>1 DEF Kinds
      <3>2. PipesStay /\ "pipe" \in p.under => buf \in InPipes
        BY <1>3, <3>1 DEF Matches, Reads
      <3>3. QED
        BY <2>2, <3>2, SafeIs DEF SafeIn
    <2>7. BatchesCall => AllWithin(line, ByCall)
      BY <2>1, <2>2 DEF BatchesCall
    <2>8. NoneHidden => AllWithin(line, Showing)
      BY <2>1, <2>2 DEF NoneHidden
    <2>9. p.batch # 0
      BY <1>4, <1>5
    <2>10. ASSUME NEW s \in ToSet(line) PROVE Allowed(s.do, p)
      <3>1. Within(s.do, Commands)
        BY <2>3, CommandsWithin DEF IsLine
      <3>2. QED
        BY <2>6, <2>7, <2>8, <2>9, <3>1 DEF Allowed, AllWithin
    <2>11. PICK h : Started(line) = One(h) /\ Fits(h, p) /\ Fresh(h)
      BY <1>5, <2>3, <2>5, <2>10, StartedIs
    <2>12. Pushes(g, <<h>>)
      BY <1>13, <2>11 DEF One
    <2>13. stack' = Put(Put(Below, g), h)
      BY <1>4, <2>12, PushesTwo
    <2>14. PICK w : Holds(Put(Put(Below, g), h), w) /\ Newly(w, p)
      BY <1>9, <2>11, FreshOn
    <2>15. Alike(w, p) /\ w.names = p.names /\ w.batch = p.batch
      BY <1>5, <2>14 DEF Newly, Alike
    <2>16. Matches(w)'
      BY <1>11, <2>15
    <2>17. QED
      BY <2>13, <2>14, <2>16 DEF Inv
  <1>14. QED
    BY <1>10, <1>12, <1>13

Also(made, s) == made \cup ToSet(s)

LEMMA PipeUpon ==
  ASSUME NEW b, NEW g, NEW v, NEW u, Upon(b, g, v, u), g.at = "pipe"
  PROVE  u.made = Also(v.made, g.made)
  BY DEF Upon, Above, AllMade, Also

LEMMA PipeOn ==
  ASSUME NEW p, NEW v, On(p, v), Top.at = "pipe"
  PROVE  p.made = Also(v.made, Top.made) /\ PipeFits(Top, v)
  <1>1. PipeFits(Top, v)
    BY KindIs DEF On, Fits
  <1>2. QED
    BY <1>1 DEF On, Above, AllMade, Also

LEMMA LastIs ==
  ASSUME NEW s, IsList(s), s # <<>>
  PROVE  Last(s) \in ToSet(s)
  <1>1. Len(s) \in Nat /\ Len(s) # 0 /\ \A i \in 1 .. Len(s) : s[i] \in ToSet(s)
    BY ListIs
  <1>2. Len(s) \in 1 .. Len(s)
    BY <1>1
  <1>3. QED
    BY <1>1, <1>2 DEF Last

LEMMA NextStageStep == Inv /\ NextStage => Inv'
  <1>1. SUFFICES ASSUME Inv, NextStage PROVE Inv'
    OBVIOUS
  <1>2. stack # <<>> /\ Top.at = "pipe" /\ ~Stopped(Top) /\ Top.i < Len(Top.line)
    BY <1>1 DEF NextStage, At
  <1>3. PICK p : Holds(stack, p) /\ Matches(p)
    BY <1>1 DEF Inv
  <1>4. IsList(stack) /\ IsList(Below)
    BY <1>2, <1>3, TopIs
  <1>5. PICK v : On(p, v)
    BY <1>2, <1>3, TopIs
  <1>6. Holds(Below, v) /\ Fits(Top, v) /\ v.ready = "waits"
    BY <1>2, <1>5, RestsOn DEF On
  <1>7. /\ p.jft = v.jft /\ p.names = v.names /\ p.batch = v.batch /\ p.item = v.item
        /\ p.batches = v.batches /\ p.text = v.text /\ p.at = "pipe" /\ p.ready = Readiness(Top)
        /\ \A y : y \in p.under <=> y \in v.under \/ y = "pipe"
    BY <1>2, <1>5, OnIs
  <1>8. p.made = Also(v.made, Top.made) /\ PipeFits(Top, v)
    BY <1>2, <1>5, PipeOn
  <1>9. /\ IsPipe(Top) /\ IsLine(Top.line) /\ Len(Top.line) > 1 /\ Top.i \in 0 .. Len(Top.line)
        /\ IsList(Top.made) /\ (Top.i = 0 => Top.made = <<>>)
    BY <1>8 DEF PipeFits
  <1>10. ~Top.halted /\ (Top.i > 0 => ~latched)
    BY <1>2 DEF Stopped
  <1> DEFINE g == [Top EXCEPT !.i = @ + 1]
             i == Top.i + 1
             n == Len(Top.line)
  <1>11. n \in Nat /\ Top.i \in Nat /\ i \in 1 .. n /\ i \in 0 .. n /\ i # 0 /\ (i = 1 <=> Top.i = 0)
         /\ (i = n => i # 1) /\ (Top.i > 0 <=> Top.i # 0)
    <2>1. n \in Nat
      BY <1>9, ListIs DEF IsLine, IsList
    <2> HIDE DEF n
    <2>2. n > 1 /\ Top.i \in 0 .. n /\ Top.i < n
      BY <1>2, <1>9 DEF n
    <2>3. QED
      BY <2>1, <2>2
  <1>12. Top.i = 0 => p.ready = "busy"
    BY <1>2, <1>7 DEF Readiness
  <1>13. ~latched /\ (NoneHidden => ~ended)
    <2>1. CASE Top.i = 0
      BY <1>3, <1>12, <2>1, BusyIs
    <2>2. CASE Top.i # 0
      BY <1>3, <1>10, <1>11, <2>2 DEF Matches, Cancelled
    <2>3. QED
      BY <2>1, <2>2
  <1>14. i # 1 => Top.made # <<>>
    <2>1. ASSUME Top.i # 0, Top.made = <<>> PROVE FALSE
      <3>1. p.ready = "unfed"
        BY <1>2, <1>7, <1>10, <2>1 DEF Readiness
      <3>2. QED
        BY <1>3, <3>1 DEF Matches, Flagged
    <2>2. QED
      BY <1>11, <2>1
  <1>15. /\ g = [at |-> "pipe", line |-> g.line, i |-> g.i, made |-> g.made, halted |-> g.halted]
         /\ g.at = "pipe" /\ g.line = Top.line /\ g.i = i /\ g.made = Top.made
         /\ g.halted = Top.halted
    <2>1. Top \in [at : {"pipe"}, line : {Top.line}, i : {Top.i}, made : {Top.made},
                   halted : {Top.halted}]
      BY <1>9 DEF IsPipe
    <2>2. g \in [at : {"pipe"}, line : {Top.line}, i : {i}, made : {Top.made},
                 halted : {Top.halted}]
      BY <2>1
    <2> HIDE DEF g, i
    <2>3. QED
      BY <2>2
  <1>16. Pushes(g, Begin(Piped(Top, i)))
    BY <1>1 DEF NextStage
  <1> HIDE DEF g, i, n
  <1>17. PipeFits(g, v)
    BY <1>8, <1>11, <1>15 DEF PipeFits, IsPipe, n
  <1>18. Fits(g, v)
    BY <1>6, <1>17 DEF Fits, Bears
  <1>19. PICK u : Upon(Below, g, v, u)
    BY <1>6, <1>18, PutUpon
  <1>20. /\ Holds(Put(Below, g), u)
         /\ u.jft = v.jft /\ u.names = v.names /\ u.batch = v.batch /\ u.batches = v.batches
         /\ u.text = v.text /\ u.at = "pipe" /\ u.ready = Readiness(g)
    BY <1>15, <1>19, UponIs
  <1>21. \A y : y \in u.under <=> y \in v.under \/ y = "pipe"
    BY <1>15, <1>19, UnderUpon
  <1>22. u.made = p.made
    BY <1>8, <1>15, <1>19, PipeUpon
  <1>23. u.ready = IF Top.made = <<>> THEN "unfed" ELSE "waits"
    BY <1>10, <1>11, <1>15, <1>20 DEF Readiness
  <1> DEFINE stage == Top.line[i]
  <1>24. StageFits(stage, u)
    <2>1. stage \in ToSet(Top.line)
      BY <1>9, <1>11, ListIs DEF IsLine, IsList, n
    <2>2. Allowed(stage.do, v) /\ (PipesStay => Within(stage.do, Steady(InPipes)))
      BY <1>8, <2>1 DEF PipeFits
    <2>3. Allowed(stage.do, u)
      BY <1>20, <2>2 DEF Allowed
    <2>4. QED
      BY <1>9, <2>1, <2>3 DEF StageFits, IsLine
  <1>25. i # 1 => NameFits("feed", Last(Top.made), u)
    <2>1. ASSUME i # 1 PROVE Last(Top.made) \in u.made
      <3>1. Last(Top.made) \in ToSet(Top.made)
        BY <1>9, <1>14, <2>1, LastIs
      <3>2. QED
        BY <1>8, <1>22, <3>1 DEF Also
    <2>2. QED
      BY <2>1 DEF NameFits
  <1> DEFINE w == Piped(Top, i)
  <1>26. /\ Errand(w, u, u.at)
         /\ i # n => Len(w) > 1 /\ w[1].kind = "pipe"
    BY <1>20, <1>24, <1>25, PipedIs DEF n
  <1> HIDE DEF w
  <1>27. u.ready = "waits" \/ (u.ready = "unfed" /\ Len(w) > 1 /\ w[1].kind = "pipe")
    BY <1>11, <1>14, <1>23, <1>26
  <1>28. PICK h : Begin(w) = One(h) /\ Fits(h, u) /\ Fresh(h)
    BY <1>26, <1>27, BeginIs
  <1>29. PICK l : Holds(Put(Put(Below, g), h), l) /\ Newly(l, u)
    BY <1>20, <1>28, FreshOn
  <1>30. stack' = Put(Put(Below, g), h)
    <2>1. Pushes(g, <<h>>)
      BY <1>16, <1>28 DEF w, One
    <2>2. QED
      BY <1>4, <2>1, PushesTwo
  <1>31. Alike(l, p) /\ l.names = p.names /\ l.batch = p.batch
    BY <1>7, <1>20, <1>21, <1>22, <1>29 DEF Newly, Alike
  <1>32. Matches(l)'
    <2>1. latched' = FALSE /\ ended' \in BOOLEAN
      BY <1>1, <1>3, <1>13 DEF NextStage, Matches, Flagged
    <2>2. QED
      BY <1>1, <1>3, <1>13, <1>31, <2>1, AlikeAgain DEF NextStage, Matches
  <1>33. QED
    BY <1>29, <1>30, <1>32 DEF Inv

LEMMA EndPipeStep == ~StrayBreaks /\ Inv /\ EndPipe => Inv'
  <1>1. SUFFICES ASSUME ~StrayBreaks, Inv, EndPipe PROVE Inv'
    OBVIOUS
  <1>2. stack # <<>> /\ Top.at = "pipe" /\ (Stopped(Top) \/ Top.i > 0)
    BY <1>1 DEF EndPipe, At
  <1>3. PICK p : Holds(stack, p) /\ Matches(p)
    BY <1>1 DEF Inv
  <1>4. IsList(stack) /\ IsList(Below)
    BY <1>2, <1>3, TopIs
  <1>5. PICK v : On(p, v)
    BY <1>2, <1>3, TopIs
  <1>6. Holds(Below, v) /\ v.ready = "waits"
    BY <1>2, <1>5, RestsOn DEF On
  <1>7. /\ p.jft = v.jft /\ p.names = v.names /\ p.batch = v.batch
        /\ p.batches = v.batches /\ p.text = v.text /\ p.at = "pipe"
        /\ \A y : y \in p.under <=> y \in v.under \/ y = "pipe"
    BY <1>2, <1>5, OnIs
  <1>8. p.made = Also(v.made, Top.made) /\ PipeFits(Top, v)
    BY <1>2, <1>5, PipeOn
  <1>9. /\ files' = files \ Deletes(Top) /\ latched' = (latched \/ FALSE)
        /\ stack' = Below
    <2>1. ~Strikes
      BY <1>1 DEF Strikes
    <2>2. \E missed \in {{}} : /\ files' = files \ (Deletes(Top) \ missed)
                               /\ latched' = (latched \/ missed # {})
      BY <1>1, <2>1 DEF EndPipe
    <2>3. QED
      BY <1>1, <2>2 DEF EndPipe
  <1>10. latched' = latched
    BY <1>3, <1>9 DEF Matches, Flagged
  <1>11. Cancelled(v)'
    BY <1>1, <1>2, <1>3, <1>5, <1>9, <1>10, CancelledBelow DEF EndPipe, Matches, Cancelled
  <1>12. Flagged(v)'
    BY <1>1, <1>3, <1>6, <1>7, <1>10 DEF EndPipe, Matches, Flagged
  <1>13. Reads(v)' /\ v.names = names' /\ v.batch = batch'
    BY <1>1, <1>3, <1>7 DEF EndPipe, Matches, Reads
  <1>14. Stored(v)'
    <2>1. SUFFICES ASSUME PipesStay
                   PROVE  /\ jft' = v.jft /\ IsFiniteSet(files')
                          /\ Temps(files') = Temps(UserFiles) \cup v.made
                          /\ \A t \in v.made : t = Here(t)'
      BY DEF Stored
    <2>2. /\ jft = p.jft /\ IsFiniteSet(files)
          /\ Temps(files) = Temps(UserFiles) \cup p.made
          /\ \A t \in p.made : t = Here(t)
      BY <1>3, <2>1 DEF Matches, Stored
    <2>3. v.made \subseteq p.made /\ ToSet(Top.made) \subseteq p.made
      BY <1>8 DEF Also
    <2>4. \A t \in ToSet(Top.made) : IsTemp(t) /\ t \notin v.made /\ t \notin UserFiles
      BY <1>8, <2>1 DEF PipeFits
    <2>5. Deletes(Top) = ToSet(Top.made)
      <3>1. IsList(Top.made)
        BY <1>8 DEF PipeFits
      <3>2. \A k \in DOMAIN Top.made : Top.made[k] \in ToSet(Top.made)
        BY DEF ToSet
      <3>3. \A k \in DOMAIN Top.made : Here(Top.made[k]) = Top.made[k]
        BY <2>2, <2>3, <3>2
      <3>4. QED
        BY <3>3 DEF Deletes, ToSet
    <2>6. Temps(files') = Temps(UserFiles) \cup v.made
      <3>1. files' = files \ ToSet(Top.made)
        BY <1>9, <2>5
      <3>2. p.made = v.made \cup ToSet(Top.made)
        BY <1>8 DEF Also
      <3>3. Temps(files') = Temps(files) \ ToSet(Top.made)
        BY <3>1 DEF Temps
      <3>4. Temps(UserFiles) \cap ToSet(Top.made) = {}
        BY <2>4 DEF Temps
      <3>5. QED
        BY <2>2, <2>4, <3>2, <3>3, <3>4
    <2>7. IsFiniteSet(files')
      <3>1. files' \in SUBSET files
        BY <1>9
      <3>2. QED
        BY <2>2, <3>1, FS_Subset
    <2>8. QED
      BY <1>1, <1>7, <2>2, <2>3, <2>6, <2>7 DEF EndPipe, Here
  <1>15. QED
    BY <1>6, <1>9, <1>11, <1>12, <1>13, <1>14 DEF Inv, Matches

-----------------------------------------------------------------------------
(* Names of pipes' files.                                                    *)

LEMMA TempIs ==
  ASSUME NEW d, NEW i, NEW k
  PROVE  /\ IsTemp(Temp(d, i, k)) /\ Temp(d, i, k) # Closed
         /\ Temp(d, i, k)[3] = i /\ Temp(d, i, k)[4] = k
  <1>1. Temp(d, i, k)[1] = "temp" /\ Temp(d, i, k)[3] = i /\ Temp(d, i, k)[4] = k
    BY DEF Temp
  <1>2. Temp(d, i, k) # Closed
    BY DEF Temp, Closed
  <1>3. QED
    BY <1>1, <1>2 DEF IsTemp

(* There always is a name that no file has.                                  *)
LEMMA NewTempIs ==
  ASSUME IsFiniteSet(files), NEW i
  PROVE  NewTemp(i) \notin files /\ NewTemp(i) = Here(NewTemp(i)) /\ IsTemp(NewTemp(i))
         /\ NewTemp(i) # Closed
  <1> DEFINE n == Cardinality(files)
             K == {k \in 0 .. n : Temp(cwd, i, k) \notin files}
  <1>1. n \in Nat
    BY FS_CardinalityType
  <1>2. K # {}
    <2>1. SUFFICES ASSUME K = {} PROVE FALSE
      OBVIOUS
    <2> DEFINE f == [k \in 0 .. n |-> Temp(cwd, i, k)]
    <2> HIDE DEF n
    <2>2. f \in [0 .. n -> files]
      BY <2>1
    <2>3. IsFiniteSet(0 .. n) /\ Cardinality(0 .. n) = n + 1
      <3>1. 0 \in Int /\ n \in Int /\ ~(0 > n) /\ n - 0 + 1 = n + 1
        BY <1>1
      <3>2. QED
        BY <3>1, FS_Interval
    <2>4. Cardinality(files) < Cardinality(0 .. n)
      BY <1>1, <2>3 DEF n
    <2> HIDE DEF f
    <2>5. PICK x \in 0 .. n, y \in 0 .. n : x # y /\ f[x] = f[y]
      BY <2>2, <2>3, <2>4, FS_PigeonHole
    <2>6. Temp(cwd, i, x) = Temp(cwd, i, y)
      BY <2>5 DEF f
    <2>7. Temp(cwd, i, x)[4] = x /\ Temp(cwd, i, y)[4] = y
      BY TempIs
    <2>8. QED
      BY <2>5, <2>6, <2>7
  <1>3. K \in SUBSET Nat
    BY <1>1
  <1>4. Min(K) \in K
    BY <1>2, <1>3, MinIs
  <1> DEFINE k == Min(K)
  <1>5. NewTemp(i) = Temp(cwd, i, k)
    BY DEF NewTemp
  <1>6. Temp(cwd, i, k) \notin files
    BY <1>4
  <1> HIDE DEF k
  <1>7. QED
    BY <1>5, <1>6, TempIs DEF Here

-----------------------------------------------------------------------------
(* What the calls answer, unless a ^C takes them.                            *)

LEMMA FreeIs ==
  ASSUME Free # {}
  PROVE  Min(Free) \in Handles /\ jft[Min(Free)] = Closed
  <1>1. Free \in SUBSET Nat
    BY ShellAssumption DEF Free, Handles
  <1>2. Min(Free) \in Free
    BY <1>1, MinIs
  <1>3. QED
    BY <1>2 DEF Free

LEMMA AnswerIs ==
  ASSUME ~StrayBreaks, NEW S, NEW T, NEW a \in Answers(S, T), Latch(a), latched = FALSE
  PROVE  a.ok = TRUE /\ a.h \in S /\ latched' = FALSE
  <1>1. a \in {[ok |-> TRUE, h |-> h] : h \in S}
    BY DEF Answers, Strikes
  <1>2. a.ok = TRUE /\ a.h \in S
    BY <1>1
  <1>3. QED
    BY <1>2 DEF Latch

-----------------------------------------------------------------------------
(* A pipeline below, changed by the scope on it.                             *)

Altered(b, g) == [b EXCEPT ![Len(b)] = g]

LEMMA AlteredIs ==
  ASSUME NEW c, IsList(c), NEW f, NEW g
  PROVE  Altered(Put(c, f), g) = Put(c, g)
  <1> DEFINE b == Put(c, f)
             d == Put(c, g)
             n == Len(c)
             S == ToSet(b) \cup ToSet(d)
  <1>1. /\ IsList(b) /\ Len(b) = n + 1 /\ \A i \in 1 .. n : b[i] = c[i]
        /\ IsList(d) /\ Len(d) = n + 1 /\ \A i \in 1 .. n : d[i] = c[i]
        /\ d[n + 1] = g
    BY PutIs
  <1>2. n \in Nat /\ DOMAIN b = 1 .. n + 1 /\ DOMAIN d = 1 .. n + 1
    BY <1>1, ListIs
  <1> HIDE DEF b, d, n
  <1>3. b = [i \in 1 .. n + 1 |-> b[i]] /\ d = [i \in 1 .. n + 1 |-> d[i]]
    BY <1>1, <1>2 DEF IsList
  <1>4. [b EXCEPT ![n + 1] = g] = [i \in 1 .. n + 1 |-> IF i = n + 1 THEN g ELSE b[i]]
    BY <1>2, <1>3
  <1>5. \A i \in 1 .. n + 1 : d[i] = IF i = n + 1 THEN g ELSE b[i]
    BY <1>1, <1>2
  <1>6. Altered(b, g) = d
    BY <1>1, <1>3, <1>4, <1>5 DEF Altered
  <1>7. QED
    BY <1>6 DEF b, d

(* The level v with nothing else to be seen to have changed.                 *)
Resting(u, v) ==
  /\ u.jft = v.jft /\ u.names = v.names /\ u.batch = v.batch /\ u.batches = v.batches
  /\ u.text = v.text /\ u.at = v.at /\ u.ready = "waits"
  /\ \A x : x \in u.under <=> x \in v.under

(* The pipeline on top, and the level it is on.                              *)
LEMMA PipeTop ==
  ASSUME NEW b, NEW v, Holds(b, v), v.at = "pipe", v.ready \in {"waits", "unfed"}
  PROVE  \E c, f, w : /\ b = Put(c, f) /\ Last(b) = f /\ IsList(c) /\ Holds(c, w)
                      /\ PipeFits(f, w) /\ f.i # 0 /\ w.ready = "waits"
                      /\ Above(f, Len(c) + 1, w, v)
  <1>1. b # <<>>
    BY NothingHolds DEF Base
  <1>2. IsList(b)
    BY DEF Holds
  <1> DEFINE c == Front(b)
             f == Last(b)
  <1>3. IsList(c) /\ b = Put(c, f)
    BY <1>1, <1>2, PeelIs
  <1> HIDE DEF c, f
  <1>4. PICK w : Holds(c, w) /\ Fits(f, w) /\ Above(f, Len(c) + 1, w, v)
    BY <1>3, PopIs
  <1>5. f.at = "pipe" /\ v.ready = Readiness(f)
    BY <1>4 DEF Above
  <1>6. f.i # 0
    BY <1>5 DEF Readiness
  <1>7. PipeFits(f, w) /\ w.ready = "waits"
    BY <1>4, <1>5, KindIs, RestsOn DEF Fits
  <1>8. QED
    BY <1>3, <1>4, <1>6, <1>7 DEF f

LEMMA PipeAgain ==
  ASSUME NEW c, NEW w, Holds(c, w), w.ready = "waits", NEW f, NEW v, Above(f, Len(c) + 1, w, v),
         f.at = "pipe", NEW g, PipeFits(g, w), Readiness(g) = "waits"
  PROVE  \E u : /\ Holds(Altered(Put(c, f), g), u) /\ Resting(u, v)
                /\ u.made = Also(w.made, g.made)
  <1>1. g.at = "pipe" /\ Fits(g, w)
    BY KindIs DEF Fits, Bears
  <1>2. PICK u : Upon(c, g, w, u)
    BY <1>1, PutUpon
  <1>3. IsList(c)
    BY DEF Holds
  <1>4. Holds(Altered(Put(c, f), g), u)
    BY <1>2, <1>3, AlteredIs DEF Upon
  <1>5. u.made = Also(w.made, g.made)
    BY <1>1, <1>2, PipeUpon
  <1>6. Resting(u, v)
    <2>1. /\ u.jft = w.jft /\ u.names = w.names /\ u.batch = w.batch /\ u.batches = w.batches
          /\ u.text = w.text /\ u.at = "pipe" /\ u.ready = "waits"
      BY <1>1, <1>2, UponIs
    <2>2. \A x : x \in u.under <=> x \in w.under \/ x = "pipe"
      BY <1>1, <1>2, UnderUpon
    <2> DEFINE i == Len(c) + 1
    <2>3. Above(f, i, w, v)
      OBVIOUS
    <2> HIDE DEF i
    <2>4. /\ v.jft = w.jft /\ v.names = w.names /\ v.batch = w.batch /\ v.batches = w.batches
          /\ v.text = w.text /\ v.at = "pipe" /\ v.under = w.under \cup {"pipe"}
      BY <2>3 DEF Above, Rewired, AllNames, BatchAt, BatchesAt, TextAt, Kinds
    <2>5. QED
      BY <2>1, <2>2, <2>4 DEF Resting
  <1>7. QED
    BY <1>4, <1>5, <1>6

Halt(b) == [b EXCEPT ![Len(b)].halted = TRUE]

LEMMA HaltIs ==
  ASSUME NEW b, NEW v, Holds(b, v), v.at = "pipe", v.ready \in {"waits", "unfed"}
  PROVE  \E u : Holds(Halt(b), u) /\ Resting(u, v) /\ u.made = v.made
  <1>1. PICK c, f, w : /\ b = Put(c, f) /\ IsList(c) /\ Holds(c, w)
                       /\ PipeFits(f, w) /\ f.i # 0 /\ w.ready = "waits"
                       /\ Above(f, Len(c) + 1, w, v)
    BY PipeTop
  <1> DEFINE g == [f EXCEPT !.halted = TRUE]
  <1>2. f.at = "pipe" /\ IsPipe(f)
    BY <1>1, KindIs DEF PipeFits
  <1>3. b[Len(b)] = f
    BY <1>1, PutIs
  <1>4. Halt(b) = Altered(b, g)
    BY <1>3 DEF Halt, Altered
  <1>5. /\ g = [at |-> "pipe", line |-> g.line, i |-> g.i, made |-> g.made, halted |-> g.halted]
        /\ g.at = "pipe" /\ g.line = f.line /\ g.i = f.i /\ g.made = f.made /\ g.halted = TRUE
    <2>1. f \in [at : {"pipe"}, line : {f.line}, i : {f.i}, made : {f.made},
                 halted : {f.halted}]
      BY <1>2 DEF IsPipe
    <2>2. g \in [at : {"pipe"}, line : {f.line}, i : {f.i}, made : {f.made}, halted : {TRUE}]
      BY <2>1
    <2> HIDE DEF g
    <2>3. QED
      BY <2>2
  <1> HIDE DEF g
  <1>6. PipeFits(g, w) /\ Readiness(g) = "waits"
    BY <1>1, <1>5 DEF PipeFits, IsPipe, Readiness
  <1>7. PICK u : /\ Holds(Altered(Put(c, f), g), u) /\ Resting(u, v)
                 /\ u.made = Also(w.made, g.made)
    BY <1>1, <1>2, <1>6, PipeAgain
  <1>8. v.made = Also(w.made, f.made)
    BY <1>1, <1>2 DEF Above, AllMade, Also
  <1>9. QED
    BY <1>1, <1>4, <1>5, <1>7, <1>8

Feed(b, t) == [b EXCEPT ![Len(b)].made = Append(@, t)]

LEMMA FeedIs ==
  ASSUME NEW b, NEW v, Holds(b, v), v.at = "pipe", v.ready \in {"waits", "unfed"}, NEW t,
         PipesStay => IsTemp(t) /\ t # Closed /\ t \notin v.made /\ t \notin UserFiles
  PROVE  \E u : Holds(Feed(b, t), u) /\ Resting(u, v) /\ \A x : x \in u.made <=> x \in v.made \/ x = t
  <1>1. PICK c, f, w : /\ b = Put(c, f) /\ IsList(c) /\ Holds(c, w)
                       /\ PipeFits(f, w) /\ f.i # 0 /\ w.ready = "waits"
                       /\ Above(f, Len(c) + 1, w, v)
    BY PipeTop
  <1> DEFINE m == Append(f.made, t)
             g == [f EXCEPT !.made = m]
  <1>2. f.at = "pipe" /\ IsPipe(f) /\ IsList(f.made) /\ f.halted \in BOOLEAN
    BY <1>1, KindIs DEF PipeFits
  <1>3. b[Len(b)] = f
    BY <1>1, PutIs
  <1>4. Feed(b, t) = Altered(b, g)
    BY <1>3 DEF Feed, Altered
  <1>5. m = Put(f.made, t)
    BY DEF Put
  <1>6. IsList(m) /\ m # <<>> /\ \A x : x \in ToSet(m) <=> x \in ToSet(f.made) \/ x = t
    <2> DEFINE a == f.made
    <2>1. IsList(a)
      BY <1>2
    <2> HIDE DEF a
    <2> DEFINE r == Put(a, t)
    <2>2. /\ IsList(r) /\ Len(r) = Len(a) + 1 /\ r # <<>>
          /\ \A i \in 1 .. Len(a) : r[i] = a[i]
          /\ r[Len(a) + 1] = t
      BY <2>1, PutIs
    <2>3. Len(a) \in Nat /\ DOMAIN a = 1 .. Len(a)
      BY <2>1, ListIs
    <2>4. DOMAIN r = 1 .. Len(a) + 1
      BY <2>2, ListIs
    <2> HIDE DEF r
    <2>5. \A x : x \in ToSet(r) <=> x \in ToSet(a) \/ x = t
      BY <2>2, <2>3, <2>4 DEF ToSet
    <2>6. QED
      BY <1>5, <2>2, <2>5 DEF r, a
  <1> HIDE DEF m
  <1>7. /\ g = [at |-> "pipe", line |-> g.line, i |-> g.i, made |-> g.made, halted |-> g.halted]
        /\ g.at = "pipe" /\ g.line = f.line /\ g.i = f.i /\ g.made = m /\ g.halted = f.halted
    <2>1. f \in [at : {"pipe"}, line : {f.line}, i : {f.i}, made : {f.made},
                 halted : {f.halted}]
      BY <1>2 DEF IsPipe
    <2>2. g \in [at : {"pipe"}, line : {f.line}, i : {f.i}, made : {m}, halted : {f.halted}]
      BY <2>1
    <2> HIDE DEF g
    <2>3. QED
      BY <2>2
  <1> HIDE DEF g
  <1>8. v.made = Also(w.made, f.made)
    BY <1>1, <1>2 DEF Above, AllMade, Also
  <1>9. PipesStay => IsTemp(t) /\ t # Closed /\ t \notin w.made /\ t \notin UserFiles
    BY <1>8 DEF Also
  <1>10. PipeFits(g, w) /\ Readiness(g) = "waits"
    BY <1>1, <1>2, <1>6, <1>7, <1>9 DEF PipeFits, IsPipe, Readiness
  <1>11. PICK u : /\ Holds(Altered(Put(c, f), g), u) /\ Resting(u, v)
                  /\ u.made = Also(w.made, g.made)
    BY <1>1, <1>2, <1>10, PipeAgain
  <1>12. \A x : x \in u.made <=> x \in v.made \/ x = t
    BY <1>6, <1>7, <1>8, <1>11 DEF Also
  <1>13. QED
    BY <1>1, <1>4, <1>11, <1>12

-----------------------------------------------------------------------------
(* Redirection.                                                              *)

(* The scope on top, and the level it is on.                                 *)
ScopeAt(p, v) ==
  /\ Holds(stack, p) /\ Matches(p) /\ On(p, v)
  /\ Holds(Below, v) /\ ScopeFits(Top, v) /\ IsLevel(v, Len(Below))
  /\ p.jft = Rewired(Top, v.jft) /\ p.made = v.made
  /\ p.names = v.names /\ p.batch = v.batch /\ p.batches = v.batches /\ p.text = v.text
  /\ p.at = "scope" /\ \A x : x \in p.under <=> x \in v.under \/ x = "scope"
  /\ p.ready = IF Top.pc = "run" THEN "waits" ELSE "busy"
  /\ v.ready \in {"waits", "unfed"}
  /\ Top.pc # "open" \/ Top.kind # "pipe" => v.ready = "waits"

LEMMA ScopeOn ==
  ASSUME Inv, At("scope")
  PROVE  /\ stack # <<>> /\ IsList(Below) /\ \E p, v : ScopeAt(p, v)
         /\ latched \in BOOLEAN /\ ended \in BOOLEAN /\ leaving \in BOOLEAN
  <1>1. stack # <<>> /\ Top.at = "scope"
    BY DEF At
  <1>2. PICK p : Holds(stack, p) /\ Matches(p)
    BY DEF Inv
  <1>3. IsList(stack) /\ IsList(Below)
    BY <1>1, <1>2, TopIs
  <1>4. PICK v : On(p, v)
    BY <1>1, <1>2, TopIs
  <1>5. Holds(Below, v) /\ Fits(Top, v)
    BY <1>4 DEF On
  <1>6. ScopeFits(Top, v)
    BY <1>1, <1>5, KindIs DEF Fits
  <1>7. IsLevel(v, Len(Below))
    BY <1>5, HoldsIs
  <1>8. /\ p.names = v.names /\ p.made = v.made /\ p.batch = v.batch
        /\ p.batches = v.batches /\ p.text = v.text /\ p.at = "scope" /\ p.ready = Readiness(Top)
        /\ \A x : x \in p.under <=> x \in v.under \/ x = "scope"
    BY <1>1, <1>4, OnIs
  <1>9. p.jft = Rewired(Top, v.jft)
    BY <1>4 DEF On, Above
  <1>10. p.ready = IF Top.pc = "run" THEN "waits" ELSE "busy"
    BY <1>1, <1>8 DEF Readiness
  <1>11. /\ v.ready \in {"waits", "unfed"}
         /\ Top.pc # "open" \/ Top.kind # "pipe" => v.ready = "waits"
    BY <1>5, RestsOn
  <1>12. ScopeAt(p, v)
    BY <1>2, <1>4, <1>5, <1>6, <1>7, <1>8, <1>9, <1>10, <1>11 DEF ScopeAt
  <1>13. QED
    BY <1>1, <1>2, <1>3, <1>12 DEF Matches, Flagged

(* The files, for a level.                                                   *)
Disk(w) ==
  /\ IsFiniteSet(files) /\ Temps(files) = Temps(UserFiles) \cup w.made
  /\ \A t \in w.made : t = Here(t)

(* While a scope is set up, no ^C is pending.                                *)
LEMMA SettingUp ==
  ASSUME NEW p, NEW v, ScopeAt(p, v), Top.pc # "run"
  PROVE  ~latched /\ (NoneHidden => ~ended)
  BY BusyIs DEF ScopeAt

(* A level that takes the place of a scope's: the rest of the state fits it. *)
Settles(w, p) ==
  /\ w.names = p.names /\ w.batch = p.batch /\ w.batches = p.batches /\ w.text = p.text
  /\ "slash" \in p.under => "slash" \in w.under
  /\ "inside" \in w.under => "inside" \in p.under
  /\ w.ready # "unfed"

LEMMA SettlesIs ==
  ASSUME NEW p, Matches(p), p.at = "scope", NEW w, Settles(w, p), NoneHidden => ~ended,
         latched' = FALSE, ended' = ended, UNCHANGED <<batch, buf, names, leaving>>,
         PipesStay => w.jft = jft' /\ Disk(w)'
  PROVE  Matches(w)'
  <1>1. Flagged(w)'
    <2>1. leaving \in BOOLEAN /\ ended \in BOOLEAN /\ (leaving => "slash" \in p.under)
      BY DEF Matches, Flagged
    <2>2. latched' \in BOOLEAN /\ ~latched' /\ w.ready # "unfed"
      BY DEF Settles
    <2>3. QED
      BY <2>1, <2>2 DEF Flagged, Settles
  <1>2. Cancelled(w)'
    BY DEF Cancelled
  <1>3. Reads(w)'
    BY DEF Reads, Matches, Settles
  <1>4. Stored(w)'
    BY DEF Stored, Disk
  <1>5. w.names = names' /\ w.batch = batch'
    BY DEF Matches, Settles
  <1>6. QED
    BY <1>1, <1>2, <1>3, <1>4, <1>5 DEF Matches

(* A scope that could not be set up goes, and what it was around is not run. *)
LEMMA Abandoned ==
  ASSUME NEW p, NEW v, ScopeAt(p, v), Top.pc # "run", Top.kind # "feed", GivesUp(Top),
         latched' = FALSE, UNCHANGED <<files, cwd, batch, buf, names, leaving, ended>>,
         PipesStay => jft' = v.jft
  PROVE  Inv'
  <1>1. /\ Matches(p) /\ p.at = "scope" /\ Holds(Below, v) /\ ScopeFits(Top, v)
        /\ p.names = v.names /\ p.batch = v.batch /\ p.batches = v.batches /\ p.text = v.text
        /\ p.made = v.made /\ v.ready \in {"waits", "unfed"}
        /\ \A x : x \in p.under <=> x \in v.under \/ x = "scope"
        /\ Top.kind # "pipe" => v.ready = "waits"
    BY DEF ScopeAt
  <1>2. NoneHidden => ~ended
    BY SettingUp
  <1>3. PipesStay => Disk(v)'
    BY <1>1 DEF Matches, Stored, Disk, Here
  <1>4. CASE Top.kind = "pipe"
    <2>1. v.at = "pipe"
      BY <1>1, <1>4 DEF ScopeFits
    <2>2. PICK u : Holds(Halt(Below), u) /\ Resting(u, v) /\ u.made = v.made
      BY <1>1, <2>1, HaltIs
    <2>3. stack' = Halt(Below)
      BY <1>4 DEF GivesUp, Halt
    <2>4. Settles(u, p)
      BY <1>1, <2>2 DEF Settles, Resting
    <2>5. PipesStay => u.jft = jft' /\ Disk(u)'
      BY <1>3, <2>2 DEF Resting, Disk
    <2>6. Matches(u)'
      BY <1>1, <1>2, <2>4, <2>5, SettlesIs
    <2>7. QED
      BY <2>2, <2>3, <2>6 DEF Inv
  <1>5. CASE Top.kind # "pipe"
    <2>1. stack' = Below
      BY <1>5 DEF GivesUp
    <2>2. Settles(v, p)
      BY <1>1, <1>5 DEF Settles
    <2>3. Matches(v)'
      BY <1>1, <1>2, <1>3, <2>2, SettlesIs
    <2>4. QED
      BY <1>1, <2>1, <2>3 DEF Inv
  <1>6. QED
    BY <1>4, <1>5

(* The frames a scope becomes.                                               *)
Opened(s, h, name) == [s EXCEPT !.pc = "dup", !.file = h, !.name = name]
Saving(s, h)       == [s EXCEPT !.pc = "dup2", !.saved = h]
Begun(s)           == [s EXCEPT !.pc = "run"]
Unfed(s, none)     == [s EXCEPT !.pc = "run", !.file = NoHandle, !.saved = NoHandle, !.deaf = none]

Cast(g, s, pc, name, file, saved, deaf) ==
  /\ g.at = "scope" /\ IsScope(g) /\ g.kind = s.kind /\ g.h = s.h /\ g.rest = s.rest
  /\ g.pc = pc /\ g.name = name /\ g.file = file /\ g.saved = saved /\ g.deaf = deaf

LEMMA CastIs ==
  ASSUME NEW s, IsScope(s), NEW h, NEW name, NEW none
  PROVE  /\ Cast(Opened(s, h, name), s, "dup", name, h, s.saved, s.deaf)
         /\ Cast(Saving(s, h), s, "dup2", s.name, s.file, h, s.deaf)
         /\ Cast(Begun(s), s, "run", s.name, s.file, s.saved, s.deaf)
         /\ Cast(Unfed(s, none), s, "run", s.name, NoHandle, NoHandle, none)
  <1>1. s \in [at : {"scope"}, kind : {s.kind}, name : {s.name}, pc : {s.pc}, h : {s.h},
               file : {s.file}, saved : {s.saved}, deaf : {s.deaf}, rest : {s.rest}]
    BY DEF IsScope
  <1>2. Cast(Opened(s, h, name), s, "dup", name, h, s.saved, s.deaf)
    <2> DEFINE g == [s EXCEPT !.pc = "dup", !.file = h, !.name = name]
    <2>1. g \in [at : {"scope"}, kind : {s.kind}, name : {name}, pc : {"dup"}, h : {s.h},
                 file : {h}, saved : {s.saved}, deaf : {s.deaf}, rest : {s.rest}]
      BY <1>1
    <2>2. g = Opened(s, h, name)
      BY DEF Opened
    <2> HIDE DEF g
    <2>3. Cast(g, s, "dup", name, h, s.saved, s.deaf)
      BY <2>1 DEF Cast, IsScope
    <2>4. QED
      BY <2>2, <2>3
  <1>3. Cast(Saving(s, h), s, "dup2", s.name, s.file, h, s.deaf)
    <2> DEFINE g == [s EXCEPT !.pc = "dup2", !.saved = h]
    <2>1. g \in [at : {"scope"}, kind : {s.kind}, name : {s.name}, pc : {"dup2"}, h : {s.h},
                 file : {s.file}, saved : {h}, deaf : {s.deaf}, rest : {s.rest}]
      BY <1>1
    <2>2. g = Saving(s, h)
      BY DEF Saving
    <2> HIDE DEF g
    <2>3. Cast(g, s, "dup2", s.name, s.file, h, s.deaf)
      BY <2>1 DEF Cast, IsScope
    <2>4. QED
      BY <2>2, <2>3
  <1>4. Cast(Begun(s), s, "run", s.name, s.file, s.saved, s.deaf)
    <2> DEFINE g == [s EXCEPT !.pc = "run"]
    <2>1. g \in [at : {"scope"}, kind : {s.kind}, name : {s.name}, pc : {"run"}, h : {s.h},
                 file : {s.file}, saved : {s.saved}, deaf : {s.deaf}, rest : {s.rest}]
      BY <1>1
    <2>2. g = Begun(s)
      BY DEF Begun
    <2> HIDE DEF g
    <2>3. Cast(g, s, "run", s.name, s.file, s.saved, s.deaf)
      BY <2>1 DEF Cast, IsScope
    <2>4. QED
      BY <2>2, <2>3
  <1>5. Cast(Unfed(s, none), s, "run", s.name, NoHandle, NoHandle, none)
    <2> DEFINE g == [s EXCEPT !.pc = "run", !.file = NoHandle, !.saved = NoHandle, !.deaf = none]
    <2>1. g \in [at : {"scope"}, kind : {s.kind}, name : {s.name}, pc : {"run"}, h : {s.h},
                 file : {NoHandle}, saved : {NoHandle}, deaf : {none}, rest : {s.rest}]
      BY <1>1
    <2>2. g = Unfed(s, none)
      BY DEF Unfed
    <2> HIDE DEF g
    <2>3. Cast(g, s, "run", s.name, NoHandle, NoHandle, none)
      BY <2>1 DEF Cast, IsScope
    <2>4. QED
      BY <2>2, <2>3
  <1>6. QED
    BY <1>2, <1>3, <1>4, <1>5

LEMMA CastFits ==
  ASSUME NEW s, NEW v, ScopeFits(s, v), NEW pc \in {"dup", "dup2", "run"}, NEW name, NEW file,
         NEW saved, NEW deaf \in BOOLEAN, NEW g, Cast(g, s, pc, name, file, saved, deaf),
         NEW u, Errand(s.rest, u, "scope"), s.kind = "pipe" => pc = "run" \/ u.at = "pipe",
         s.kind = "feed" /\ pc # "run" /\ PipesStay => name \in u.made,
         PipesStay => Wired(g, u), u.ready = "waits"
  PROVE  ScopeFits(g, u) /\ Fits(g, u)
  <1>1. ScopeFits(g, u)
    BY DEF ScopeFits, Cast
  <1>2. QED
    BY <1>1 DEF Fits, Bears

(* The next call of the set-up.                                              *)
LEMMA ScopeGoesOn ==
  ASSUME NEW p, NEW v, ScopeAt(p, v), Top.pc # "run", NEW b, NEW u, Holds(b, u), Resting(u, v),
         NEW g, Fits(g, u), g.at = "scope", g.pc \in {"dup", "dup2"}, stack' = Put(b, g),
         latched' = FALSE, UNCHANGED <<cwd, batch, buf, names, leaving, ended>>,
         PipesStay => jft' = Rewired(g, v.jft) /\ Disk(u)'
  PROVE  Inv'
  <1>1. PICK w : Upon(b, g, u, w)
    BY PutUpon
  <1>2. /\ Holds(Put(b, g), w) /\ w.names = u.names /\ w.made = u.made /\ w.batch = u.batch
        /\ w.batches = u.batches /\ w.text = u.text /\ w.at = "scope" /\ w.ready = Readiness(g)
    BY <1>1, UponIs
  <1>3. \A x : x \in w.under <=> x \in u.under \/ x = "scope"
    BY <1>1, UnderUpon
  <1>4. w.jft = Rewired(g, v.jft)
    BY <1>1 DEF Upon, Above, Resting
  <1>5. w.ready = "busy"
    BY <1>2 DEF Readiness
  <1>6. /\ Matches(p) /\ p.at = "scope"
        /\ p.names = v.names /\ p.batch = v.batch /\ p.batches = v.batches /\ p.text = v.text
        /\ \A x : x \in p.under <=> x \in v.under \/ x = "scope"
    BY DEF ScopeAt
  <1>7. Settles(w, p)
    BY <1>2, <1>3, <1>5, <1>6 DEF Settles, Resting
  <1>8. NoneHidden => ~ended
    BY SettingUp
  <1>9. PipesStay => w.jft = jft' /\ Disk(w)'
    BY <1>2, <1>4 DEF Disk
  <1>10. Matches(w)'
    BY <1>6, <1>7, <1>8, <1>9, SettlesIs
  <1>11. QED
    BY <1>2, <1>10 DEF Inv

(* What the scope was set up for is begun.                                   *)
LEMMA ScopeRuns ==
  ASSUME NEW p, NEW v, ScopeAt(p, v), IsList(Below), Top.pc # "run", v.ready = "waits",
         NEW g, Fits(g, v), g.at = "scope", g.pc = "run", Pushes(g, Begin(Top.rest)),
         latched' = FALSE, UNCHANGED <<files, cwd, batch, buf, names, leaving, ended>>,
         PipesStay => jft' = Rewired(g, v.jft)
  PROVE  Inv'
  <1>1. /\ Matches(p) /\ p.at = "scope" /\ Holds(Below, v) /\ ScopeFits(Top, v)
        /\ p.names = v.names /\ p.batch = v.batch /\ p.batches = v.batches /\ p.text = v.text
        /\ p.made = v.made /\ \A x : x \in p.under <=> x \in v.under \/ x = "scope"
    BY DEF ScopeAt
  <1>2. PICK u : Upon(Below, g, v, u)
    BY <1>1, PutUpon
  <1>3. /\ Holds(Put(Below, g), u) /\ u.names = v.names /\ u.made = v.made /\ u.batch = v.batch
        /\ u.batches = v.batches /\ u.text = v.text /\ u.at = "scope" /\ u.ready = Readiness(g)
    BY <1>2, UponIs
  <1>4. \A x : x \in u.under <=> x \in v.under \/ x = "scope"
    BY <1>2, UnderUpon
  <1>5. u.jft = Rewired(g, v.jft)
    BY <1>2 DEF Upon, Above
  <1>6. u.ready = "waits"
    BY <1>3 DEF Readiness
  <1>7. SameUse(u, v)
    BY <1>3, <1>4 DEF SameUse
  <1>8. Errand(Top.rest, v, "scope")
    BY <1>1 DEF ScopeFits
  <1>9. Errand(Top.rest, u, u.at)
    BY <1>3, <1>7, <1>8, ErrandUp
  <1>10. PICK h : Begin(Top.rest) = One(h) /\ Fits(h, u) /\ Fresh(h)
    BY <1>6, <1>9, BeginIs
  <1>11. PICK l : Holds(Put(Put(Below, g), h), l) /\ Newly(l, u)
    BY <1>3, <1>10, FreshOn
  <1>12. stack' = Put(Put(Below, g), h)
    <2>1. Pushes(g, <<h>>)
      BY <1>10 DEF One
    <2>2. QED
      BY <2>1, PushesTwo
  <1>13. Settles(l, p)
    BY <1>1, <1>3, <1>4, <1>11 DEF Settles, Newly
  <1>14. NoneHidden => ~ended
    BY SettingUp
  <1>15. PipesStay => l.jft = jft' /\ Disk(l)'
    BY <1>1, <1>3, <1>5, <1>11 DEF Newly, Disk, Matches, Stored, Here
  <1>16. Matches(l)'
    BY <1>1, <1>13, <1>14, <1>15, SettlesIs
  <1>17. QED
    BY <1>11, <1>12, <1>16 DEF Inv

(* The feed of a stage is there until the stage has run.                     *)
LEMMA FeedIsThere ==
  ASSUME NEW v, Disk(v), ScopeFits(Top, v), Top.at = "scope", Top.pc # "run",
         Top.kind = "feed", PipesStay
  PROVE  /\ Top.name = Here(Top.name) /\ Top.name \in v.made /\ Top.name \in files
         /\ Top.name # Closed
  <1>1. Top.name \in v.made
    BY DEF ScopeFits
  <1>2. Top.name = Here(Top.name) /\ Top.name \in Temps(files)
    BY <1>1 DEF Disk
  <1>3. Top.name # Closed
    BY <1>2, TempIs DEF Here
  <1>4. QED
    BY <1>1, <1>2, <1>3 DEF Temps

(* A stage that gets no feed is run all the same.                            *)
LEMMA RunsUnfed ==
  ASSUME NEW p, NEW v, ScopeAt(p, v), IsList(Below), Top.pc # "run", Top.kind = "feed",
         GivesUp(Top), latched' = FALSE,
         UNCHANGED <<files, cwd, batch, buf, names, leaving, ended>>,
         PipesStay => jft' = v.jft /\ Here(Top.name) \in files
  PROVE  Inv'
  <1> DEFINE none == Here(Top.name) \in files
             g == Unfed(Top, none)
  <1>1. Holds(Below, v) /\ ScopeFits(Top, v) /\ v.ready = "waits"
    BY DEF ScopeAt
  <1>2. Pushes(g, Begin(Top.rest))
    BY DEF GivesUp, Unfed
  <1>3. none \in BOOLEAN /\ (PipesStay => none = TRUE)
    OBVIOUS
  <1>4. IsScope(Top) /\ Errand(Top.rest, v, "scope")
    BY <1>1 DEF ScopeFits
  <1> HIDE DEF none
  <1>5. Cast(g, Top, "run", Top.name, NoHandle, NoHandle, none)
    BY <1>4, CastIs
  <1> HIDE DEF g
  <1>6. g.at = "scope" /\ g.pc = "run" /\ g.file = NoHandle /\ g.saved = NoHandle /\ g.deaf = none
    BY <1>5 DEF Cast
  <1>7. PipesStay => Wired(g, v)
    BY <1>3, <1>6 DEF Wired
  <1>8. Fits(g, v)
    BY <1>1, <1>3, <1>4, <1>5, <1>7, CastFits
  <1>9. Rewired(g, v.jft) = v.jft
    BY <1>6 DEF Rewired
  <1>10. QED
    BY <1>1, <1>2, <1>6, <1>8, <1>9, ScopeRuns

LEMMA SameTable ==
  ASSUME NEW j, NEW k, j = [h \in Handles |-> j[h]], k = [h \in Handles |-> k[h]],
         \A h \in Handles : j[h] = k[h]
  PROVE  j = k
  OBVIOUS

(* What is opened, and the frame that has it.                                *)
LEMMA OpenStep == ~StrayBreaks /\ Inv /\ Open => Inv'
  <1>1. SUFFICES ASSUME ~StrayBreaks, Inv, Open PROVE Inv'
    OBVIOUS
  <1>2. At("scope") /\ Top.pc = "open"
    BY <1>1 DEF Open
  <1>3. /\ IsList(Below) /\ \E p, v : ScopeAt(p, v)
        /\ ended \in BOOLEAN /\ leaving \in BOOLEAN
    BY <1>1, <1>2, ScopeOn
  <1>4. PICK p, v : ScopeAt(p, v)
    BY <1>3
  <1>5. /\ Holds(Below, v) /\ ScopeFits(Top, v) /\ p.jft = Rewired(Top, v.jft) /\ p.made = v.made
        /\ Matches(p) /\ IsLevel(v, Len(Below)) /\ v.ready \in {"waits", "unfed"}
        /\ Top.kind # "pipe" => v.ready = "waits"
    BY <1>4 DEF ScopeAt
  <1>6. ~latched /\ latched \in BOOLEAN
    BY <1>2, <1>4, <1>5, SettingUp DEF Matches, Flagged
  <1>7. latched = FALSE
    BY <1>6
  <1> DEFINE obj  == IF Top.kind = "pipe" THEN NewTemp(Last(Below).i)
                     ELSE IF Top.kind = "feed" THEN Here(Top.name) ELSE Top.name
             new  == Top.kind \in {"pipe", "out"}
             can  == IF Free # {} /\ (new \/ obj \in files) THEN {Min(Free)} ELSE {}
             name == IF Top.kind = "pipe" THEN obj ELSE Top.name
             base == IF Top.kind = "pipe" THEN Feed(Below, obj) ELSE Below
  <1>8. PICK a \in Answers(can \cup {NoHandle}, {Stdin, NoHandle}) :
           /\ Latch(a)
           /\ IF a.h = NoHandle THEN GivesUp(Top) /\ UNCHANGED <<jft, files>>
              ELSE /\ jft' = IF a.ok THEN [jft EXCEPT ![a.h] = obj] ELSE jft
                   /\ files' = IF a.ok THEN files \cup {obj} ELSE files
                   /\ stack' = Append(base, Opened(Top, a.h, name))
    BY <1>1 DEF Open, Feed, Opened
  <1>9. a.ok = TRUE /\ a.h \in can \cup {NoHandle} /\ latched' = FALSE
    <2> HIDE DEF can
    <2>1. QED
      BY <1>1, <1>7, <1>8, AnswerIs
  <1>10. UNCHANGED <<cwd, batch, buf, names, leaving, ended>>
    BY <1>1 DEF Open
  <1>11. p.jft = v.jft
    BY <1>2, <1>5 DEF Rewired
  <1>12. PipesStay => jft = v.jft /\ Disk(v) /\ IsTable(v.jft)
    BY <1>5, <1>11 DEF Matches, Stored, Disk, IsLevel
  <1>13. Top.kind = "feed" /\ PipesStay =>
           obj = Top.name /\ Top.name \in v.made /\ Top.name \in files /\ Top.name # Closed
    BY <1>2, <1>5, <1>12, FeedIsThere DEF At
  <1>14. CASE a.h = NoHandle
    <2>1. GivesUp(Top) /\ UNCHANGED <<jft, files>>
      BY <1>8, <1>14
    <2>2. CASE Top.kind = "feed"
      <3>1. PipesStay => Here(Top.name) \in files
        BY <1>13, <2>2
      <3>2. QED
        BY <1>2, <1>3, <1>4, <1>9, <1>10, <1>12, <2>1, <2>2, <3>1, RunsUnfed
    <2>3. CASE Top.kind # "feed"
      BY <1>2, <1>4, <1>9, <1>10, <1>12, <2>1, <2>3, Abandoned
    <2>4. QED
      BY <2>2, <2>3
  <1>15. CASE a.h # NoHandle
    <2>1. a.h = Min(Free) /\ Free # {}
      BY <1>9, <1>15
    <2>2. a.h \in Handles /\ jft[a.h] = Closed
      BY <2>1, FreeIs
    <2>3. /\ jft' = [jft EXCEPT ![a.h] = obj] /\ files' = files \cup {obj}
          /\ stack' = Put(base, Opened(Top, a.h, name))
      BY <1>8, <1>9, <1>15 DEF Put
    <2> DEFINE g == Opened(Top, a.h, name)
    <2>4. Cast(g, Top, "dup", name, a.h, Top.saved, Top.deaf)
      <3>1. IsScope(Top)
        BY <1>5 DEF ScopeFits
      <3> HIDE DEF name
      <3>2. QED
        BY <3>1, CastIs
    <2> HIDE DEF g, can
    <2>5. /\ g.at = "scope" /\ g.pc = "dup" /\ g.name = name /\ g.file = a.h
          /\ g.saved = Top.saved /\ g.deaf = Top.deaf
      <3> HIDE DEF name
      <3>1. QED
        BY <2>4 DEF Cast
    <2>6. PipesStay /\ Top.kind = "pipe" =>
            IsTemp(obj) /\ obj # Closed /\ obj \notin files /\ obj = Here(obj)
      <3>1. PipesStay => IsFiniteSet(files)
        BY <1>12 DEF Disk
      <3> DEFINE n == Last(Below).i
      <3> HIDE DEF n
      <3>2. PipesStay => /\ NewTemp(n) \notin files /\ NewTemp(n) = Here(NewTemp(n))
                         /\ IsTemp(NewTemp(n)) /\ NewTemp(n) # Closed
        BY <3>1, NewTempIs
      <3>3. Top.kind = "pipe" => obj = NewTemp(n)
        BY DEF n
      <3>4. QED
        BY <3>2, <3>3
    <2>7. PipesStay => obj = name /\ name # Closed
      <3>1. Top.kind \in ScopeKinds /\ NameFits(Top.kind, Top.name, v)
        BY <1>2, <1>5 DEF ScopeFits
      <3>2. CASE Top.kind = "pipe"
        BY <2>6, <3>2
      <3>3. CASE Top.kind = "feed"
        BY <1>13, <3>3
      <3>4. CASE Top.kind \in {"in", "out"}
        BY <3>1, <3>4 DEF NameFits
      <3>5. QED
        BY <3>1, <3>2, <3>3, <3>4 DEF ScopeKinds
    <2>8. \E u : /\ Holds(base, u) /\ Resting(u, v)
                 /\ (PipesStay => Disk(u)') /\ v.made \subseteq u.made
      <3>1. CASE Top.kind = "pipe"
        <4>1. v.at = "pipe"
          BY <1>2, <1>5, <3>1 DEF ScopeFits
        <4>2. PipesStay => obj \notin v.made /\ obj \notin UserFiles
          BY <1>12, <2>6, <3>1 DEF Disk, Temps
        <4> HIDE DEF obj
        <4>3. PICK u : /\ Holds(Feed(Below, obj), u) /\ Resting(u, v)
                       /\ \A x : x \in u.made <=> x \in v.made \/ x = obj
          BY <1>5, <2>6, <3>1, <4>1, <4>2, FeedIs
        <4>4. ASSUME PipesStay PROVE Disk(u)'
          <5>1. IsFiniteSet(files')
            BY <1>12, <2>3, <4>4, FS_AddElement DEF Disk
          <5>2. Temps(files') = Temps(files) \cup {obj}
            BY <2>3, <2>6, <3>1, <4>4 DEF Temps
          <5>3. u.made = v.made \cup {obj}
            BY <4>3
          <5>4. Temps(files') = Temps(UserFiles) \cup u.made
            BY <1>12, <4>4, <5>2, <5>3 DEF Disk
          <5>5. \A t \in u.made : t = Here(t)'
            BY <1>10, <1>12, <2>6, <3>1, <4>4, <5>3 DEF Disk, Here
          <5>6. QED
            BY <5>1, <5>4, <5>5 DEF Disk, Temps
        <4>5. base = Feed(Below, obj)
          BY <3>1
        <4>6. QED
          BY <4>3, <4>4, <4>5
      <3>2. CASE Top.kind # "pipe"
        <4>1. Resting(v, v) /\ base = Below
          BY <1>5, <3>2 DEF Resting
        <4>2. ASSUME PipesStay PROVE Disk(v)'
          <5>1. obj \in files \/ ~IsTemp(obj)
            <6>1. Top.kind \in ScopeKinds /\ NameFits(Top.kind, Top.name, v)
              BY <1>2, <1>5 DEF ScopeFits
            <6>2. CASE Top.kind = "feed"
              BY <1>13, <4>2, <6>2
            <6>3. CASE Top.kind # "feed"
              BY <3>2, <6>1, <6>3 DEF NameFits, ScopeKinds
            <6>4. QED
              BY <6>2, <6>3
          <5> HIDE DEF obj
          <5>2. Temps(files') = Temps(files)
            BY <2>3, <5>1 DEF Temps
          <5>3. IsFiniteSet(files')
            BY <1>12, <2>3, <4>2, FS_AddElement DEF Disk
          <5>4. \A t \in v.made : t = Here(t)'
            BY <1>10, <1>12, <4>2 DEF Disk, Here
          <5>5. QED
            BY <1>12, <4>2, <5>2, <5>3, <5>4 DEF Disk, Temps
        <4>3. QED
          BY <1>5, <4>1, <4>2
      <3>3. QED
        BY <3>1, <3>2
    <2>9. PICK u : /\ Holds(base, u) /\ Resting(u, v) /\ (PipesStay => Disk(u)')
                   /\ v.made \subseteq u.made
      BY <2>8
    <2> HIDE DEF base, name
    <2>10. SameUse(u, v)
      BY <2>9 DEF SameUse, Resting
    <2>11. Errand(Top.rest, u, "scope")
      <3>1. Errand(Top.rest, v, "scope")
        BY <1>5 DEF ScopeFits
      <3>2. QED
        BY <2>10, <3>1, ErrandUp
    <2>12. Top.kind = "pipe" => u.at = "pipe"
      BY <1>2, <1>5, <2>9 DEF ScopeFits, Resting
    <2>13. PipesStay => Wired(Top, v)
      BY <1>5 DEF ScopeFits
    <2>14. PipesStay => Top.saved = NoHandle /\ Top.deaf = FALSE
      <3>1. Top.deaf \in BOOLEAN
        BY <1>5 DEF ScopeFits
      <3>2. QED
        BY <1>2, <2>13, <3>1 DEF Wired
    <2>15. PipesStay => Wired(g, u)
      BY <1>12, <2>2, <2>5, <2>7, <2>9, <2>14 DEF Wired, Resting
    <2>16. Fits(g, u)
      <3>1. Top.deaf \in BOOLEAN
        BY <1>5 DEF ScopeFits
      <3>2. u.ready = "waits"
        BY <2>9 DEF Resting
      <3>3. Top.kind = "feed" /\ PipesStay => name \in u.made
        BY <1>13, <2>7, <2>9
      <3>4. QED
        BY <1>5, <2>4, <2>11, <2>12, <2>15, <3>1, <3>2, <3>3, CastFits
    <2>17. PipesStay => jft' = Rewired(g, v.jft)
      <3>1. Rewired(g, v.jft) = [v.jft EXCEPT ![a.h] = name]
        BY <1>15, <2>5 DEF Rewired
      <3>2. QED
        BY <1>12, <2>3, <2>7, <3>1
    <2>18. stack' = Put(base, g)
      BY <2>3 DEF g
    <2>19. QED
      BY <1>2, <1>4, <1>9, <1>10, <2>5, <2>9, <2>16, <2>17, <2>18, ScopeGoesOn
  <1>16. QED
    BY <1>14, <1>15

LEMMA DupStep == ~StrayBreaks /\ Inv /\ Dup => Inv'
  <1>1. SUFFICES ASSUME ~StrayBreaks, Inv, Dup PROVE Inv'
    OBVIOUS
  <1>2. At("scope") /\ Top.pc = "dup"
    BY <1>1 DEF Dup
  <1>3. IsList(Below) /\ \E p, v : ScopeAt(p, v)
    BY <1>1, <1>2, ScopeOn
  <1>4. PICK p, v : ScopeAt(p, v)
    BY <1>3
  <1>5. /\ Holds(Below, v) /\ ScopeFits(Top, v) /\ p.jft = Rewired(Top, v.jft) /\ p.made = v.made
        /\ Matches(p) /\ IsLevel(v, Len(Below)) /\ v.ready = "waits"
    BY <1>2, <1>4 DEF ScopeAt
  <1>6. ~latched /\ latched \in BOOLEAN
    BY <1>2, <1>4, <1>5, SettingUp DEF Matches, Flagged
  <1>7. latched = FALSE
    BY <1>6
  <1> DEFINE got == IF Free = {} THEN {NoHandle} ELSE {Min(Free)}
  <1>8. PICK a \in Answers(got, {Stdin, NoHandle}) :
          /\ Latch(a)
          /\ IF a.h = NoHandle THEN jft' = Shut(jft, Top.file) /\ GivesUp(Top)
             ELSE /\ jft' = IF a.ok THEN [jft EXCEPT ![a.h] = jft[Top.h]] ELSE jft
                  /\ stack' = Put(Below, Saving(Top, a.h))
    BY <1>1 DEF Dup, Becomes, Saving, Put
  <1>9. a.ok = TRUE /\ a.h \in got /\ latched' = FALSE
    <2> HIDE DEF got
    <2>1. QED
      BY <1>1, <1>7, <1>8, AnswerIs
  <1>10. UNCHANGED <<files, cwd, batch, buf, names, leaving, ended>>
    BY <1>1 DEF Dup
  <1>11. PipesStay => /\ jft = Rewired(Top, v.jft) /\ Disk(v)
                      /\ IsTable(v.jft) /\ Wired(Top, v)
    BY <1>5 DEF Matches, Stored, Disk, IsLevel, ScopeFits
  <1> DEFINE j == v.jft
             f == Top.file
             std == Top.h
  <1>12. PipesStay => /\ IsTable(jft) /\ std \in {Stdin, Stdout} /\ std \in Handles
                      /\ f \in Handles \ {Stdin, Stdout} /\ j[f] = Closed /\ Top.name # Closed
                      /\ \A h \in Handles : jft[h] = IF h = f THEN Top.name ELSE j[h]
                      /\ Top.deaf = FALSE
    <2>1. SUFFICES ASSUME PipesStay
                   PROVE  /\ IsTable(jft) /\ std \in {Stdin, Stdout} /\ std \in Handles
                          /\ f \in Handles \ {Stdin, Stdout} /\ j[f] = Closed /\ Top.name # Closed
                          /\ \A h \in Handles : jft[h] = IF h = f THEN Top.name ELSE j[h]
                          /\ Top.deaf = FALSE
      OBVIOUS
    <2>2. /\ IsTable(jft)
          /\ Top.file # NoHandle =>
               \A h \in Handles : jft[h] =
                 IF h = Top.h /\ Top.pc = "run" THEN Top.name
                 ELSE IF h = Top.saved /\ Top.pc # "dup" THEN v.jft[Top.h]
                 ELSE IF h = Top.file THEN Top.name ELSE v.jft[h]
      BY <1>2, <1>5, <1>11, <2>1, RewiredIs
    <2>3. /\ Top.file # NoHandle /\ Top.file \in Handles \ {Stdin, Stdout}
          /\ v.jft[Top.file] = Closed /\ Top.name # Closed
          /\ Top.h \in {Stdin, Stdout} /\ Top.h \in Handles
      BY <1>2, <1>5, <1>11, <2>1, WiredIs
    <2>4. Top.deaf \in BOOLEAN /\ ~Top.deaf
      BY <1>2, <1>5, <1>11, <2>1 DEF Wired, ScopeFits
    <2>5. QED
      BY <1>2, <2>2, <2>3, <2>4
  <1> HIDE DEF j, f, std
  <1>13. CASE a.h = NoHandle
    <2>1. jft' = Shut(jft, f) /\ GivesUp(Top)
      BY <1>8, <1>13 DEF f
    <2>2. Top.kind = "feed" /\ PipesStay => Here(Top.name) \in files
      BY <1>2, <1>5, <1>11, FeedIsThere DEF At
    <2>3. PipesStay => jft' = j
      <3>1. SUFFICES ASSUME PipesStay PROVE jft' = j
        OBVIOUS
      <3>2. jft' = [jft EXCEPT ![f] = Closed]
        BY <1>12, <2>1, <3>1, HandlesAre DEF Shut
      <3>3. jft' = [h \in Handles |-> jft'[h]] /\ \A h \in Handles : jft'[h] = j[h]
        BY <1>12, <3>1, <3>2 DEF IsTable
      <3>4. j = [h \in Handles |-> j[h]]
        BY <1>11, <3>1 DEF IsTable, j
      <3>5. QED
        BY <3>3, <3>4, SameTable
    <2>4. CASE Top.kind = "feed"
      BY <1>2, <1>3, <1>4, <1>9, <1>10, <2>1, <2>2, <2>3, <2>4, RunsUnfed DEF j
    <2>5. CASE Top.kind # "feed"
      BY <1>2, <1>4, <1>9, <1>10, <2>1, <2>3, <2>5, Abandoned DEF j
    <2>6. QED
      BY <2>4, <2>5
  <1>14. CASE a.h # NoHandle
    <2> DEFINE s == a.h
               g == Saving(Top, s)
    <2>1. s = Min(Free) /\ Free # {}
      BY <1>9, <1>14
    <2>2. s \in Handles /\ jft[s] = Closed /\ s # NoHandle
      BY <1>14, <2>1, FreeIs
    <2>3. (PipesStay => jft' = [jft EXCEPT ![s] = jft[std]]) /\ stack' = Put(Below, g)
      BY <1>8, <1>9, <1>14 DEF std
    <2>4. Cast(g, Top, "dup2", Top.name, Top.file, s, Top.deaf)
      BY <1>5, CastIs DEF ScopeFits
    <2> HIDE DEF s, g
    <2>5. /\ g.at = "scope" /\ g.pc = "dup2" /\ g.name = Top.name /\ g.file = f
          /\ g.saved = s /\ g.deaf = Top.deaf /\ g.h = std
      BY <2>4 DEF Cast, f, std
    <2>6. PipesStay => s # f /\ j[s] = Closed
      BY <1>12, <2>2
    <2>7. PipesStay => Wired(g, v)
      BY <1>12, <2>2, <2>5, <2>6 DEF Wired, j
    <2>8. Fits(g, v)
      <3>1. Top.deaf \in BOOLEAN /\ Errand(Top.rest, v, "scope")
            /\ (Top.kind = "pipe" => v.at = "pipe")
            /\ (Top.kind = "feed" /\ PipesStay => Top.name \in v.made)
        BY <1>2, <1>5 DEF ScopeFits
      <3>2. QED
        BY <1>5, <2>4, <2>7, <3>1, CastFits
    <2>9. PipesStay => jft' = Rewired(g, v.jft)
      <3>1. SUFFICES ASSUME PipesStay PROVE jft' = Rewired(g, j)
        BY DEF j
      <3>2. f # NoHandle
        BY <1>12, <3>1, HandlesAre
      <3>3. Rewired(g, j) = [j EXCEPT ![f] = Top.name, ![s] = j[std]]
        BY <2>5, <3>2 DEF Rewired
      <3>4. j = [h \in Handles |-> j[h]] /\ jft = [h \in Handles |-> jft[h]]
        BY <1>11, <1>12, <3>1 DEF IsTable, j
      <3> DEFINE k == Rewired(g, j)
      <3>5. k = [h \in Handles |-> k[h]] /\
            \A h \in Handles : k[h] = IF h = s THEN j[std] ELSE IF h = f THEN Top.name ELSE j[h]
        BY <1>12, <2>2, <3>1, <3>3, <3>4
      <3>6. jft[std] = j[std]
        BY <1>12, <3>1
      <3>7. jft' = [h \in Handles |-> jft'[h]] /\ \A h \in Handles : jft'[h] = k[h]
        BY <1>12, <2>2, <2>3, <3>1, <3>4, <3>5, <3>6
      <3> HIDE DEF k
      <3>8. jft' = k
        BY <3>5, <3>7, SameTable
      <3>9. QED
        BY <3>8 DEF k
    <2>10. Resting(v, v)
      BY <1>5 DEF Resting
    <2>11. PipesStay => Disk(v)'
      BY <1>10, <1>11 DEF Disk, Here
    <2>12. QED
      BY <1>2, <1>4, <1>5, <1>9, <1>10, <2>3, <2>5, <2>8, <2>9, <2>10, <2>11, ScopeGoesOn
  <1>15. QED
    BY <1>13, <1>14

LEMMA Dup2Step == ~StrayBreaks /\ Inv /\ Dup2 => Inv'
  <1>1. SUFFICES ASSUME ~StrayBreaks, Inv, Dup2 PROVE Inv'
    OBVIOUS
  <1>2. At("scope") /\ Top.pc = "dup2"
    BY <1>1 DEF Dup2
  <1>3. IsList(Below) /\ \E p, v : ScopeAt(p, v)
    BY <1>1, <1>2, ScopeOn
  <1>4. PICK p, v : ScopeAt(p, v)
    BY <1>3
  <1>5. /\ Holds(Below, v) /\ ScopeFits(Top, v) /\ p.jft = Rewired(Top, v.jft)
        /\ Matches(p) /\ IsLevel(v, Len(Below)) /\ v.ready = "waits"
    BY <1>2, <1>4 DEF ScopeAt
  <1>6. ~latched /\ latched \in BOOLEAN
    BY <1>2, <1>4, <1>5, SettingUp DEF Matches, Flagged
  <1>7. latched = FALSE
    BY <1>6
  <1>8. Top.h \in {Stdin, Stdout} /\ Top.h # NoHandle
    BY <1>5, HandlesAre DEF ScopeFits
  <1> DEFINE got == {Top.h}
  <1>9. PICK a \in Answers(got, {Top.h, NoHandle}) :
          /\ Latch(a)
          /\ IF a.h = NoHandle THEN jft' = Shut(Shut(jft, Top.saved), Top.file) /\ GivesUp(Top)
             ELSE /\ jft' = IF a.ok THEN Dupped(jft, Top.file, Top.h) ELSE jft
                  /\ Pushes(Begun(Top), Begin(Top.rest))
    BY <1>1 DEF Dup2, Begun
  <1>10. a.ok = TRUE /\ a.h = Top.h /\ latched' = FALSE
    <2>1. \A x \in got : x = Top.h
      OBVIOUS
    <2> DEFINE T == {Top.h, NoHandle}
    <2>2. a \in Answers(got, T)
      OBVIOUS
    <2> HIDE DEF got, T
    <2>3. a.ok = TRUE /\ a.h \in got /\ latched' = FALSE
      BY <1>1, <1>7, <1>9, <2>2, AnswerIs
    <2>4. QED
      BY <2>1, <2>3
  <1>11. UNCHANGED <<files, cwd, batch, buf, names, leaving, ended>>
    BY <1>1 DEF Dup2
  <1> DEFINE g == Begun(Top)
  <1>12. jft' = Dupped(jft, Top.file, Top.h) /\ Pushes(g, Begin(Top.rest))
    BY <1>8, <1>9, <1>10
  <1>13. Cast(g, Top, "run", Top.name, Top.file, Top.saved, Top.deaf)
    BY <1>5, CastIs DEF ScopeFits
  <1> HIDE DEF g
  <1>14. /\ g.at = "scope" /\ g.pc = "run" /\ g.name = Top.name /\ g.file = Top.file
         /\ g.saved = Top.saved /\ g.deaf = Top.deaf /\ g.h = Top.h
    BY <1>13 DEF Cast
  <1>15. PipesStay => Wired(Top, v)
    BY <1>5 DEF ScopeFits
  <1>16. PipesStay => Wired(g, v)
    BY <1>2, <1>14, <1>15 DEF Wired
  <1>17. Fits(g, v)
    <2>1. Top.deaf \in BOOLEAN /\ Errand(Top.rest, v, "scope")
      BY <1>5 DEF ScopeFits
    <2>2. QED
      BY <1>5, <1>13, <1>16, <2>1, CastFits
  <1>18. PipesStay => jft' = Rewired(g, v.jft)
    <2> DEFINE j == v.jft
               f == Top.file
               s == Top.saved
               std == Top.h
    <2>1. SUFFICES ASSUME PipesStay PROVE jft' = Rewired(g, j)
      OBVIOUS
    <2>2. jft = Rewired(Top, j) /\ IsTable(j)
      BY <1>5, <2>1 DEF Matches, Stored, IsLevel
    <2>3. f # NoHandle /\ f \in Handles /\ s \in Handles /\ s # f /\ Top.name # Closed
      BY <1>2, <1>15, <2>1, HandlesAre DEF Wired
    <2>4. Rewired(Top, j) = [j EXCEPT ![f] = Top.name, ![s] = j[std]]
      BY <1>2, <1>5, <2>3 DEF Rewired, ScopeFits, IsScope
    <2>5. Rewired(g, j) = [j EXCEPT ![f] = Top.name, ![s] = j[std], ![std] = Top.name]
      BY <1>14, <2>3 DEF Rewired
    <2>6. jft' = Dupped(jft, f, std)
      BY <1>12
    <2>7. j = [h \in Handles |-> j[h]]
      BY <2>2 DEF IsTable
    <2> HIDE DEF j, f, s, std
    <2>8. jft[f] = Top.name
      BY <2>2, <2>3, <2>4, <2>7
    <2>9. jft' = [jft EXCEPT ![std] = Top.name]
      BY <2>3, <2>6, <2>8 DEF Dupped
    <2>10. QED
      BY <2>2, <2>4, <2>5, <2>9
  <1>19. QED
    BY <1>2, <1>3, <1>4, <1>5, <1>10, <1>11, <1>12, <1>14, <1>17, <1>18, ScopeRuns

LEMMA UndoStep == ~StrayBreaks /\ Inv /\ Undo => Inv'
  <1>1. SUFFICES ASSUME ~StrayBreaks, Inv, Undo PROVE Inv'
    OBVIOUS
  <1>2. At("scope") /\ Top.pc = "run" /\ stack' = Below
    BY <1>1 DEF Undo
  <1>3. stack # <<>> /\ \E p, v : ScopeAt(p, v)
    BY <1>1, <1>2, ScopeOn
  <1>4. PICK p, v : ScopeAt(p, v)
    BY <1>3
  <1>5. /\ Holds(stack, p) /\ On(p, v)
        /\ Holds(Below, v) /\ ScopeFits(Top, v) /\ p.jft = Rewired(Top, v.jft) /\ p.made = v.made
        /\ p.names = v.names /\ p.batch = v.batch /\ p.batches = v.batches /\ p.text = v.text
        /\ p.at = "scope" /\ \A x : x \in p.under <=> x \in v.under \/ x = "scope"
        /\ Matches(p) /\ IsLevel(v, Len(Below)) /\ v.ready = "waits"
    BY <1>2, <1>4 DEF ScopeAt
  <1>6. jft' = Undone(Top, 0) /\ latched' = latched
    <2>1. ~Strikes
      BY <1>1 DEF Strikes
    <2>2. jft' = Undone(Top, 0) /\ latched' = (latched \/ FALSE)
      BY <1>1, <2>1 DEF Undo
    <2>3. QED
      BY <1>5, <2>2 DEF Matches, Flagged
  <1>7. UNCHANGED <<files, cwd, batch, buf, names, leaving, ended>>
    BY <1>1 DEF Undo
  <1>8. Cancelled(v)'
    BY <1>2, <1>3, <1>5, <1>6, <1>7, CancelledBelow DEF Matches, Cancelled
  <1>9. Flagged(v)'
    BY <1>5, <1>6, <1>7 DEF Matches, Flagged
  <1>10. Reads(v)' /\ v.names = names' /\ v.batch = batch'
    BY <1>5, <1>7 DEF Matches, Reads
  <1>11. PipesStay => jft' = v.jft
    <2> DEFINE j == v.jft
               f == Top.file
               s == Top.saved
               std == Top.h
    <2>1. SUFFICES ASSUME PipesStay PROVE jft' = j
      OBVIOUS
    <2>2. jft = Rewired(Top, j) /\ IsTable(j) /\ Wired(Top, v)
      BY <1>5, <2>1 DEF Matches, Stored, IsLevel, ScopeFits
    <2>3. j = [h \in Handles |-> j[h]]
      BY <2>2 DEF IsTable
    <2>4. CASE f = NoHandle
      <3>1. s = NoHandle
        BY <1>5, <2>2, <2>4, WiredIs
      <3>2. jft = j
        BY <2>2, <2>4 DEF Rewired
      <3>3. QED
        BY <1>6, <2>4, <3>1, <3>2 DEF Undone, Shut
    <2>5. CASE f # NoHandle
      <3>1. /\ f \in Handles \ {Stdin, Stdout} /\ j[f] = Closed
            /\ s # NoHandle /\ s \in Handles \ {Stdin, Stdout} /\ j[s] = Closed /\ s # f
            /\ std \in {Stdin, Stdout} /\ std \in Handles
        BY <1>2, <1>5, <2>2, <2>5, WiredIs
      <3>2. jft = [h \in Handles |-> jft[h]] /\ j[std] # Closed
        BY <1>5, <2>2, <3>1, RewiredIs DEF IsTable
      <3>3. \A h \in Handles : jft[h] = IF h = std THEN Top.name ELSE IF h = s THEN j[std]
                                        ELSE IF h = f THEN Top.name ELSE j[h]
        BY <1>2, <1>5, <2>2, <2>5, RewiredIs
      <3>4. jft' = Shut(Shut(Dupped(jft, s, std), s), f)
        BY <1>6, <3>1 DEF Undone
      <3> HIDE DEF j, f, s, std
      <3>5. Dupped(jft, s, std) = [jft EXCEPT ![std] = j[std]]
        BY <3>1, <3>2, <3>3 DEF Dupped
      <3> DEFINE j1 == [jft EXCEPT ![std] = j[std]]
      <3>6. Shut(j1, s) = [j1 EXCEPT ![s] = Closed]
        BY <3>1 DEF Shut
      <3> DEFINE j2 == [j1 EXCEPT ![s] = Closed]
      <3>7. Shut(j2, f) = [j2 EXCEPT ![f] = Closed]
        BY <2>5, <3>1 DEF Shut, f
      <3>8. jft' = [j2 EXCEPT ![f] = Closed]
        BY <3>4, <3>5, <3>6, <3>7
      <3>9. j1 = [h \in Handles |-> IF h = std THEN j[std] ELSE jft[h]]
        BY <3>1, <3>2
      <3> HIDE DEF j1
      <3>10. j2 = [h \in Handles |-> IF h = s THEN Closed ELSE j1[h]]
        BY <3>9
      <3> HIDE DEF j2
      <3>11. jft' = [h \in Handles |-> IF h = f THEN Closed ELSE j2[h]]
        BY <3>8, <3>10
      <3>12. \A h \in Handles : jft'[h] = j[h]
        BY <3>1, <3>3, <3>9, <3>10, <3>11
      <3>13. jft' = [h \in Handles |-> jft'[h]]
        BY <3>11
      <3>14. QED
        BY <2>3, <3>12, <3>13, SameTable DEF j
    <2>6. QED
      BY <2>4, <2>5
  <1>12. Stored(v)'
    BY <1>5, <1>7, <1>11 DEF Stored, Matches, Here
  <1>13. QED
    BY <1>2, <1>5, <1>8, <1>9, <1>10, <1>12 DEF Inv, Matches
-----------------------------------------------------------------------------
(* Every step.                                                               *)

LEMMA InitInv == Init => Inv
  <1>1. SUFFICES ASSUME Init PROVE Inv
    OBVIOUS
  <1>2. Holds(stack, Base)
    BY <1>1, NothingHolds DEF Init
  <1>3. Flagged(Base) /\ Cancelled(Base) /\ Reads(Base)
    BY <1>1 DEF Init, Flagged, Cancelled, Reads, Base
  <1>4. Base.names = names /\ Base.batch = batch
    BY <1>1 DEF Init, Base
  <1>5. Stored(Base)
    BY <1>1, ShellAssumption DEF Init, Stored, Base
  <1>6. QED
    BY <1>2, <1>3, <1>4, <1>5 DEF Inv, Matches

LEMMA StayInv == Inv /\ UNCHANGED vars => Inv'
  <1>1. SUFFICES ASSUME Inv, UNCHANGED vars PROVE Inv'
    OBVIOUS
  <1>2. UNCHANGED <<jft, files, cwd, stack, batch, buf, names, latched, leaving, ended>>
    BY <1>1 DEF vars
  <1>3. PICK p : Holds(stack, p) /\ Matches(p)
    BY <1>1 DEF Inv
  <1>4. Flagged(p)' /\ Cancelled(p)' /\ Reads(p)' /\ Stored(p)'
    BY <1>2, <1>3 DEF Matches, Flagged, Cancelled, Reads, Stored, Here
  <1>5. Matches(p)'
    BY <1>2, <1>3, <1>4 DEF Matches
  <1>6. QED
    BY <1>2, <1>3, <1>5 DEF Inv

LEMMA NextInv == ~StrayBreaks /\ Inv /\ Next => Inv'
  <1>1. SUFFICES ASSUME ~StrayBreaks, Inv, Next PROVE Inv'
    OBVIOUS
  <1>2. CASE Prompt \/ NextLine \/ Terminate \/ EndBatch
    BY <1>1, <1>2, PromptStep, NextLineStep, TerminateStep, EndBatchStep
  <1>3. CASE Open \/ Dup \/ Dup2 \/ Undo
    BY <1>1, <1>3, OpenStep, DupStep, Dup2Step, UndoStep
  <1>4. CASE NextStage \/ EndPipe
    BY <1>1, <1>4, NextStageStep, EndPipeStep
  <1>5. CASE Command \/ ChangeDirectory \/ Exit \/ If \/ EndIf
    BY <1>1, <1>5, CommandStep, ChangeDirectoryStep, ExitStep, IfStep, EndIfStep
  <1>6. CASE For \/ ForBody \/ EndFor \/ Goto
    BY <1>1, <1>6, ForStep, ForBodyStep, EndForStep, GotoStep
  <1>7. CASE Slash \/ EndSlash
    BY <1>1, <1>7, SlashStep, EndSlashStep
  <1>8. CASE Run \/ Call \/ EndCall
    BY <1>1, <1>8, RunStep, CallStep, EndCallStep
  <1>9. QED
    BY <1>1, <1>2, <1>3, <1>4, <1>5, <1>6, <1>7, <1>8 DEF Next

(* Every state is that of the level at the top of its stack: the handles,    *)
(* pipe files, items and batch that are to be found again (command.c).       *)
THEOREM StateFollowsStack == ~StrayBreaks => (Spec => []Inv)
  <1>1. SUFFICES ASSUME ~StrayBreaks PROVE Spec => []Inv
    OBVIOUS
  <1>2. Init => Inv
    BY InitInv
  <1>3. Inv /\ [Next]_vars => Inv'
    BY <1>1, NextInv, StayInv
  <1>4. QED
    BY <1>2, <1>3, PTL DEF Spec

LEMMA MaxIn ==
  ASSUME NEW n \in Nat, NEW S, S \subseteq 1 .. n, S # {}
  PROVE  Max(S) \in S
  <1> DEFINE T == {k \in 0 .. n : n - k \in S}
  <1>1. T \in SUBSET Nat
    OBVIOUS
  <1>2. T # {}
    <2>1. PICK i \in S : i \in 1 .. n
      OBVIOUS
    <2>2. n - i \in 0 .. n /\ n - (n - i) = i
      BY <2>1
    <2>3. n - i \in T
      BY <2>1, <2>2
    <2>4. QED
      BY <2>3
  <1>3. PICK t \in T : \A k \in T : <<k, t>> \notin OpToRel(<, Nat)
    BY <1>1, <1>2, NatLessThanWellFounded, WFMin
  <1> DEFINE m == n - t
  <1>4. m \in S /\ t \in 0 .. n
    BY <1>3
  <1>5. ASSUME NEW i \in S PROVE i <= m
    <2>1. i \in 1 .. n /\ n - i \in Nat /\ n - i \in 0 .. n /\ n - (n - i) = i
      OBVIOUS
    <2>2. n - i \in T
      BY <2>1
    <2>3. ~(n - i < t)
      BY <1>1, <1>3, <2>1, <2>2 DEF OpToRel
    <2>4. QED
      BY <1>4, <2>1, <2>3
  <1> HIDE DEF m, T
  <1>6. S \subseteq Int
    OBVIOUS
  <1>7. Max(S) = m
    BY <1>4, <1>5, <1>6, MaxIs
  <1>8. QED
    BY <1>4, <1>7

(* A command sees what the frames below it set up.                           *)
LEMMA CommandSees ==
  ASSUME Inv, PipesStay, Doing("cmd")
  PROVE  RunsAsAsked
  <1>1. At("do")
    BY DEF Doing
  <1>2. PICK p, v : /\ Holds(stack, p) /\ Matches(p) /\ On(p, v)
                    /\ DoFits(Top, v) /\ Holds(Below, v) /\ v.ready = "waits"
    BY <1>1, DoingIs
  <1>3. stack # <<>> /\ IsList(stack) /\ Top.at = "do"
    BY <1>1, DoingIs DEF At
  <1> DEFINE b == Below
             n == Len(b)
  <1>4. /\ IsList(b) /\ n \in Nat /\ Len(stack) = n + 1 /\ DOMAIN stack = 1 .. Len(stack)
        /\ stack[Len(stack)] = Top /\ \A i \in 1 .. n : stack[i] = b[i]
    BY <1>3, StackIs
  <1>5. DOMAIN b = 1 .. n
    BY <1>4, ListIs
  <1> HIDE DEF b, n
  <1>6. \A i : i \in DOMAIN stack <=> i \in 1 .. n \/ i = n + 1
    BY <1>4
  <1>7. jft = v.jft
    BY <1>2, <1>3, OnIs DEF Matches, Stored
  <1>8. ASSUME NEW h \in {Stdin, Stdout} PROVE jft[h] = Asked(h)
    <2>1. Scopes(h) = ScopesOf(b, h)
      BY <1>3, <1>4, <1>5, <1>6 DEF Scopes, ScopesOf
    <2> DEFINE S == ScopesOf(b, h)
    <2>2. S \subseteq 1 .. n
      BY <1>5 DEF ScopesOf
    <2>3. v.jft[h] = IF S = {} THEN Con ELSE b[Max(S)].name
      BY <1>2, AskedIs DEF b
    <2> HIDE DEF S
    <2>4. S # {} => stack[Max(S)] = b[Max(S)]
      BY <1>4, <2>2, MaxIn
    <2>5. QED
      BY <1>7, <2>1, <2>3, <2>4 DEF Asked, S
  <1>9. ASSUME Top.item # 0
        PROVE  LET fors == {i \in DOMAIN stack : stack[i].at = "for"}
                   f    == stack[Max(fors)]
               IN  fors # {} /\ Top.item = f.do.set[f.next - 1]
    <2> DEFINE S == Fors(b)
    <2>1. "for" \in v.under /\ Top.item = v.item
      BY <1>2, <1>9 DEF DoFits
    <2>2. S # {} /\ v.item = b[Max(S)].do.set[b[Max(S)].next - 1]
      BY <1>2, <2>1, ItemIs DEF b
    <2>3. S \subseteq 1 .. n
      BY <1>5 DEF Fors
    <2>4. {i \in DOMAIN stack : stack[i].at = "for"} = S
      BY <1>3, <1>4, <1>5, <1>6 DEF Fors
    <2> HIDE DEF S
    <2>5. stack[Max(S)] = b[Max(S)]
      BY <1>4, <2>2, <2>3, MaxIn
    <2>6. QED
      BY <2>1, <2>2, <2>4, <2>5
  <1>10. QED
    BY <1>8, <1>9 DEF RunsAsAsked

LEMMA PromptSees ==
  ASSUME Inv, PipesStay
  PROVE  WholeAtPrompt
  <1>1. SUFFICES ASSUME stack = <<>>
                 PROVE  /\ jft = AtFirst
                        /\ {f \in files : IsTemp(f)} = {f \in UserFiles : IsTemp(f)}
                        /\ names = <<>> /\ batch = 0 /\ ~leaving
    BY DEF WholeAtPrompt
  <1>2. Matches(Base)
    BY <1>1, NothingHolds DEF Inv
  <1>3. names = <<>> /\ batch = 0 /\ ~leaving
    BY <1>2 DEF Matches, Flagged, Base
  <1>4. jft = AtFirst /\ Temps(files) = Temps(UserFiles)
    BY <1>2 DEF Matches, Stored, Base
  <1>5. QED
    BY <1>3, <1>4 DEF Temps

LEMMA BatchSees ==
  ASSUME Inv, BatchesCall, NoneHidden
  PROVE  OwnLines
  <1>1. PICK p : Holds(stack, p) /\ Matches(p)
    BY DEF Inv
  <1>2. p.batches # {} /\ p.at # "call" => buf = p.text
    BY <1>1 DEF Matches, Reads
  <1>3. ASSUME At("batch") PROVE buf = Top.file
    <2>1. stack # <<>> /\ Top.at = "batch"
      BY <1>3 DEF At
    <2>2. PICK v : On(p, v)
      BY <1>1, <2>1, TopIs
    <2>3. p.batches = v.batches \cup {Len(stack)} /\ p.text = Top.file
      BY <2>1, <2>2, BatchOn
    <2>4. p.at = "batch"
      BY <2>1, <2>2, OnIs
    <2>5. QED
      BY <1>2, <2>3, <2>4
  <1>4. ASSUME Doing("goto"), batch # 0 PROVE buf = stack[batch].file
    <2>1. stack # <<>> /\ Top.at = "do"
      BY <1>4 DEF Doing, At
    <2>2. PICK v : On(p, v)
      BY <1>1, <2>1, TopIs
    <2>3. p.at = "do"
      BY <2>1, <2>2, OnIs
    <2>4. p.batch = batch
      BY <1>1 DEF Matches
    <2>5. stack[batch].file = p.text
      BY <1>1, <1>4, <2>4, BatchesAre
    <2>6. p.batches # {}
      BY <1>1, <1>4, <2>4, HoldsIs DEF IsLevel
    <2>7. QED
      BY <1>2, <2>3, <2>5, <2>6
  <1>5. QED
    BY <1>3, <1>4 DEF OwnLines

(* After a ^C                                                                *)
Unwinds == latched /\ stack # <<>> => Len(stack') < Len(stack) \/ (~latched' /\ ~ended)

LEMMA BreakSees ==
  ASSUME Inv, NoneHidden, Next
  PROVE  Unwinds
  <1>1. SUFFICES ASSUME latched, stack # <<>>
                 PROVE  Len(stack') < Len(stack) \/ (~latched' /\ ~ended)
    BY DEF Unwinds
  <1>2. PICK p : Holds(stack, p) /\ Matches(p)
    BY DEF Inv
  <1>3. PICK v : On(p, v)
    BY <1>1, <1>2, TopIs
  <1>4. p.ready = Readiness(Top) /\ p.ready = "waits"
    BY <1>1, <1>2, <1>3, OnIs DEF Matches, Flagged
  <1>5. IsList(stack) /\ IsList(Below) /\ Len(Below) \in Nat /\ Len(stack) = Len(Below) + 1
    BY <1>1, <1>2, StackIs, TopIs
  <1>6. Len(Below) < Len(stack)
    BY <1>5
  <1>7. stack' = Below => Len(stack') < Len(stack)
    BY <1>6
  <1>8. \A op : ~Doing(op)
    BY <1>4 DEF Doing, At, Readiness
  <1>9. ~Prompt
    BY <1>1 DEF Prompt
  <1>10. ~Open /\ ~Dup /\ ~Dup2
    BY <1>4 DEF Open, Dup, Dup2, At, Readiness
  <1>11. CASE Undo \/ EndPipe
    BY <1>7, <1>11 DEF Undo, EndPipe
  <1>12. CASE NextStage
    <2>1. Top.at = "pipe" /\ ~Stopped(Top)
      BY <1>12 DEF NextStage, At
    <2>2. ~(Top.i > 0)
      BY <1>1, <2>1 DEF Stopped
    <2>3. PipeFits(Top, v)
      BY <1>3, <2>1, PipeOn
    <2>4. Top.i \in 0 .. Len(Top.line) /\ Len(Top.line) \in Nat
      BY <2>3, ListIs DEF PipeFits, IsLine, IsList
    <2>5. Top.i = 0
      BY <2>2, <2>4
    <2>6. QED
      BY <1>4, <2>1, <2>5 DEF Readiness
  <1>13. ~Command /\ ~ChangeDirectory /\ ~Exit /\ ~If /\ ~For /\ ~Goto /\ ~Slash /\ ~Run /\ ~Call
    BY <1>8 DEF Command, ChangeDirectory, Exit, If, For, Goto, Slash, Run, Call
  <1>14. CASE EndIf \/ EndFor \/ EndSlash \/ EndCall
    BY <1>7, <1>14 DEF EndIf, EndFor, EndSlash, EndCall, Returns
  <1>15. ~ForBody
    BY <1>1 DEF ForBody, ForStops
  <1>16. CASE EndBatch
    BY <1>7, <1>16 DEF EndBatch, LeavesBatch, Returns
  <1>17. CASE Terminate
    BY <1>6, <1>17, TerminateStep
  <1>18. CASE NextLine
    <2>1. Top.at = "batch" /\ ~Top.cancelled /\ latched' = FALSE
      BY <1>18 DEF NextLine, Runs, At
    <2>2. Len(stack) \in p.batches
      BY <1>3, <2>1, BatchOn
    <2>3. stack[Len(stack)] = Top
      BY <1>1, <1>5, StackIs
    <2>4. ~ended
      BY <1>2, <2>1, <2>2, <2>3 DEF Matches, Cancelled
    <2>5. QED
      BY <2>1, <2>4
  <1>19. QED
    BY <1>9, <1>10, <1>11, <1>12, <1>13, <1>14, <1>15, <1>16, <1>17, <1>18 DEF Next

-----------------------------------------------------------------------------
(* The properties.                                                           *)

(* A command runs with the stdin and stdout that its line asked for, and the *)
(* body of a FOR with an item of its own FOR (run_with_redirect and          *)
(* run_pipeline, command.c), if nothing in a pipeline changes the directory. *)
THEOREM CommandsRunAsAsked == ~StrayBreaks /\ PipesStay => (Spec => []RunsAsAsked)
  <1>1. SUFFICES ASSUME ~StrayBreaks, PipesStay PROVE Spec => []RunsAsAsked
    OBVIOUS
  <1>2. Spec => []Inv
    BY <1>1, StateFollowsStack
  <1>3. Inv => RunsAsAsked
    BY <1>1, CommandSees DEF RunsAsAsked
  <1>4. QED
    BY <1>2, <1>3, PTL

(* Whatever a line did, the prompt finds handles, pipe files and FOR items   *)
(* as they were (run_pipeline and run_with_redirect, command.c).             *)
THEOREM PromptFindsAllAsItWas == ~StrayBreaks /\ PipesStay => (Spec => []WholeAtPrompt)
  <1>1. SUFFICES ASSUME ~StrayBreaks, PipesStay PROVE Spec => []WholeAtPrompt
    OBVIOUS
  <1>2. Spec => []Inv
    BY <1>1, StateFollowsStack
  <1>3. Inv => WholeAtPrompt
    BY <1>1, PromptSees
  <1>4. QED
    BY <1>2, <1>3, PTL

(* The batch that goes on, or looks for a label, has its own text in         *)
(* g_batch_buf (batch_reload, command.c), if batches start others with CALL. *)
THEOREM BatchesReadTheirOwn ==
  ~StrayBreaks /\ BatchesCall /\ NoneHidden => (Spec => []OwnLines)
  <1>1. SUFFICES ASSUME ~StrayBreaks, BatchesCall, NoneHidden PROVE Spec => []OwnLines
    OBVIOUS
  <1>2. Spec => []Inv
    BY <1>1, StateFollowsStack
  <1>3. Inv => OwnLines
    BY <1>1, BatchSees
  <1>4. QED
    BY <1>2, <1>3, PTL

(* After a ^C the interpreter goes back, to the prompt or to a batch for     *)
(* which the user answers N (batch_terminate_question, command.c).           *)
THEOREM BreaksGoBack == ~StrayBreaks /\ NoneHidden => (Spec => UnwindsAfterBreak)
  <1>1. SUFFICES ASSUME ~StrayBreaks, NoneHidden PROVE Spec => UnwindsAfterBreak
    OBVIOUS
  <1>2. Spec => []Inv
    BY <1>1, StateFollowsStack
  <1>3. Inv /\ [Next]_vars =>
          [latched /\ stack # <<>> => Len(stack') < Len(stack) \/ (~latched' /\ ~ended)]_vars
    BY <1>1, BreakSees DEF Unwinds
  <1>4. QED
    BY <1>2, <1>3, PTL DEF Spec, UnwindsAfterBreak
=============================================================================
