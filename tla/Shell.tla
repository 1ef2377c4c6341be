------------------------------- MODULE Shell --------------------------------
(* The resident command interpreter (os/milton/command.c): lines typed or   *)
(* read from batch files, with pipes, redirection, IF, FOR, GOTO, CALL and  *)
(* COMMAND /C, each undone on the way back.  The C calls are the frames of  *)
(* "stack", and a step begins, goes on with or ends the topmost.            *)
(*                                                                         *)
(* A line is a sequence of stages, a stage [in, out, do] has the files it   *)
(* is redirected to.  Pipes and redirections are taken off a line before    *)
(* it is looked at, so what IF, FOR and /C run has none.  Parameters,       *)
(* variables, ECHO and what commands do are left out.                      *)
EXTENDS Integers, Sequences, FiniteSets, SequencesExt, FiniteSetsExt

CONSTANTS
  NumHandles,    \* handles of the interpreter: stdin, stdout, and others
  Texts,         \* the batch files, each the sequence of its lines
  Typed,         \* the lines that may be typed
  Commands,      \* what stages, and the bodies of IF, FOR and COMMAND /C, ask for
  Directories,
  UserFiles,     \* what is on the disk at first
  BatchMax,      \* BATCH_NEST_MAX: batch files in batch files,
  BodyMax,       \*   IF and FOR in IF and FOR
  SlashMax,      \* COMMAND /C in COMMAND /C
  NamesMax,      \* what g_for_names holds
  StrayBreaks    \* may a ^C meet the calls that set up and undo redirection
                 \* (BREAK ON)?

VARIABLES
  jft,       \* what each handle is open on
  files, cwd,
  stack,     \* frames, the topmost last
  batch,     \* g_batch_frame: the place in the stack of the current batch, or 0
  buf,       \* the batch file g_batch_buf holds
  names,     \* g_for_names: items of the FORs under way
  latched,   \* g_shell_break.interrupted
  leaving,   \* g_shell_exit
  rc,        \* what the frame that ended last returned (1: EXIT)
  ended      \* has a batch been ended with Y since the last prompt?
vars == <<jft, files, cwd, stack, batch, buf, names, latched, leaving, rc, ended>>

Handles == 0 .. NumHandles - 1
Stdin   == 0
Stdout  == 1
NoHandle == -1

(* Files, and what handles are open on.  A pipe's file has a name relative  *)
(* to the current directory: PIPE<i>.$$$, or PIPE<i>kkk.$$$ when k > 0.     *)
Con    == <<"con">>
Closed == <<>>
Unset  == <<"unset">>
File(name) == <<"file", name>>
Temp(dir, i, k) == <<"temp", dir, i, k>>
Here(f) == Temp(cwd, f[3], f[4])         \* the one of the same name in cwd
IsTemp(f) == f[1] = "temp"

AtFirst == [h \in Handles |-> IF h \in {Stdin, Stdout} THEN Con ELSE Closed]
Free    == {h \in Handles : jft[h] = Closed}

\* A line has at least one stage; what a user names is a file or nothing.
Nesting == {"if", "for", "slash"}
IsLine(line) ==
  /\ line # <<>> /\ line \in Seq(ToSet(line))
  /\ \A s \in ToSet(line) :
       s.do \in Commands /\ \A f \in {s.in, s.out} : f # Closed /\ ~IsTemp(f)

ASSUME ShellAssumption ==
  /\ \A line \in Typed : IsLine(line)
  /\ \A file \in DOMAIN Texts :
       /\ Texts[file] \in Seq(ToSet(Texts[file]))
       /\ \A line \in ToSet(Texts[file]) : IsLine(line)
  /\ \A d \in Commands :
       /\ d.op \in Nesting => d.body \in Commands
       /\ d.op = "for" => d.set \in Seq(ToSet(d.set))
  /\ IsFiniteSet(UserFiles)
  /\ NumHandles \in Nat /\ NumHandles > 2
  /\ {BatchMax, BodyMax, SlashMax, NamesMax} \subseteq Nat
  /\ StrayBreaks \in BOOLEAN
-----------------------------------------------------------------------------
(* Frames.                                                                 *)

Top   == Last(stack)
Below == Front(stack)
At(kind)  == stack # <<>> /\ Top.at = kind
CountOf(kinds) == Cardinality({i \in DOMAIN stack : stack[i].at \in kinds})

Becomes(f)  == stack' = Append(Below, f)
Pushes(f, above) == stack' = Append(Below, f) \o above
Returns(r)  == stack' = Below /\ rc' = r

Do(do, item) == [at |-> "do", do |-> do, item |-> item]

\* One redirected handle: from a file (in), to a file (out), to a pipe's file
\* (pipe), from the previous one (feed).
Scope(kind, name) ==
  [at |-> "scope", kind |-> kind, name |-> name, pc |-> "open",
   h |-> IF kind \in {"in", "feed"} THEN Stdin ELSE Stdout,
   file |-> NoHandle, saved |-> NoHandle, deaf |-> FALSE, rest |-> <<>>]

\* Scopes one in the other, around a command.
Begin(work) ==
  IF Head(work).at = "scope" THEN <<[Head(work) EXCEPT !.rest = Tail(work)]>> ELSE work

\* run_with_redirect: stdin is redirected first.
Redirected(stage) ==
  (IF stage.in = Unset THEN <<>> ELSE <<Scope("in", stage.in)>>) \o
  (IF stage.out = Unset THEN <<>> ELSE <<Scope("out", stage.out)>>) \o
  <<Do(stage.do, 0)>>

\* run_pipeline_or_redirect.
Started(line) ==
  IF Len(line) = 1 THEN Begin(Redirected(line[1]))
  ELSE <<[at |-> "pipe", line |-> line, i |-> 0, made |-> <<>>, halted |-> FALSE]>>

\* run_pipeline: around stage i, its own redirections inside.
Piped(p, i) ==
  (IF i = Len(p.line) THEN <<>> ELSE <<Scope("pipe", Unset)>>) \o
  (IF i = 1 THEN <<>> ELSE <<Scope("feed", Last(p.made))>>) \o
  Redirected(p.line[i])
-----------------------------------------------------------------------------
(* Redirection.                                                            *)

\* A ^C found on entry of a DOS call is latched and the call not served; what
\* it then returns is its own number with the carry as it was.  The number, as
\* a handle, has 0 in its low byte.
Strikes == StrayBreaks /\ ~latched
Answers(served, struck) ==
  {[ok |-> TRUE, h |-> h] : h \in served} \cup
  (IF Strikes THEN {[ok |-> FALSE, h |-> h] : h \in struck} ELSE {})
Latch(a) == latched' = (latched \/ ~a.ok)

\* CLOSE leaves the standard handles open.
Shut(j, h) == IF h \in {Stdin, Stdout, NoHandle} THEN j ELSE [j EXCEPT ![h] = Closed]
Dupped(j, from, to) == IF j[from] = Closed THEN j ELSE [j EXCEPT ![to] = j[from]]

\* pipe_temp_create: the first name that no file has.
NewTemp(i) ==
  Temp(cwd, i, Min({k \in 0 .. Cardinality(files) : Temp(cwd, i, k) \notin files}))

\* The set-up of a scope fails: the command is not run and a pipeline goes no
\* further; but a stage whose feed is refused is run all the same (deaf: the
\* feed is there).
GivesUp(s) ==
  IF s.kind = "feed"
  THEN /\ Pushes([s EXCEPT !.pc = "run", !.file = NoHandle, !.saved = NoHandle,
                           !.deaf = Here(s.name) \in files], Begin(s.rest))
       /\ UNCHANGED rc
  ELSE /\ stack' = IF s.kind = "pipe" THEN [Below EXCEPT ![Len(Below)].halted = TRUE] ELSE Below
       /\ rc' = FALSE

\* Refused without a free handle, or a free system slot (FILES=, what residents
\* keep open), or room on the disk for a new file.
Open ==
  /\ At("scope") /\ Top.pc = "open"
  /\ LET s    == Top
         obj  == IF s.kind = "pipe" THEN NewTemp(Last(Below).i)
                 ELSE IF s.kind = "feed" THEN Here(s.name) ELSE s.name
         new  == s.kind \in {"pipe", "out"}
         can  == IF Free # {} /\ (new \/ obj \in files) THEN {Min(Free)} ELSE {}
     IN  \E a \in Answers(can \cup {NoHandle}, {Stdin, NoHandle}) :
           /\ Latch(a)
           /\ IF a.h = NoHandle THEN GivesUp(s) /\ UNCHANGED <<jft, files>>
              ELSE /\ jft' = IF a.ok THEN [jft EXCEPT ![a.h] = obj] ELSE jft
                   /\ files' = IF a.ok THEN files \cup {obj} ELSE files
                   /\ stack' = Append(IF s.kind = "pipe"
                                      THEN [Below EXCEPT ![Len(Below)].made = Append(@, obj)]
                                      ELSE Below,
                                      [s EXCEPT !.pc = "dup", !.file = a.h,
                                         !.name = IF s.kind = "pipe" THEN obj ELSE @])
                   /\ UNCHANGED rc
  /\ UNCHANGED <<cwd, batch, buf, names, leaving, ended>>

Dup ==
  /\ At("scope") /\ Top.pc = "dup"
  /\ \E a \in Answers(IF Free = {} THEN {NoHandle} ELSE {Min(Free)}, {Stdin, NoHandle}) :
       /\ Latch(a)
       /\ IF a.h = NoHandle THEN jft' = Shut(jft, Top.file) /\ GivesUp(Top)
          ELSE /\ jft' = IF a.ok THEN [jft EXCEPT ![a.h] = jft[Top.h]] ELSE jft
               /\ Becomes([Top EXCEPT !.pc = "dup2", !.saved = a.h])
               /\ UNCHANGED rc
  /\ UNCHANGED <<files, cwd, batch, buf, names, leaving, ended>>

Dup2 ==
  /\ At("scope") /\ Top.pc = "dup2"
  /\ \E a \in Answers({Top.h}, {Top.h, NoHandle}) :
       /\ Latch(a)
       /\ IF a.h = NoHandle THEN jft' = Shut(Shut(jft, Top.saved), Top.file) /\ GivesUp(Top)
          ELSE /\ jft' = IF a.ok THEN Dupped(jft, Top.file, Top.h) ELSE jft
               /\ Pushes([Top EXCEPT !.pc = "run"], Begin(Top.rest))
               /\ UNCHANGED rc
  /\ UNCHANGED <<files, cwd, batch, buf, names, leaving, ended>>

\* DUP2, CLOSE and CLOSE, of which a ^C may take one.
Undone(s, struck) ==
  LET j1 == IF struck = 1 \/ s.saved = NoHandle THEN jft ELSE Dupped(jft, s.saved, s.h)
      j2 == IF struck = 2 THEN j1 ELSE Shut(j1, s.saved)
  IN  IF struck = 3 THEN j2 ELSE Shut(j2, s.file)

\* The scope is undone when what it was set up for has ended.
Undo ==
  /\ At("scope") /\ Top.pc = "run"
  /\ \E struck \in IF Strikes THEN 0 .. 3 ELSE {0} :
       /\ jft' = Undone(Top, struck)
       /\ latched' = (latched \/ struck # 0)
  /\ stack' = Below
  /\ UNCHANGED <<files, cwd, batch, buf, names, leaving, rc, ended>>
-----------------------------------------------------------------------------
(* Pipelines.                                                              *)

\* A stage that ended EXIT or a ^C stops the pipeline.
Stopped(p) == p.halted \/ (p.i > 0 /\ (rc \/ latched))

NextStage ==
  /\ At("pipe") /\ ~Stopped(Top) /\ Top.i < Len(Top.line)
  /\ Pushes([Top EXCEPT !.i = @ + 1], Begin(Piped(Top, Top.i + 1)))
  /\ UNCHANGED <<jft, files, cwd, batch, buf, names, latched, leaving, rc, ended>>

\* Mutant: only a pipeline that got to its end deletes its files.
Deletes_AtTheEnd(p) == IF p.i = Len(p.line) THEN {Here(p.made[k]) : k \in DOMAIN p.made} ELSE {}

Deletes(p) == {Here(p.made[k]) : k \in DOMAIN p.made}

\* All stages are done, it was stopped, or the disk did not hold what a
\* producer wrote.
EndPipe ==
  /\ At("pipe") /\ (Stopped(Top) \/ Top.i > 0)
  /\ \E missed \in IF Strikes THEN {{}} \cup {{f} : f \in Deletes(Top)} ELSE {{}} :
       /\ files' = files \ (Deletes(Top) \ missed)
       /\ latched' = (latched \/ missed # {})
  /\ stack' = Below
  /\ UNCHANGED <<jft, cwd, batch, buf, names, leaving, rc, ended>>
-----------------------------------------------------------------------------
(* Commands (dispatch_line, dispatch_control).                              *)

Doing(op) == At("do") /\ Top.do.op = op

\* A program or a built-in, which a ^C may end.
Command ==
  /\ Doing("cmd")
  /\ latched' \in {latched, TRUE}
  /\ Returns(FALSE)
  /\ UNCHANGED <<jft, files, cwd, batch, buf, names, leaving, ended>>

ChangeDirectory ==
  /\ Doing("cd")
  /\ cwd' = Top.do.to
  /\ Returns(FALSE)
  /\ UNCHANGED <<jft, files, batch, buf, names, latched, leaving, ended>>

\* The first interpreter is permanent and ignores it.
Exit ==
  /\ Doing("exit")
  /\ leaving' = (leaving \/ CountOf({"slash"}) > 0)
  /\ Returns(CountOf({"slash"}) > 0)
  /\ UNCHANGED <<jft, files, cwd, batch, buf, names, latched, ended>>

\* control_body runs nothing below a certain depth.
If ==
  /\ Doing("if")
  /\ \/ /\ CountOf({"if", "for"}) < BodyMax
        /\ Pushes([at |-> "if"], <<Do(Top.do.body, Top.item)>>)
        /\ UNCHANGED rc
     \/ Returns(leaving)       \* the condition is false
  /\ UNCHANGED <<jft, files, cwd, batch, buf, names, latched, leaving, ended>>

EndIf ==
  /\ At("if")
  /\ Returns(leaving)
  /\ UNCHANGED <<jft, files, cwd, batch, buf, names, latched, leaving, ended>>

\* control_for lists the items before it runs anything.
For ==
  /\ Doing("for")
  /\ IF Len(names) + Len(Top.do.set) > NamesMax
     THEN Returns(leaving) /\ UNCHANGED names
     ELSE /\ names' = names \o Top.do.set
          /\ Becomes([at |-> "for", do |-> Top.do, mark |-> Len(names), next |-> 1,
                      batch |-> batch, left |-> FALSE])
          /\ UNCHANGED rc
  /\ UNCHANGED <<jft, files, cwd, batch, buf, latched, leaving, ended>>

\* GOTO out of the FOR, or a batch ended with Y, has made it "left".
ForStops(f) == leaving \/ latched \/ f.left

\* Mutant: the inner FOR reads from the start of the shared list.
ForItem_FromStart(f) == names[f.next]

\* The item the next body gets.
ForItem(f) == names[f.mark + f.next]

ForBody ==
  /\ At("for") /\ ~ForStops(Top) /\ Top.next <= Len(Top.do.set)
  /\ Pushes([Top EXCEPT !.next = @ + 1],
            IF CountOf({"if", "for"}) > BodyMax THEN <<>> ELSE <<Do(Top.do.body, ForItem(Top))>>)
  /\ UNCHANGED <<jft, files, cwd, batch, buf, names, latched, leaving, rc, ended>>

EndFor ==
  /\ At("for") /\ (ForStops(Top) \/ Top.next > Len(Top.do.set))
  /\ names' = SubSeq(names, 1, Top.mark)
  /\ Returns(leaving)
  /\ UNCHANGED <<jft, files, cwd, batch, buf, latched, leaving, ended>>

\* The stack with the branch counts of some batches raised, which the FORs
\* they run compare on return.
Branched(s, batches) ==
  [i \in DOMAIN s |->
     IF s[i].at = "for" /\ s[i].batch \in batches THEN [s[i] EXCEPT !.left = TRUE] ELSE s[i]]

Goto ==
  /\ Doing("goto")
  /\ stack' = IF batch = 0 THEN Below
              ELSE Branched([Below EXCEPT ![batch].pos = Top.do.to], {batch})
  /\ rc' = leaving
  /\ UNCHANGED <<jft, files, cwd, batch, buf, names, latched, leaving, ended>>

\* COMMAND /C.
Slash ==
  /\ Doing("slash")
  /\ IF CountOf({"slash"}) >= SlashMax
     THEN Returns(FALSE) /\ UNCHANGED <<batch, leaving>>
     ELSE /\ Pushes([at |-> "slash", leaving |-> leaving, batch |-> batch],
                    <<Do(Top.do.body, Top.item)>>)
          /\ leaving' = FALSE /\ batch' = 0
          /\ UNCHANGED rc
  /\ UNCHANGED <<jft, files, cwd, buf, names, latched, ended>>

EndSlash ==
  /\ At("slash")
  /\ leaving' = Top.leaving /\ batch' = Top.batch
  /\ Returns(FALSE)
  /\ UNCHANGED <<jft, files, cwd, buf, names, latched, ended>>
-----------------------------------------------------------------------------
(* Batch files.                                                            *)

BatchFrame(file) ==
  [at |-> "batch", file |-> file, pos |-> 1, cancelled |-> FALSE, prev |-> batch]

\* The file is looked for by opening it: what Open may lack may be lacking here.
Found(file) == Free # {} /\ file \in DOMAIN Texts
Deep == CountOf({"batch"}) >= BatchMax

\* run_batch: nothing when the batches are too deep.
Enters(s, file) ==
  IF Deep THEN stack' = s /\ UNCHANGED <<batch, buf>>
  ELSE stack' = Append(s, BatchFrame(file)) /\ batch' = Len(s) + 1 /\ buf' = file

\* A batch named without CALL.
Run ==
  /\ Doing("run")
  /\ \/ Found(Top.do.file) /\ Enters(Below, Top.do.file)
     \/ stack' = Below /\ UNCHANGED <<batch, buf>>
  /\ rc' = FALSE
  /\ UNCHANGED <<jft, files, cwd, names, latched, leaving, ended>>

Call ==
  /\ Doing("call")
  /\ \/ /\ Found(Top.do.file)
        /\ Enters(Append(Below, [at |-> "call", caller |-> batch]), Top.do.file)
        /\ UNCHANGED rc
     \/ Returns(leaving) /\ UNCHANGED <<batch, buf>>
  /\ UNCHANGED <<jft, files, cwd, names, latched, leaving, ended>>

\* Mutant: the caller's text is not read again.
Reloaded_Not(c) == buf

\* The callee has overwritten the caller's text, which is read from its path
\* again: the path still names the file, and what it takes to open it was there
\* at the CALL.
Reloaded(c) == IF c.caller = 0 THEN buf ELSE stack[c.caller].file

EndCall ==
  /\ At("call")
  /\ buf' = Reloaded(Top)
  /\ Returns(leaving)
  /\ UNCHANGED <<jft, files, cwd, batch, names, latched, leaving, ended>>

LeavesBatch == batch' = Top.prev /\ Returns(FALSE)

\* The turns of run_batch's loop: it asks about a ^C that came before or is
\* waiting now.
Runs == At("batch") /\ ~leaving /\ ~Top.cancelled

\* Mutant: the callers go on.
Chain_Own(b) == {b}

\* The batch at place b and those that CALLed it.
Chain(b) ==
  LET from[i \in 0 .. b] ==
        IF i = 0 \/ stack[i].at # "batch" THEN {} ELSE {i} \cup from[stack[i].prev]
  IN  from[b]

Terminate ==                                                     \* Y
  /\ Runs
  /\ LET ends == Chain(Len(stack))
     IN  stack' = Front(Branched([i \in DOMAIN stack |->
                          IF i \in ends THEN [stack[i] EXCEPT !.cancelled = TRUE] ELSE stack[i]],
                        ends))
  /\ latched' = TRUE /\ ended' = TRUE
  /\ batch' = Top.prev /\ rc' = FALSE
  /\ UNCHANGED <<jft, files, cwd, buf, names, leaving>>

\* Mutant: N leaves the cursor where it is.
After_SameOnN(b) == IF latched THEN b.pos ELSE b.pos + 1

\* batch_next_line moves on before the line is run.
After(b) == b.pos + 1

\* No ^C, or N; without a handle for the console the answer is Y.
NextLine ==
  /\ Runs /\ Top.pos <= Len(Texts[Top.file])
  /\ latched => Free # {}
  /\ latched' = FALSE
  /\ Pushes([Top EXCEPT !.pos = After(Top)],
            IF Top.pos \in DOMAIN Texts[buf] THEN Started(Texts[buf][Top.pos]) ELSE <<>>)
  /\ UNCHANGED <<jft, files, cwd, batch, buf, names, leaving, rc, ended>>

EndBatch ==
  /\ At("batch")
  /\ \/ leaving \/ Top.cancelled
     \/ /\ Top.pos > Len(Texts[Top.file])
        /\ latched => Free # {}
  /\ latched' = (latched /\ ~Runs)
  /\ LeavesBatch
  /\ UNCHANGED <<jft, files, cwd, buf, names, leaving, ended>>

\* command_repl.
Prompt ==
  /\ stack = <<>>
  /\ \E line \in Typed : stack' = Started(line)
  /\ latched' = FALSE /\ ended' = FALSE
  /\ UNCHANGED <<jft, files, cwd, batch, buf, names, leaving, rc>>

Init ==
  /\ jft = AtFirst
  /\ files = UserFiles
  /\ cwd \in Directories
  /\ stack = <<>> /\ batch = 0 /\ buf = "none" /\ names = <<>>
  /\ latched = FALSE /\ leaving = FALSE /\ rc = FALSE /\ ended = FALSE

Next ==
  \/ Prompt
  \/ Open \/ Dup \/ Dup2 \/ Undo \/ NextStage \/ EndPipe
  \/ Command \/ ChangeDirectory \/ Exit \/ If \/ EndIf
  \/ For \/ ForBody \/ EndFor \/ Goto \/ Slash \/ EndSlash
  \/ Run \/ Call \/ EndCall \/ Terminate \/ NextLine \/ EndBatch

Spec == Init /\ [][Next]_vars

\* Nothing but a ^C comes between the steps of the interpreter.
FairSpec == Spec /\ WF_vars(Next)
-----------------------------------------------------------------------------
\* The scopes of handle h, and what the innermost that was set up asks for.
Scopes(h) == {i \in DOMAIN stack : stack[i].at = "scope" /\ stack[i].h = h /\ ~stack[i].deaf}
Asked(h) ==
  IF Scopes(h) = {} THEN Con ELSE stack[Max(Scopes(h))].name

\* A command never runs with the wrong stdin or stdout (command.c, the "fail loud"
\* of run_with_redirect and run_pipeline), unless its feed was refused; and
\* a FOR body gets the items of its own FOR, whatever ran between.
RunsAsAsked ==
  Doing("cmd") =>
    /\ jft[Stdin] = Asked(Stdin) /\ jft[Stdout] = Asked(Stdout)
    /\ Top.item # 0 =>
         LET fors == {i \in DOMAIN stack : stack[i].at = "for"}
             f    == stack[Max(fors)]
         IN  fors # {} /\ Top.item = f.do.set[f.next - 1]

\* command.c: "Restore handle 1 to CON on EVERY path", "Deletes every temp on EVERY
\* path" and "only names this pipeline created".  Whatever a line did and however
\* it ended, the prompt finds handles, pipe files and the items of FOR as they were.
WholeAtPrompt ==
  stack = <<>> =>
    /\ jft = AtFirst
    /\ {f \in files : IsTemp(f)} = {f \in UserFiles : IsTemp(f)}
    /\ names = <<>> /\ batch = 0 /\ ~leaving

\* Batches share g_batch_buf.  The one that goes on to its next line, or looks for
\* a label, has its own text there.
OwnLines ==
  /\ At("batch") /\ Runs /\ Top.pos <= Len(Texts[Top.file]) => buf = Top.file
  /\ Doing("goto") /\ batch # 0 => buf = stack[batch].file

\* After a ^C the interpreter only goes back, undoing what was set up, to the prompt
\* or to a batch for which the user answers N; a batch ended with Y takes those that
\* CALLed it along (batch_terminate_question: "Y cancels ALL active CALL frames").
UnwindsAfterBreak ==
  [][latched /\ stack # <<>> => Len(stack') < Len(stack) \/ (~latched' /\ ~ended)]_vars

\* Whatever batches CALL each other or themselves, a line without a GOTO back comes
\* to its end (BATCH_NEST_MAX "so a self-CALL'ing .BAT cannot blow the stack").
EveryLineEnds == []<>(stack = <<>>)

TypeOK ==
  /\ jft \in [Handles -> {Con, Closed} \cup files]
  /\ batch \in 0 .. Len(stack) /\ (batch # 0 => stack[batch].at = "batch")
  /\ CountOf({"batch"}) <= BatchMax /\ Len(names) <= NamesMax
=============================================================================
