------------------------------ MODULE MCShell -------------------------------
(* Lines and batch files for Shell: A and B CALL each other inside pipes,    *)
(* redirection and FOR, until the batches are too deep or the handles used   *)
(* up.  A batch is named without CALL, and CALLed inside COMMAND /C, only at *)
(* the prompt; nothing changes the directory inside a pipe.                  *)
EXTENDS Shell

Cmd        == [op |-> "cmd"]
CallOf(f)  == [op |-> "call", file |-> f]
RunOf(f)   == [op |-> "run", file |-> f]
IfOf(d)    == [op |-> "if", body |-> d]
ForOf(s, d) == [op |-> "for", set |-> s, body |-> d]
SlashOf(d) == [op |-> "slash", body |-> d]
GotoLine(n) == [op |-> "goto", to |-> n]
ExitNow    == [op |-> "exit"]
CdTo(d)    == [op |-> "cd", to |-> d]

Plain(d)      == [in |-> Unset, out |-> Unset, do |-> d]
From(f, d)    == [in |-> File(f), out |-> Unset, do |-> d]
Into(f, d)    == [in |-> Unset, out |-> File(f), do |-> d]

Batches ==
  [A |-> << <<Plain(Cmd), Plain(CallOf("B"))>>,
            <<Plain(ForOf(<<1, 2>>, IfOf(GotoLine(3))))>>,
            <<Into("f", SlashOf(ForOf(<<1, 2>>, Cmd)))>> >>,
   B |-> << <<Plain(ForOf(<<3, 4>>, CallOf("A")))>>,
            <<From("f", Cmd), Into("g", CallOf("A"))>>,
            <<Plain(SlashOf(ForOf(<<5>>, ExitNow)))>> >>,
   C |-> << <<Plain(Cmd)>>, <<Plain(Cmd)>>, <<Plain(ExitNow)>>, <<Plain(Cmd)>> >>]

\* All lines of one stage, and of two and three with fewer commands.
Stages(dos) == [in : {Unset, File("f")}, out : {Unset, File("g")}, do : dos]
Short == {Cmd, CallOf("B")}
Lines ==
  {<<s>> : s \in Stages(Short \cup {CallOf("A"), RunOf("B"), IfOf(CallOf("C")), CdTo("root"),
                CdTo("sub"), ForOf(<<1, 2>>, ForOf(<<3>>, Cmd)), SlashOf(CallOf("C")), ExitNow})}
  \cup {<<s, t>> : s, t \in Stages(Short \cup {ForOf(<<1, 2>>, CallOf("A"))})}
  \cup {<<s, Plain(do), Plain(Cmd)>> : s \in Stages({Cmd}), do \in Short}

\* What a command runs, and all that some lines do.
RECURSIVE RunBy(_)
RunBy(d) == {d} \cup (IF d.op \in Nesting THEN RunBy(d.body) ELSE {})
RunIn(lines) == UNION {RunBy(s.do) : s \in UNION {ToSet(line) : line \in lines}}

InBatches == UNION {ToSet(Batches[file]) : file \in DOMAIN Batches}
Everything == RunIn(Lines \cup InBatches)

\* What ShellProofs supposes of the lines: in pipes and batches none changes the
\* directory or names a batch without CALL, in batches none CALLs in COMMAND /C.
ASSUME TameLines ==
  /\ \A d \in RunIn({line \in Lines : Len(line) > 1} \cup InBatches) : d.op \notin {"cd", "run"}
  /\ \A d \in RunIn(InBatches) :
       d.op = "slash" => \A e \in RunBy(d.body) : e.op \notin {"call", "run"}

Disk == {Temp("root", 1, 0), File("f")}
=============================================================================
