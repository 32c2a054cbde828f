------------------------------- MODULE ToolCalls -------------------------------
(***************************************************************************)
(* The tools of build_tool_server at work in one checkout: an agent reads a *)
(* file page by page while commands run beside it.  read_file works in the  *)
(* task of the call; shell and grep wait for a process on a blocking thread *)
(* under a timeout, list_dir without one.  Nothing kills a process whose    *)
(* call timed out.                                                         *)
(*                                                                         *)
(* The file is its lines, named by the order in which they were written.    *)
(***************************************************************************)
EXTENDS Integers, SequencesExt, FiniteSetsExt

CONSTANTS
  Commands,     \* calls of shell, grep and list_dir
  DefaultLines, \* MAX_LINES of read_file
  LeastLines,   \* what max_lines is raised to: 50 in the code
  Asked,        \* what the agent asks for: start_line and max_lines, 0 for neither
  MaxFile,      \* bound: lines the file begins with
  MaxEdits      \* bound: edits of the file

ASSUME ToolAssumption ==
  /\ Asked \subseteq Nat
  /\ {DefaultLines, LeastLines, MaxFile, MaxEdits} \subseteq Nat \ {0}

VARIABLES
  text,    \* the lines of the file
  edits,   \* how often it was edited
  reader,  \* the agent that pages through it
  command  \* command[q]: the process of call q and the answer to it

toolVars == <<text, edits, reader, command>>

\* at: the line it asks for next; first: where it began; size: max_lines; got:
\* the lines it was shown; since: the edits when it began; end: how it ended.
NoReader == [at |-> 0, first |-> 0, size |-> 0, got |-> <<>>, since |-> 0, end |-> "idle"]
NoCommand == [tool |-> "none", process |-> "none", answer |-> "none"]

ToolTypeOK ==
  /\ text \in Seq(Nat) /\ edits \in 0 .. MaxEdits
  /\ reader.end \in {"idle", "reading", "whole", "panicked", "too_far"}
  /\ {reader.at, reader.first, reader.size, reader.since} \subseteq Nat
  /\ command \in [Commands ->
       [tool : {"none", "shell", "grep", "list_dir"}, process : {"none", "alive", "over"},
        answer : {"none", "output", "failed", "timeout", "panicked"}]]

ToolInit ==
  /\ \E n \in 0 .. MaxFile : text = [i \in 1 .. n |-> i]
  /\ edits = 0 /\ reader = NoReader
  /\ command = [q \in Commands |-> NoCommand]

-----------------------------------------------------------------------------
(* read_file.                                                              *)

\* Mutant of Start: the number of a line is taken for its index.
StartAsIndex == reader.at

Start == Max({reader.at, 1}) - 1
PageLines == Max({IF reader.size = 0 THEN DefaultLines ELSE reader.size, LeastLines})
Page == SubSeq(text, Start + 1, Min({Start + PageLines, Len(text)}))

\* The subtraction is of unsigned numbers: past the end a debug build panics,
\* a release build is left with a huge number.
Left == Len(text) - Start

\* "... (showing n of m lines)": there is more, whether there is or not.
IsCut == Left < 0 \/ Len(Page) < Left

\* The agent begins somewhere ...
OpenFile(s, n) ==
  /\ reader.end = "idle"
  /\ reader' = [NoReader EXCEPT !.at = s, !.first = Max({s, 1}), !.size = n, !.since = edits,
                                !.end = "reading"]
  /\ UNCHANGED <<text, edits, command>>

\* ... and asks for what follows as long as it is told that there is more.
ReadFile ==
  /\ reader.end = "reading"
  /\ \/ /\ Left < 0
        /\ \E e \in {"panicked", "too_far"} : reader' = [reader EXCEPT !.end = e]
     \/ /\ Left >= 0
        /\ reader' = [reader EXCEPT !.got = @ \o Page, !.at = Start + Len(Page) + 1,
                                    !.end = IF IsCut THEN "reading" ELSE "whole"]
  /\ UNCHANGED <<text, edits, command>>

-----------------------------------------------------------------------------
(* shell, grep and list_dir.                                               *)

StartCommand(q, t) ==
  /\ command[q].tool = "none"
  /\ command' = [command EXCEPT ![q] = [tool |-> t, process |-> "alive", answer |-> "none"]]
  /\ UNCHANGED <<text, edits, reader>>

\* A shell command may write to the file as long as it runs.
Edit(q) ==
  /\ command[q].tool = "shell" /\ command[q].process = "alive"
  /\ edits < MaxEdits
  /\ edits' = edits + 1
  /\ text' \in {Append(text, MaxFile + edits + 1), <<>>, SubSeq(text, 1, Len(text) - 1)}
  /\ UNCHANGED <<reader, command>>

\* What a process that is over means to a call that still waits.  A shell
\* command that failed is output, unless sh could not be started; grep fails
\* unless it only found nothing.  Output cut inside a character panics, which
\* fails grep, whose cut is on the blocking thread.
ShellAnswers == {"output", "failed", "panicked"}
GrepAnswers == {"output", "failed"}
ListDirAnswers == {"output", "failed"}

Answers(t) ==
  CASE t = "shell" -> ShellAnswers [] t = "grep" -> GrepAnswers [] t = "list_dir" -> ListDirAnswers

CommandEnds(q) ==
  /\ command[q].process = "alive"
  /\ \E a \in Answers(command[q].tool) :
       command' = [command EXCEPT ![q].process = "over",
                     ![q].answer = IF @ = "none" THEN a ELSE @]
  /\ UNCHANGED <<text, edits, reader>>

TimeoutElapsed(q) ==
  /\ command[q].tool \in {"shell", "grep"} /\ command[q].answer = "none"
  /\ command' = [command EXCEPT ![q].answer = "timeout"]
  /\ UNCHANGED <<text, edits, reader>>

ToolNext ==
  \/ ReadFile \/ \E s, n \in Asked : OpenFile(s, n)
  \/ \E q \in Commands :
       \/ \E t \in {"shell", "grep", "list_dir"} : StartCommand(q, t)
       \/ Edit(q) \/ CommandEnds(q) \/ TimeoutElapsed(q)

ToolSpec == ToolInit /\ [][ToolNext]_toolVars

-----------------------------------------------------------------------------
(* Properties.                                                             *)

Undisturbed == edits = reader.since

\* An agent that follows the note has read every line from where it began,
\* once and in order, and is never sent past the end; unless a command edits
\* the file meanwhile, which a command may do after its call was answered.
PagesCoverTheFile ==
  Undisturbed /\ reader.end # "idle" =>
    /\ reader.got = SubSeq(text, reader.first, reader.first + Len(reader.got) - 1)
    /\ reader.end = "whole" => reader.first + Len(reader.got) = Len(text) + 1
    /\ reader.end \in {"panicked", "too_far"} => reader.first > Len(text) + 1

\* A call that is answered with what its command said is over; only a timeout
\* leaves a command running.
AnsweredIsOver ==
  \A q \in Commands :
    /\ command[q].process = "alive" => command[q].answer \in {"none", "timeout"}
    /\ command[q].answer = "timeout" => command[q].tool # "list_dir"

ToolsTellTheTruth == PagesCoverTheFile /\ AnsweredIsOver

=============================================================================
