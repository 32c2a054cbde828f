-------------------------------- MODULE LogTail --------------------------------
(***************************************************************************)
(* The server's console log as an administrator sees it: the last lines of  *)
(* the file behind latest.log when the page opens, and a connection that    *)
(* looks at the file every second and sends what was appended.  A broken    *)
(* connection is opened again by the browser, and the same page goes on     *)
(* with what is appended then.  The logger writes whole lines meanwhile,    *)
(* and starts a new file every day.  A file is the sequence of the lengths  *)
(* of its lines; positions are in bytes.                                    *)
(***************************************************************************)
EXTENDS Naturals, SequencesExt

CONSTANTS
  Tails,     \* connections to GET /api/admin/logs/stream
  Lengths,   \* lengths a line may have, its newline included
  Chunk,     \* CHUNK_SIZE
  Readback,  \* READBACK_LINES
  MaxLines,  \* bound: lines written to one file
  MaxFiles   \* bound: files

ASSUME LogAssumption ==
  /\ Lengths \subseteq Nat \ {0}
  /\ {Chunk, Readback, MaxLines, MaxFiles} \subseteq Nat \ {0}

VARIABLES
  file,   \* the file latest.log points to
  day,    \* which one it is
  tail,   \* tail[c]: the task of connection c
  logPage \* logPage[c]: the page that opened it

logVars == <<file, day, tail, logPage>>

\* Where each line ends; the first starts at 0.
Ends(f) ==
  LET end[i \in 0 .. Len(f)] == IF i = 0 THEN 0 ELSE end[i - 1] + f[i] IN end
Size(f) == Ends(f)[Len(f)]
StartOf(f, i) == Ends(f)[i - 1]

-----------------------------------------------------------------------------
(* The lines a page starts with.                                           *)

\* Lines that are whole in what follows position p: what stands before the
\* first newline is dropped, even if it is a whole line, unless p is 0.
WholeFrom(f, p) == {i \in DOMAIN f : p = 0 \/ StartOf(f, i) > p}

\* Where k chunks from the end begin.
ChunkStart(f, k) == IF k * Chunk < Size(f) THEN Size(f) - k * Chunk ELSE 0

\* Chunks are read backwards until there are enough whole lines.
ReadFrom(f) ==
  LET Enough(k) == LET p == ChunkStart(f, k)
                   IN  p = 0 \/ Cardinality(WholeFrom(f, p)) >= Readback
  IN  ChunkStart(f, CHOOSE k \in 1 .. Size(f) : Enough(k) /\ \A j \in 1 .. k - 1 : ~Enough(j))

LastOf(n, S) == {i \in S : Cardinality({j \in S : j >= i}) <= n}

\* read_last_n_lines, as the lines it returns.
ReadLastLines(f) ==
  IF f = <<>> THEN {} ELSE LastOf(Readback, WholeFrom(f, ReadFrom(f)))

-----------------------------------------------------------------------------
(* upto is history: how far the connection has sent without a gap since it  *)
(* looked at the file first.                                                *)

Idle == [pc |-> "off", pos |-> 0, cur |-> 0, day |-> 0, upto |-> 0]

\* A page asks for the last lines and connects to the stream at once.  answer:
\* the lines on their way; text: what it shows of the file there is; late: the
\* stream had looked at the file before the lines were read; early: something
\* of the stream was shown before them; missed: history, the lines that were
\* written after a connection had sent its last and before the next looked.
NewLogPage == [lines |-> "asked", answer |-> {}, text |-> {}, late |-> FALSE, early |-> FALSE,
               missed |-> {}]

LogInit ==
  /\ file = <<>> /\ day = 1
  /\ tail = [c \in Tails |-> Idle]
  /\ logPage = [c \in Tails |-> NewLogPage]

LogTypeOK ==
  /\ file \in Seq(Lengths) /\ Len(file) <= MaxLines /\ day \in 1 .. MaxFiles
  /\ \A c \in Tails :
       /\ tail[c].pc \in {"off", "broken", "wait", "read"}
       /\ {tail[c].pos, tail[c].cur, tail[c].upto} \subseteq Nat
       /\ logPage[c].lines \in {"asked", "read", "shown"}
       /\ logPage[c].answer \cup logPage[c].text \cup logPage[c].missed \subseteq 1 .. MaxLines

Write ==
  /\ Len(file) < MaxLines
  /\ \E len \in Lengths : file' = Append(file, len)
  /\ UNCHANGED <<day, tail, logPage>>

\* What a page shows of the old file is not counted any more.
Rotate ==
  /\ day < MaxFiles
  /\ day' = day + 1 /\ file' = <<>>
  /\ logPage' = [c \in Tails |-> [logPage[c] EXCEPT !.answer = {}, !.text = {}, !.missed = {},
                                                    !.late = FALSE]]
  /\ UNCHANGED tail

\* Lines of f from one place to another.
Between(f, p, q) == {i \in DOMAIN f : StartOf(f, i) >= p /\ Ends(f)[i] <= q}

\* get_logs_stream, and the task's first look at the file: for a page that opens
\* or, once more, for one whose connection broke.
Connect(c) ==
  /\ tail[c].pc \in {"off", "broken"}
  /\ tail' = [tail EXCEPT ![c] = [Idle EXCEPT !.pc = "wait", !.pos = Size(file), !.day = day,
                                              !.upto = Size(file)]]
  /\ logPage' = [logPage EXCEPT ![c].missed =
                   IF tail[c].pc = "broken" /\ tail[c].day = day
                     THEN @ \cup Between(file, tail[c].upto, Size(file))
                     ELSE @]
  /\ UNCHANGED <<file, day>>

\* The connection breaks; a chunk on its way is one that was not read.  The
\* task ends with its next send.
BreakLog(c) ==
  /\ tail[c].pc \in {"wait", "read"}
  /\ tail' = [tail EXCEPT ![c].pc = "broken"]
  /\ UNCHANGED <<file, day, logPage>>

\* A tick: a shorter file only moves the position.
Tick(c) ==
  /\ tail[c].pc = "wait"
  /\ \/ /\ Size(file) < tail[c].pos
        /\ tail' = [tail EXCEPT ![c].pos = Size(file)]
     \/ /\ Size(file) > tail[c].pos
        /\ tail' = [tail EXCEPT ![c].pc = "read", ![c].cur = Size(file)]
  /\ UNCHANGED <<file, day, logPage>>

\* Mutant of Position: it moves although the file could not be read.
PositionAnyway(c, opened) == tail[c].cur

\* What the tick saw, once it has been read.
Position(c, opened) == IF opened THEN tail[c].cur ELSE tail[c].pos

LinesFrom(f, p) == {i \in DOMAIN f : StartOf(f, i) >= p}

\* The page appends what it is sent.
WithChunk(p, sent) ==
  [p EXCEPT !.text = @ \cup sent, !.early = @ \/ (sent # {} /\ p.lines # "shown")]

\* The file is opened, which may fail, and read from the position to its end,
\* which may have moved since the tick.
Read(c, opened) ==
  /\ tail[c].pc = "read"
  /\ LET t == tail[c]
         sent == IF t.day = day /\ opened THEN LinesFrom(file, t.pos) ELSE {} IN
     /\ tail' = [tail EXCEPT ![c].pc = "wait", ![c].pos = Position(c, opened),
                   ![c].upto = IF opened /\ t.pos <= @ /\ Size(file) > @ THEN Size(file) ELSE @]
     /\ logPage' = [logPage EXCEPT ![c] = WithChunk(@, sent)]
  /\ UNCHANGED <<file, day>>

\* get_logs, and the page when its answer arrives: the lines replace the text.
ReadLines(c) ==
  /\ logPage[c].lines = "asked"
  /\ logPage' = [logPage EXCEPT ![c].lines = "read", ![c].answer = ReadLastLines(file),
                 ![c].late = tail[c].pc # "off" /\ tail[c].day = day]
  /\ UNCHANGED <<file, day, tail>>

ShowLines(c) ==
  /\ logPage[c].lines = "read"
  /\ logPage' = [logPage EXCEPT ![c].lines = "shown", ![c].text = logPage[c].answer, ![c].answer = {}]
  /\ UNCHANGED <<file, day, tail>>

\* The page is closed; the next one starts over.
Disconnect(c) ==
  /\ tail[c].pc # "off"
  /\ tail' = [tail EXCEPT ![c] = Idle]
  /\ logPage' = [logPage EXCEPT ![c] = NewLogPage]
  /\ UNCHANGED <<file, day>>

LogNext ==
  \/ Write \/ Rotate
  \/ \E c \in Tails :
       \/ Connect(c) \/ Tick(c) \/ BreakLog(c) \/ Disconnect(c)
       \/ \E opened \in BOOLEAN : Read(c, opened)
       \/ ReadLines(c) \/ ShowLines(c)

LogSpec == LogInit /\ [][LogNext]_logVars

-----------------------------------------------------------------------------
(* Properties.                                                             *)

\* The page starts with exactly the last lines of the file, whole, wherever
\* the chunks happen to be cut (read_last_n_lines).
ReadbackIsTheTail ==
  ReadLastLines(file) = {i \in DOMAIN file : i + Readback > Len(file)}

\* As long as the file is not replaced, what is before the position of a
\* connection has been sent, so it skips no line, whatever is written between
\* the look at the length and the read and however often the read fails
\* (get_logs_stream).
NothingSkipped ==
  \A c \in Tails : tail[c].pc # "off" /\ tail[c].day = day => tail[c].pos <= tail[c].upto

\* A page whose stream looked at the file before its lines were read, and showed
\* them before anything of the stream, has no other gap than the lines written
\* while its connection was broken, after what the old one had sent and before
\* the new one looked: from its first line on it shows all the rest that the
\* stream has reached (LogsSection, connect_sse_with_status).
PageHasNoGap ==
  \A c \in Tails :
    LET p == logPage[c]
        t == tail[c] IN
    p.lines = "shown" /\ p.late /\ ~p.early /\ t.day = day =>
      \A i \in DOMAIN file :
        /\ (p.text = {} \/ \E j \in p.text : j < i)
        /\ StartOf(file, i) + file[i] <= t.upto
        => i \in p.text \cup p.missed

\* An administrator misses no line but those of a connection that was broken:
\* the page starts with the tail of the log and what is appended to the file it
\* opened reaches it.
LogIsWhole == ReadbackIsTheTail /\ NothingSkipped /\ PageHasNoGap

=============================================================================
