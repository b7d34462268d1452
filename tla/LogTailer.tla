------------------------------ MODULE LogTailer ------------------------------
(***************************************************************************)
(* Reading a log file that grows, is rotated and truncated                 *)
(* (ban_attack/tailer.rs), for one path. The tailer polls: it looks at the *)
(* path, follows it to another file or back to the beginning, drains the   *)
(* files that were rotated away and reads on in the one at the path. The   *)
(* writer of the log and the rotation go on between the steps of a poll.   *)
(*                                                                         *)
(* A line is written in pieces: its body, and then its end. A body of two  *)
(* pieces is too long (max_line_bytes). No two lines are equal, and every  *)
(* truncation shows in the modification time, here the generation. The     *)
(* anchor, the last bytes read, is the last piece. Input/output errors     *)
(* other than those a step meets below are left out.                       *)
(***************************************************************************)
EXTENDS Naturals, FiniteSets, Sequences, SequencesExt

CONSTANTS
  MaxFiles,     \* bound: inodes, in the order in which the log is rotated through them
  MaxLine,      \* bound: lines written
  MaxTruncations, \* bound
  MaxBytes,     \* max_read_bytes_per_file_poll, in pieces
  MaxLines,     \* max_lines_per_file_poll
  Start,        \* start_at: "beginning" or "end"
  None

\* There is a log, and the limits are numbers.
ASSUME TailerAssumption ==
  /\ MaxFiles \in Nat \ {0} /\ MaxLine \in Nat /\ MaxTruncations \in Nat
  /\ MaxBytes \in Nat /\ MaxLines \in Nat
  /\ None \notin Nat

Files == 1..MaxFiles
RetiredIdlePolls == 2

VARIABLES
  text,        \* file -> its pieces
  generation,  \* file -> how often it was truncated
  path,        \* the file at the path, or None
  writer,      \* the file the writer has open
  line,        \* lines begun so far
  active, retired,   \* PathState; initialized is TRUE since sync comes before all polls
  poll,        \* the poll in progress
  delivered,   \* line -> how often it was returned as a line
  torn,        \* something was returned that is no line
  disorder     \* what the log did that may cost lines

vars == <<text, generation, path, writer, line, active, retired,
          poll, delivered, torn, disorder>>
logVars == <<text, generation, path, writer, line>>
tailerVars == <<active, retired, poll, delivered, torn>>

(* ------------------------------- the log ------------------------------- *)

Piece == [line : 1..MaxLine, end : BOOLEAN]
Body(n) == [line |-> n, end |-> FALSE]
End(n) == [line |-> n, end |-> TRUE]

Complete(n, f) == \E i \in DOMAIN text[f] : text[f][i] = End(n)
Long(n, f) == \E i, j \in DOMAIN text[f] : i < j /\ text[f][i] = Body(n) /\ text[f][j] = Body(n)
MidLine == text[writer] # <<>> /\ ~Last(text[writer]).end

HasOpen(f) == (active # None /\ active.file = f) \/ \E i \in DOMAIN retired : retired[i].file = f

Append1(piece) == text' = [text EXCEPT ![writer] = Append(@, piece)]

\* "skipped": lines the tailer does not open; "cut": truncated between polls;
\* "raced": truncated during a poll, or rotated before a poll has noticed.
Disorders == {"skipped", "cut", "raced"}
Happens(what, when) == disorder' = IF when THEN disorder \cup {what} ELSE disorder

\* A writer that still writes to a file that was given up is too slow.
WriterOutruns == Happens("skipped", writer # path /\ ~HasOpen(writer))

BeginLine ==
  /\ line < MaxLine /\ ~MidLine
  /\ line' = line + 1
  /\ Append1(Body(line + 1))
  /\ WriterOutruns
  /\ UNCHANGED <<generation, path, writer>> /\ UNCHANGED tailerVars

MoreOfLine ==
  /\ MidLine /\ ~Long(line, writer)
  /\ Append1(Body(line))
  /\ WriterOutruns
  /\ UNCHANGED <<generation, path, writer, line>> /\ UNCHANGED tailerVars

EndLine ==
  /\ MidLine
  /\ Append1(End(line))
  /\ WriterOutruns
  /\ UNCHANGED <<generation, path, writer, line>> /\ UNCHANGED tailerVars

\* The log is renamed, or removed. The writer goes on in the old file until it reopens.
Rotate ==
  /\ path # None /\ path = writer
  /\ path + 1 \in Files
  /\ path' = None
  /\ disorder' = disorder
       \cup (IF HasOpen(path) THEN {} ELSE {"skipped"})
       \cup (IF HasOpen(path) /\ active.gen # generation[path] THEN {"raced"} ELSE {})
  /\ UNCHANGED <<text, generation, writer, line>> /\ UNCHANGED tailerVars

\* Its successor is created: by the rotation, or by the writer that reopens.
CreateLog ==
  /\ path = None
  /\ path' = writer + 1
  /\ UNCHANGED <<text, generation, writer, line, disorder>> /\ UNCHANGED tailerVars

Reopen ==
  /\ path \notin {None, writer} /\ ~MidLine
  /\ writer' = path
  /\ UNCHANGED <<text, generation, path, line, disorder>> /\ UNCHANGED tailerVars

\* copytruncate, between two lines: what was not read by then is gone.
Truncate ==
  /\ path = writer /\ text[path] # <<>> /\ ~MidLine
  /\ generation[path] < MaxTruncations
  /\ text' = [text EXCEPT ![path] = <<>>]
  /\ generation' = [generation EXCEPT ![path] = @ + 1]
  /\ disorder' = disorder \cup {IF poll = None THEN "cut" ELSE "raced"}
  /\ UNCHANGED <<path, writer, line>> /\ UNCHANGED tailerVars

(* ------------------------------ open files ----------------------------- *)

AnchorAt(f, offset) == IF offset = 0 THEN None ELSE text[f][offset]

Opened(f, start) ==
  LET at == IF start = "end" THEN Len(text[f]) ELSE 0
  IN [file |-> f, offset |-> at, pending |-> <<>>, anchor |-> AnchorAt(f, at),
      len |-> Len(text[f]), gen |-> generation[f], idle |-> 0, discarding |-> FALSE]

Reset(o, meta) ==
  [o EXCEPT !.offset = 0, !.pending = <<>>, !.anchor = None,
            !.len = meta.len, !.gen = meta.gen, !.idle = 0, !.discarding = FALSE]

\* Mutation: the anchor is not looked at.
WasTruncated(o, meta) == meta.len < o.offset

WasRewritten(o, meta) ==
  \/ meta.len < o.offset
  \/ /\ meta.len # o.len \/ meta.gen # o.gen
     /\ o.anchor # None
     /\ o.offset > Len(text[o.file]) \/ AnchorAt(o.file, o.offset) # o.anchor

\* One piece read: it ends the pending line, extends it, or is part of one too long.
Take(r, piece) ==
  LET o == [r.open EXCEPT !.offset = @ + 1]
  IN CASE Len(r.lines) >= MaxLines -> r
       [] Len(r.lines) < MaxLines /\ o.discarding ->
            [r EXCEPT !.open = [o EXCEPT !.discarding = ~piece.end], !.left = @ - 1]
       [] Len(r.lines) < MaxLines /\ ~o.discarding /\ piece.end ->
            [r EXCEPT !.open = [o EXCEPT !.pending = <<>>], !.left = @ - 1,
                      !.lines = Append(@, Append(o.pending, piece))]
       [] Len(r.lines) < MaxLines /\ ~o.discarding /\ ~piece.end /\ o.pending = <<>> ->
            [r EXCEPT !.open = [o EXCEPT !.pending = <<piece>>], !.left = @ - 1]
       [] OTHER ->
            [r EXCEPT !.open = [o EXCEPT !.pending = <<>>, !.discarding = TRUE], !.left = @ - 1]

Unread(o) == SubSeq(text[o.file], o.offset + 1, Len(text[o.file]))

\* The lines of a poll so far, the bytes it may still read, and the file it reads in.
ReadOn(o, lines, left) ==
  LET pieces == SubSeq(Unread(o), 1, IF left < Len(Unread(o)) THEN left ELSE Len(Unread(o)))
  IN FoldLeft(Take, [open |-> o, lines |-> lines, left |-> left], pieces)

\* The metadata and the anchor, read after the pieces were.
Noted(o) ==
  [o EXCEPT !.len = Len(text[o.file]), !.gen = generation[o.file],
            !.anchor = AnchorAt(o.file, o.offset)]

(* -------------------------------- a poll ------------------------------- *)

At(step) == poll # None /\ poll.step = step

Stat ==
  /\ poll = None
  /\ poll' = [step |-> "follow", file |-> path, lines |-> <<>>, left |-> MaxBytes,
              meta |-> IF path = None THEN [len |-> 0, gen |-> 0]
                       ELSE [len |-> Len(text[path]), gen |-> generation[path]]]
  /\ UNCHANGED <<active, retired, delivered, torn, disorder>>
  /\ UNCHANGED logVars

\* Mutation: what is left in the old file is not read.
RetireNothing == retired

Retire == IF active = None THEN retired ELSE Append(retired, active)

\* The path is gone, or leads elsewhere than before, or its file was rewritten.
Follow ==
  /\ At("follow")
  /\ LET same == active # None /\ active.file = poll.file
     IN CASE poll.file = None ->
               active' = None /\ retired' = Retire
          [] poll.file # None /\ same ->
               /\ active' = IF WasRewritten(active, poll.meta) THEN Reset(active, poll.meta)
                            ELSE active
               /\ UNCHANGED <<retired>>
          [] poll.file # None /\ ~same /\ path # None ->
               active' = Opened(path, "beginning") /\ retired' = Retire
          [] OTHER ->   \* it has vanished since: the poll ends with an error
               active' = None /\ retired' = Retire
  /\ poll' = IF poll.file # None /\ path = None /\ active' = None THEN None
             ELSE [poll EXCEPT !.step = "drain", !.file = None, !.meta = None]
  /\ UNCHANGED <<delivered, torn, disorder>> /\ UNCHANGED logVars

\* Mutation: one idle poll too many.
GivenUpLate(o) == o.idle > RetiredIdlePolls

GivenUp(o) == o.idle >= RetiredIdlePolls

\* A rotated file: read on unless the poll has had its share, and given up when it was
\* idle twice, with the incomplete line it may end in.
Drain(r, o) ==
  IF r.left = 0 \/ Len(r.lines) >= MaxLines
  THEN [r EXCEPT !.kept = Append(@, o)]
  ELSE LET read == ReadOn(o, r.lines, r.left)
           some == Unread(o) # <<>>
           now == [IF some THEN Noted(read.open) ELSE o
                     EXCEPT !.idle = IF some THEN 0 ELSE @ + 1]
       IN [lines |-> IF GivenUp(now) /\ now.pending # <<>>
                     THEN Append(read.lines, now.pending) ELSE read.lines,
           left |-> read.left,
           kept |-> IF GivenUp(now) THEN r.kept ELSE Append(r.kept, now)]

DrainRetired ==
  /\ At("drain")
  /\ LET r == FoldLeft(Drain, [lines |-> poll.lines, left |-> poll.left, kept |-> <<>>],
                       retired)
     IN /\ retired' = r.kept
        /\ poll' = [poll EXCEPT !.step = "read", !.lines = r.lines, !.left = r.left]
  /\ UNCHANGED <<active, delivered, torn, disorder>> /\ UNCHANGED logVars

Skips == active = None \/ poll.left = 0 \/ Len(poll.lines) >= MaxLines

ReadActive ==
  /\ At("read") /\ ~Skips
  /\ LET read == ReadOn(active, poll.lines, poll.left)
     IN /\ active' = read.open
        /\ poll' = [poll EXCEPT !.step = IF Unread(active) = <<>> THEN "stat" ELSE "anchor",
                                !.lines = read.lines, !.left = read.left]
  /\ UNCHANGED <<retired, delivered, torn, disorder>> /\ UNCHANGED logVars

WholeLine(l) == \E n \in 1..MaxLine : l = <<Body(n), End(n)>>
Counted(l, n) == WholeLine(l) /\ l[1] = Body(n)

\* The lines are returned. An incomplete line at the end of a rotated file is one of them.
Return ==
  /\ poll' = None
  /\ delivered' = [n \in 1..MaxLine |->
       delivered[n] + Cardinality({i \in DOMAIN poll.lines : Counted(poll.lines[i], n)})]
  /\ torn' = (torn \/ \E i \in DOMAIN poll.lines :
                ~WholeLine(poll.lines[i]) /\ Last(poll.lines[i]).end)
  /\ UNCHANGED <<retired, disorder>> /\ UNCHANGED logVars

NothingToRead == At("read") /\ Skips /\ Return /\ UNCHANGED active

NoteMetadata ==
  /\ At("stat")
  /\ active' = [active EXCEPT !.len = Len(text[active.file]), !.gen = generation[active.file]]
  /\ Return

\* When the file has become shorter the anchor cannot be read: the lines are lost.
NoteAnchor ==
  /\ At("anchor")
  /\ IF active.offset <= Len(text[active.file])
     THEN active' = Noted(active) /\ Return
     ELSE /\ active' = [active EXCEPT !.len = Len(text[active.file]),
                                      !.gen = generation[active.file]]
          /\ poll' = None
          /\ UNCHANGED <<retired, delivered, torn, disorder>>
          /\ UNCHANGED logVars

\* sync, at an update of the rules between polls: a path without a file is opened where
\* the configuration says, which skips what a rotation has left there in the meantime.
Sync ==
  /\ poll = None /\ active = None
  /\ path # None
  /\ active' = Opened(path, Start)
  /\ Happens("skipped", Start = "end" /\ text[path] # <<>>)
  /\ UNCHANGED <<retired, poll, delivered, torn>> /\ UNCHANGED logVars

(* ---------------------------- specification ---------------------------- *)

Init ==
  /\ text = [f \in Files |-> <<>>] /\ generation = [f \in Files |-> 0]
  /\ path = 1 /\ writer = 1 /\ line = 0
  /\ active \in {None, Opened(1, Start)} /\ retired = <<>>
  /\ poll = None
  /\ delivered = [n \in 1..MaxLine |-> 0] /\ torn = FALSE
  /\ disorder = {}

Log == BeginLine \/ MoreOfLine \/ EndLine \/ Rotate \/ CreateLog \/ Reopen \/ Truncate

Poll ==
  \/ Stat \/ Follow \/ DrainRetired \/ ReadActive \/ NothingToRead
  \/ NoteMetadata \/ NoteAnchor

Next == Log \/ Poll \/ Sync

\* The worker polls again and again, and every poll ends; nothing is assumed of the log.
\* As Poll is always enabled, that is weak fairness of Poll.
Fairness == []<>(poll = None) /\ []<>(poll # None)

Spec == Init /\ [][Next]_vars /\ Fairness

(* ----------------------------- properties ------------------------------ *)

\* What may be pending: the body of a line that has not ended.
Pending == {<<>>} \cup {<<Body(n)>> : n \in 1..MaxLine}

OpenFile ==
  [file : Files, offset : Nat, pending : Pending, anchor : Piece \cup {None},
   len : Nat, gen : 0..MaxTruncations, idle : 0..RetiredIdlePolls, discarding : BOOLEAN]

Metadata == [len : Nat, gen : 0..MaxTruncations]

PollState ==
  [step : {"follow", "drain", "read", "stat", "anchor"}, file : Files \cup {None},
   lines : Seq(Seq(Piece)), left : Nat, meta : Metadata \cup {None}]

\* None is no value of the tailer's.
ASSUME NoneAssumption ==
  None \notin Piece /\ None \notin OpenFile /\ None \notin Metadata /\ None \notin PollState

\* The state has its type, and no file is open twice.
TypeOK ==
  /\ text \in [Files -> Seq(Piece)] /\ generation \in [Files -> 0..MaxTruncations]
  /\ path \in Files \cup {None} /\ writer \in Files /\ line \in 0..MaxLine
  /\ active \in OpenFile \cup {None} /\ poll \in PollState \cup {None}
  /\ retired \in Seq(OpenFile)
  /\ \A i \in DOMAIN retired : retired[i].idle < RetiredIdlePolls
  /\ \A i, j \in DOMAIN retired : retired[i].file = retired[j].file => i = j
  /\ active # None => \A i \in DOMAIN retired : retired[i].file # active.file
  /\ delivered \in [1..MaxLine -> Nat] /\ torn \in BOOLEAN
  /\ disorder \subseteq Disorders

\* No line is read twice, whatever the log does at whatever moment of a poll: not when
\* its file is rotated, nor when it is truncated and written anew (tailer.rs, the test
\* detects_truncate_and_rewrite_without_replaying_old_bytes). And what is returned are
\* lines, none is put together from pieces of two: not when the log is rotated in the
\* middle of one, nor when it is truncated between two polls.
LinesReadOnce ==
  /\ \A n \in 1..MaxLine : delivered[n] <= 1
  /\ disorder \subseteq {"cut"} => ~torn

\* Every line arrives that is not too long: rotation loses none, unless it outruns the
\* tailer, and the limits of a poll leave the rest for the next (tailer.rs, the test
\* line_limit_preserves_backlog_instead_of_dropping_it).
LinesArrive ==
  \A n \in 1..MaxLine :
    (\E f \in Files : Complete(n, f) /\ ~Long(n, f))
      ~> (delivered[n] > 0 \/ disorder # {})

=============================================================================
