---------------------------- MODULE ProgressBoard ----------------------------
(***************************************************************************)
(* What a lifecycle command shows while it works (ui/progress, the lines   *)
(* of ui/render, lifecycle/planning/seed.rs, and the rows of cp,           *)
(* host_files/copy): on a terminal a region of rows repainted in place     *)
(* under the rows that are finished, anywhere else a log.                  *)
(*                                                                         *)
(* The command's services report from one task, one event at a time; the   *)
(* ticker that repaints, cp's counter and the handler of Ctrl-C are tasks  *)
(* of their own.  An event is recorded under the lock of the session and   *)
(* shown after it is released, and the others get in between.              *)
(*                                                                         *)
(* A line is what it is about, and not how it is worded, coloured or cut   *)
(* to the width; the screen is the lines written so far.                   *)
(***************************************************************************)
EXTENDS Naturals, Sequences, SequencesExt, FiniteSetsExt

CONSTANTS
    Displays,   \* [cmd, file, sink, height, boarded, jobs, cp, fails, attaches]
    TickCap,    \* bound: how often cp's counter is shown
    ScreenCap   \* bound: a tick that would make the screen longer is left out

VARIABLES
    show,       \* the command: one of Displays
    bstage,     \* where it is
    reported,   \* how many events of each job are recorded
    event,      \* the one that is recorded and not shown yet
    board,      \* the session's: [rows, flushed, tails, painted]
    installed,  \* SESSION holds it
    opened,     \* SESSION_OPEN
    buffered,   \* PLAIN_BUFFER
    screen,     \* the lines on stderr
    caret,      \* the terminal's cursor: "shown" or "hidden"
    ticker, emitter, \* the two tasks
    handler,    \* of Ctrl-C: "none", "spawned", "armed"
    signalled,  \* Ctrl-C was pressed
    told,       \* history: the events recorded, in order
    disturbed   \* history: something was written past the region, or it outgrew the terminal

boardVars == <<show, bstage, reported, event, board, installed, opened, buffered, screen,
               caret, ticker, emitter, handler, signalled, told, disturbed>>

-----------------------------------------------------------------------------
(* What a command is about to work through.  A file is [networks, volumes: *)
(* sequences of [name, external]; levels: of sequences of services; cyclic;*)
(* order: the services as written; enabled, targets; replicas, live: per   *)
(* service; images; missing].                                              *)

Owned(objects) == LET own == SelectSeq(objects, LAMBDA o : ~o.external)
                  IN  [i \in DOMAIN own |-> own[i].name]

network_resources(file) == Owned(file.networks)
volume_resources(file) == Owned(file.volumes)

Walk(file) == IF file.cyclic THEN file.order ELSE FlattenSeq(file.levels)

up_resources(file) ==
    LET touched == SelectSeq(Walk(file), LAMBDA s :
                      /\ file.targets = {} \/ s \in file.targets
                      /\ s \in file.enabled)
    IN  network_resources(file) \o volume_resources(file)
        \o FlattenSeq([i \in DOMAIN touched |-> file.replicas[touched[i]]])

level_container_resources(levels, live) ==
    FlattenSeq([i \in DOMAIN FlattenSeq(levels) |-> live[FlattenSeq(levels)[i]]])

down_resources(file, live, remove_volumes) ==
    live \o network_resources(file) \o (IF remove_volumes THEN volume_resources(file) ELSE <<>>)

run_resources(file) ==
    network_resources(file) \o (IF file.missing THEN file.images ELSE <<>>)

(* The seeds of each command; `up --build` puts the images first, and cp   *)
(* names its row after the destination.                                    *)
Seeds(s) ==
    CASE s.cmd = "up" -> up_resources(s.file)
      [] s.cmd = "up --build" -> s.file.images \o up_resources(s.file)
      [] s.cmd = "down" -> down_resources(s.file, level_container_resources(Reverse(s.file.levels), s.file.live), FALSE)
      [] s.cmd = "down -v" -> down_resources(s.file, level_container_resources(Reverse(s.file.levels), s.file.live), TRUE)
      [] s.cmd = "stop" -> level_container_resources(Reverse(s.file.levels), s.file.live)
      [] s.cmd = "run" -> run_resources(s.file)
      [] s.cmd \in {"pull", "build", "cp"} -> s.file.images

-----------------------------------------------------------------------------
(* Verbs *)

(* A present participle, but not Running or Missing, and not with a count  *)
(* after it.                                                               *)
is_transitional(verb) ==
    verb \in {"Creating", "Starting", "Stopping", "Removing", "Pulling", "Pushing", "Building", "Copying"}

is_noop_final(verb) == verb \in {"Exists", "Running", "Absent", "Skipped"}

(* The nouns a row can have: the pod's lines have none.                    *)
from_noun(r) == r # "pod"

progress_enabled == show.sink # "off"
live_terminal == show.sink = "terminal"

-----------------------------------------------------------------------------
(* The board: rows of [of, state, verb] *)

Row(r, state, verb) == [of |-> r, state |-> state, verb |-> verb]

NewBoard(resources) ==
    [rows |-> [i \in DOMAIN resources |-> Row(resources[i], "pending", "Pending")],
     flushed |-> 0, tails |-> [r \in {} |-> <<>>], painted |-> 0]

index_of(rows, r) == IF \E i \in DOMAIN rows : rows[i].of = r
                     THEN CHOOSE i \in DOMAIN rows : rows[i].of = r /\ \A j \in 1 .. i - 1 : rows[j].of # r
                     ELSE 0

(* A row that is finished works again, and one that was printed stays so.  *)
BoardStart(rows, r, verb) ==
    LET i == index_of(rows, r)
    IN  IF i = 0 THEN Append(rows, Row(r, "working", verb))
        ELSE [rows EXCEPT ![i] = Row(r, "working", verb)]

(* Before the anchor, wherever that is; a row further down is lifted.      *)
BoardStartBefore(rows, anchor, r, verb) ==
    LET a == IF index_of(rows, anchor) = 0 THEN Len(rows) + 1 ELSE index_of(rows, anchor)
        i == index_of(rows, r)
        rest == IF i = 0 THEN rows ELSE RemoveAt(rows, i)
        p == IF a > Len(rest) + 1 THEN Len(rest) + 1 ELSE a
    IN  IF i # 0 /\ i <= a THEN [rows EXCEPT ![i] = Row(r, "working", verb)]
        ELSE InsertAt(rest, p, Row(r, "working", verb))

BoardFinish(rows, r, verb) ==
    LET i == index_of(rows, r)
    IN  IF i = 0 THEN Append(rows, Row(r, "done", verb))
        ELSE [rows EXCEPT ![i] = Row(r, "done", verb)]

(* Mutant: every row that is finished is printed, with unfinished ones     *)
(* before it or not.                                                       *)
CompletedAnywhere(b) == Max({b.flushed} \cup {i \in b.flushed + 1 .. Len(b.rows) : b.rows[i].state = "done"})

(* How far the finished rows reach, from the first not printed yet.        *)
CompletedTo(b) ==
    Max({b.flushed} \cup {i \in b.flushed + 1 .. Len(b.rows) :
            \A j \in b.flushed + 1 .. i : b.rows[j].state = "done"})

-----------------------------------------------------------------------------
(* Lines *)

Line(what, r, verb, mark) == [what |-> what, of |-> r, verb |-> verb, mark |-> mark]
PlainLine(r, verb) == Line("line", r, verb, "")
NoteLine(r, text) == Line("note", r, text, "")
Summary == Line("summary", "", "", "")

marker(row) ==
    CASE row.state = "done" /\ row.verb = "Failed" -> "failed"
      [] row.state = "done" /\ row.verb # "Failed" -> "done"
      [] OTHER -> row.state

RowLine(row) == Line("row", row.of, row.verb, marker(row))

TailOf(b, r) == IF r \in DOMAIN b.tails THEN b.tails[r] ELSE <<>>

MaxNotesPerRow == 4
push_note_live(b, r, text) ==
    LET tail == Append(TailOf(b, r), NoteLine(r, text))
        kept == IF Len(tail) > MaxNotesPerRow THEN Tail(tail) ELSE tail
    IN  [b EXCEPT !.tails = [q \in DOMAIN b.tails \cup {r} |-> IF q = r THEN kept ELSE b.tails[q]]]

(* A summary, and each row that is not printed with its tail under it.     *)
LiveLines(b) ==
    IF b.flushed >= Len(b.rows) THEN <<>>
    ELSE <<Summary>> \o FlattenSeq([i \in 1 .. Len(b.rows) - b.flushed |->
            LET row == b.rows[b.flushed + i] IN <<RowLine(row)>> \o TailOf(b, row.of)])

-----------------------------------------------------------------------------
(* The region *)

(* The cursor goes up by as many lines as were painted, but never past the *)
(* top of the terminal, and what is below it is cleared.                   *)
WalkedBack(painted) ==
    LET n == IF painted > show.height - 1 THEN show.height - 1 ELSE painted
    IN  SubSeq(screen, 1, IF n > Len(screen) THEN 0 ELSE Len(screen) - n)

(* The rows finished are printed for good, and the rest painted anew.      *)
Repainted ==
    LET to == CompletedTo(board)
        b == [board EXCEPT !.flushed = to]
        live == LiveLines(b)
    IN  [board |-> [b EXCEPT !.painted = Len(live)],
         screen |-> WalkedBack(board.painted)
                    \o [i \in 1 .. to - board.flushed |-> RowLine(board.rows[board.flushed + i])]
                    \o live]

Outgrown(b) == b.painted > show.height - 1

repaint ==
    IF installed /\ live_terminal
    THEN /\ board' = Repainted.board /\ screen' = Repainted.screen
         /\ disturbed' = (disturbed \/ Outgrown(board'))
    ELSE UNCHANGED <<board, screen, disturbed>>

(* Lines written to stderr with no regard to a region that may be there.   *)
Written(lines) ==
    /\ screen' = screen \o lines
    /\ disturbed' = (disturbed \/ (lines # <<>> /\ installed /\ live_terminal))
    /\ UNCHANGED board

close_out ==
    /\ screen' = WalkedBack(board.painted)
    /\ caret' = "shown"

-----------------------------------------------------------------------------
(* Events *)

NoEvent == [of |-> "", verb |-> "", sink |-> "none", note |-> FALSE]
Event(r, verb, sink) == [of |-> r, verb |-> verb, sink |-> sink, note |-> FALSE]

Sink(there) == IF ~there THEN "none" ELSE IF live_terminal THEN "live" ELSE "plain"

Told(do, r, verb) == told' = Append(told, [do |-> do, of |-> r, verb |-> verb])

(* progress::start.                                                        *)
RowStarted(r, verb, rows) ==
    /\ board' = IF installed THEN [board EXCEPT !.rows = rows] ELSE board
    /\ Told("start", r, verb)

(* progress::finish: the tail goes with the row.                           *)
RowFinished(r, verb) ==
    /\ board' = IF installed /\ opened
                THEN [board EXCEPT !.rows = BoardFinish(board.rows, r, verb),
                                   !.tails = [q \in DOMAIN board.tails \ {r} |-> board.tails[q]]]
                ELSE board
    /\ Told("finish", r, verb)

(* Mutant: nothing is held back for a verb that ends the work.             *)
HeldForNone(r) == <<>>

HeldFor(r) == SelectSeq(buffered, LAMBDA l : l.of = r)
HeldForOthers(r) == SelectSeq(buffered, LAMBDA l : l.of # r)

(* sink::emit and the writing end of note_for.                             *)
emit(e) ==
    \/ e.sink = "live" /\ repaint /\ UNCHANGED buffered
    \/ e.sink # "live" /\ ~progress_enabled /\ UNCHANGED <<board, screen, disturbed, buffered>>
    \/ /\ e.sink # "live" /\ progress_enabled /\ e.note
       /\ Written(<<NoteLine(e.of, e.verb)>>) /\ UNCHANGED buffered
    \/ /\ e.sink # "live" /\ progress_enabled /\ ~e.note /\ is_transitional(e.verb)
       /\ buffered' = Append(HeldForOthers(e.of), PlainLine(e.of, e.verb))
       /\ UNCHANGED <<board, screen, disturbed>>
    \/ /\ e.sink # "live" /\ progress_enabled /\ ~e.note /\ ~is_transitional(e.verb)
       /\ Written((IF is_noop_final(e.verb) THEN <<>> ELSE HeldFor(e.of)) \o <<PlainLine(e.of, e.verb)>>)
       /\ buffered' = HeldForOthers(e.of)

-----------------------------------------------------------------------------
(* begin: the session, the flag, the first picture *)

NoEmitter == [state |-> "off", aborted |-> FALSE, wrote |-> FALSE, ticks |-> 0]

BoardInit ==
    /\ show \in Displays
    /\ bstage = IF show.boarded THEN "begin" ELSE "work"
    /\ reported = [j \in DOMAIN show.jobs |-> 0]
    /\ event = NoEvent
    /\ board = NewBoard(<<>>) /\ installed = FALSE /\ opened = FALSE
    /\ buffered = <<>> /\ screen = <<>> /\ caret = "shown"
    /\ ticker = "off" /\ handler = "none" /\ signalled = FALSE
    \* cp starts its counter before its board.
    /\ emitter = IF show.cp THEN [NoEmitter EXCEPT !.state = "idle"] ELSE NoEmitter
    /\ told = <<>> /\ disturbed = FALSE

BeginBoard ==
    /\ bstage = "begin"
    /\ IF progress_enabled
       THEN /\ board' = NewBoard(Seeds(show)) /\ installed' = TRUE
            /\ caret' = IF live_terminal THEN "hidden" ELSE caret
            /\ handler' = IF live_terminal THEN "spawned" ELSE handler
            /\ bstage' = "flag"
       ELSE bstage' = "work" /\ UNCHANGED <<board, installed, caret, handler>>
    /\ UNCHANGED <<show, reported, event, opened, buffered, screen, ticker, emitter,
                   signalled, told, disturbed>>

OpenFlag ==
    /\ bstage = "flag" /\ bstage' = "picture"
    /\ opened' = TRUE
    /\ ticker' = IF live_terminal THEN "on" ELSE ticker
    /\ UNCHANGED <<show, reported, event, board, installed, buffered, screen, caret, emitter,
                   handler, signalled, told, disturbed>>

FirstPicture ==
    /\ bstage = "picture" /\ bstage' = "work"
    /\ repaint
    /\ UNCHANGED <<show, reported, event, installed, opened, buffered, caret, ticker, emitter,
                   handler, signalled, told>>

-----------------------------------------------------------------------------
(* The work: the next event of a job.  The first job is done before the    *)
(* others, the services of a level, begin.                                 *)

Upcoming(j) == show.jobs[j][reported[j] + 1]

Report(j, do) ==
    /\ bstage = "work"
    /\ j = 1 \/ reported[1] = Len(show.jobs[1])
    /\ reported[j] < Len(show.jobs[j]) /\ Upcoming(j).do = do
    /\ reported' = [reported EXCEPT ![j] = @ + 1]
    /\ UNCHANGED <<show, installed, opened, caret, ticker, handler, signalled>>

Unshown == bstage' = "work" /\ UNCHANGED event

Start(j) ==
    /\ Report(j, "start") /\ UNCHANGED <<buffered, screen, emitter, disturbed>>
    /\ LET e == Upcoming(j) IN
       IF from_noun(e.of)
       THEN /\ RowStarted(e.of, e.verb, BoardStart(board.rows, e.of, e.verb))
            /\ event' = Event(e.of, e.verb, Sink(installed)) /\ bstage' = "emit"
       ELSE Unshown /\ UNCHANGED <<board, told>>

StartAnchored(j) ==
    /\ Report(j, "start before") /\ UNCHANGED <<buffered, screen, emitter, disturbed>>
    /\ LET e == Upcoming(j) IN
       /\ RowStarted(e.of, e.verb, BoardStartBefore(board.rows, e.anchor, e.of, e.verb))
       /\ event' = Event(e.of, e.verb, Sink(installed)) /\ bstage' = "emit"

(* progress_line: what is not a row is written whatever is on the screen.  *)
Finish(j) ==
    /\ Report(j, "finish") /\ UNCHANGED <<buffered, emitter>>
    /\ LET e == Upcoming(j) IN
       IF ~progress_enabled
       THEN Unshown /\ UNCHANGED <<board, screen, told, disturbed>>
       ELSE IF from_noun(e.of)
       THEN /\ RowFinished(e.of, e.verb)
            /\ event' = Event(e.of, e.verb, Sink(installed /\ opened)) /\ bstage' = "emit"
            /\ UNCHANGED <<screen, disturbed>>
       ELSE Written(<<PlainLine(e.of, e.verb)>>) /\ Unshown /\ UNCHANGED told

Note(j) ==
    /\ Report(j, "note") /\ UNCHANGED <<buffered, screen, emitter, told, disturbed>>
    /\ LET e == Upcoming(j) IN
       /\ board' = IF installed /\ live_terminal THEN push_note_live(board, e.of, e.verb) ELSE board
       /\ event' = [Event(e.of, e.verb, Sink(installed)) EXCEPT !.note = TRUE]
       /\ bstage' = "emit"

(* A warning of tracing's goes to stderr too.                              *)
Warn(j) ==
    /\ Report(j, "warn") /\ UNCHANGED <<buffered, emitter, told>>
    /\ Written(<<Line("warning", "", "", "")>>) /\ Unshown

(* Emitter::stop.                                                          *)
StopEmitter(j) ==
    /\ Report(j, "stop emitter") /\ UNCHANGED <<buffered, screen, disturbed>>
    /\ emitter' = [emitter EXCEPT !.aborted = TRUE, !.state = IF @ = "idle" THEN "off" ELSE @]
    /\ IF emitter.wrote THEN Unshown /\ UNCHANGED <<board, told>>
       ELSE LET e == Upcoming(j) IN
            /\ RowStarted(e.of, e.verb, BoardStart(board.rows, e.of, e.verb))
            /\ event' = Event(e.of, e.verb, Sink(installed)) /\ bstage' = "emit"

Emit ==
    /\ bstage = "emit" /\ bstage' = "work"
    /\ emit(event) /\ event' = NoEvent
    /\ UNCHANGED <<show, reported, installed, opened, caret, ticker, emitter, handler,
                   signalled, told>>

-----------------------------------------------------------------------------
(* end, and what comes after it *)

EndBoard ==
    /\ bstage = "work"
    /\ \A j \in DOMAIN show.jobs : reported[j] = Len(show.jobs[j])
    /\ opened' = (opened /\ ~show.boarded)
    /\ ticker' = IF show.boarded /\ opened /\ ticker = "on" THEN "aborted" ELSE ticker
    /\ bstage' = CASE show.boarded /\ opened  -> "close"
                   [] show.boarded /\ ~opened -> "drain"
                   [] OTHER                   -> "after"
    /\ UNCHANGED <<show, reported, event, board, installed, buffered, screen, caret, emitter,
                   handler, signalled, told, disturbed>>

(* The rows still in the region are erased with it.                        *)
CloseRegion ==
    /\ bstage = "close" /\ bstage' = "drain"
    /\ installed' = FALSE
    /\ IF live_terminal THEN close_out ELSE UNCHANGED <<screen, caret>>
    /\ UNCHANGED <<show, reported, event, board, opened, buffered, ticker, emitter, handler,
                   signalled, told, disturbed>>

Drain ==
    /\ bstage = "drain" /\ bstage' = "after"
    /\ Written(buffered) /\ buffered' = <<>>
    /\ UNCHANGED <<show, reported, event, installed, opened, caret, ticker, emitter, handler,
                   signalled, told>>

(* print_error writes out what is still buffered before the error.         *)
Return ==
    /\ bstage = "after"
    /\ IF show.fails
       THEN Written(Append(buffered, Line("error", "", "", ""))) /\ buffered' = <<>>
       ELSE UNCHANGED <<screen, buffered, board, disturbed>>
    /\ bstage' = IF show.attaches /\ ~show.fails THEN "attached" ELSE "over"
    /\ UNCHANGED <<show, reported, event, installed, opened, caret, ticker, emitter, handler,
                   signalled, told>>

-----------------------------------------------------------------------------
(* The other tasks *)

Still == UNCHANGED <<show, reported, event, installed, opened, buffered, caret, handler, signalled>>

(* Aborted, it may be half-way through a tick.                             *)
Tick ==
    /\ ticker # "off"
    /\ repaint /\ Len(screen') <= ScreenCap
    /\ ticker' = IF installed /\ ticker = "on" THEN "on" ELSE "off"
    /\ Still /\ UNCHANGED <<bstage, emitter, told>>

CopyRow == show.file.images[1]

EmitterRecords ==
    /\ emitter.state = "idle" /\ emitter.ticks < TickCap
    /\ RowStarted(CopyRow, "Copying 1B", BoardStart(board.rows, CopyRow, "Copying 1B"))
    /\ emitter' = [emitter EXCEPT !.state = Sink(installed), !.ticks = @ + 1]
    /\ Still /\ UNCHANGED <<bstage, screen, ticker, disturbed>>

EmitterEmits ==
    /\ emitter.state \in {"live", "plain", "none"}
    /\ emit(Event(CopyRow, "Copying 1B", emitter.state))
    /\ emitter' = [emitter EXCEPT !.wrote = TRUE, !.state = IF emitter.aborted THEN "off" ELSE "idle"]
    /\ UNCHANGED <<show, bstage, reported, event, installed, opened, caret, ticker, handler,
                   signalled, told>>

Alive == bstage \notin {"over", "interrupted", "killed"}

(* wait_for_interrupt, polled for the first time.                          *)
Arm ==
    /\ handler = "spawned" /\ Alive /\ handler' = "armed"
    /\ UNCHANGED <<show, bstage, reported, event, board, installed, opened, buffered, screen,
                   caret, ticker, emitter, signalled, told, disturbed>>

(* Ctrl-C.  Before anything listens to it, it is the end of the process.   *)
Interrupt ==
    /\ Alive /\ ~signalled
    /\ handler # "none" \/ bstage = "attached"
    /\ signalled' = TRUE
    /\ bstage' = IF handler # "armed" /\ bstage # "attached" THEN "killed" ELSE bstage
    /\ UNCHANGED <<show, reported, event, board, installed, opened, buffered, screen, caret,
                   ticker, emitter, handler, told, disturbed>>

(* restore_cursor_on_interrupt: exit 130, whatever the command is at.      *)
RestoreCursor ==
    /\ handler = "armed" /\ signalled /\ Alive
    /\ caret' = "shown" /\ bstage' = "interrupted"
    /\ UNCHANGED <<show, reported, event, board, installed, opened, buffered, screen, ticker,
                   emitter, handler, signalled, told, disturbed>>

(* An attached `up` stops its containers on Ctrl-C, or ends with them.     *)
AttachedInterrupt ==
    /\ bstage = "attached" /\ signalled /\ bstage' = "stopping"
    /\ UNCHANGED <<show, reported, event, board, installed, opened, buffered, screen, caret,
                   ticker, emitter, handler, signalled, told, disturbed>>

AttachedEnds ==
    /\ \/ bstage = "attached" /\ ~signalled
       \/ bstage = "stopping"
    /\ bstage' = "over"
    /\ UNCHANGED <<show, reported, event, board, installed, opened, buffered, screen, caret,
                   ticker, emitter, handler, signalled, told, disturbed>>

-----------------------------------------------------------------------------
BoardNext ==
    /\ Alive
    /\ \/ BeginBoard \/ OpenFlag \/ FirstPicture
       \/ \E j \in DOMAIN show.jobs :
             Start(j) \/ StartAnchored(j) \/ Finish(j) \/ Note(j) \/ Warn(j) \/ StopEmitter(j)
       \/ Emit \/ EndBoard \/ CloseRegion \/ Drain \/ Return
       \/ Tick \/ EmitterRecords \/ EmitterEmits
       \/ Arm \/ Interrupt \/ RestoreCursor \/ AttachedInterrupt \/ AttachedEnds
-----------------------------------------------------------------------------
(* What a log says about a resource is what the engine reported of it, in  *)
(* order: every state it reached, and the work on the way to it unless     *)
(* nothing was done or the next thing said is more work (output/sink.rs).  *)
(* What was still under way when the command failed is above its error.    *)
VerbsOf(lines, r) ==
    LET own == SelectSeq(lines, LAMBDA l : l.of = r) IN [i \in DOMAIN own |-> own[i].verb]

Lasting(verbs) ==
    {i \in DOMAIN verbs :
        \/ ~is_transitional(verbs[i])
        \/ i = Len(verbs) /\ (show.boarded \/ show.fails)
        \/ i < Len(verbs) /\ ~is_transitional(verbs[i + 1]) /\ ~is_noop_final(verbs[i + 1])}

LogTells ==
    bstage = "over" /\ show.sink = "pipe" /\ ~show.cp =>
        /\ \A i \in DOMAIN told :
              LET verbs == VerbsOf(told, told[i].of)
                  lasting == SetToSortSeq(Lasting(verbs), LAMBDA x, y : x < y)
              IN  VerbsOf(SelectSeq(screen, LAMBDA l : l.what = "line"), told[i].of)
                  = [n \in DOMAIN lasting |-> verbs[lasting[n]]]
        /\ show.fails => Last(screen).what = "error"

(* The counter of cp may be late, and still its row is closed once.        *)
CopyClosed ==
    bstage = "over" /\ show.sink = "pipe" /\ show.cp =>
        Cardinality({i \in DOMAIN screen : screen[i].verb \in {"Copied 1B", "Failed"}}) = 1

(* On a terminal nothing is on the screen twice, however the ticker and    *)
(* the events take turns, and when the board is closed what is left are    *)
(* finished rows in the order of the board, all of them if all finished    *)
(* (output/live.rs).                                                       *)
RowsOnScreen == SelectSeq(screen, LAMBDA l : l.what = "row")
Summaries == {i \in DOMAIN screen : screen[i].what = "summary"}
FinishesOf(r) == {told[i].verb : i \in {k \in DOMAIN told : told[k].of = r /\ told[k].do = "finish"}}
FinishedLast(r) ==
    LET own == SelectSeq(told, LAMBDA e : e.of = r) IN own # <<>> /\ Last(own).do = "finish"

ScreenSound ==
    live_terminal /\ show.boarded /\ ~disturbed =>
        /\ \A i, j \in DOMAIN RowsOnScreen : i # j => RowsOnScreen[i].of # RowsOnScreen[j].of
        /\ Summaries = IF installed /\ board.painted > 0 THEN {Len(screen) - board.painted + 1} ELSE {}
        /\ bstage \in {"drain", "after", "attached", "stopping", "over"} =>
             /\ \A i \in DOMAIN screen : screen[i].what \in {"row", "error"} \cup (IF show.cp THEN {"line"} ELSE {})
             /\ \A i \in DOMAIN RowsOnScreen : RowsOnScreen[i].verb \in FinishesOf(RowsOnScreen[i].of)
             /\ \A i, j \in DOMAIN RowsOnScreen : i < j =>
                    index_of(board.rows, RowsOnScreen[i].of) < index_of(board.rows, RowsOnScreen[j].of)
             /\ (\A i \in DOMAIN board.rows : FinishedLast(board.rows[i].of)) =>
                    Len(RowsOnScreen) = Len(board.rows)

(* The cursor is hidden while the region is there, and given back however  *)
(* the command ends, unless it is killed before it listens for that.       *)
CaretGiven ==
    /\ caret = "hidden" => installed /\ live_terminal
    /\ bstage \in {"over", "interrupted"} => caret = "shown"
    /\ bstage = "killed" => handler = "spawned"

(* The log or the screen tells what was reported, and the terminal is left  *)
(* as it was found (ui/progress).                                           *)
BoardFaithful == LogTells /\ CopyClosed /\ ScreenSound /\ CaretGiven

(* While an attached `up` handles Ctrl-C itself no other task ends the     *)
(* process on it (output/live.rs).  On a terminal this does not hold: the  *)
(* handler of the closed board is still there (README).                    *)
AttachedStops == bstage \in {"attached", "stopping"} => handler = "none"
=============================================================================
