---------------------------- MODULE ExecSession ----------------------------
(***************************************************************************)
(* `exec`: a session made, started and pumped, and its exit status read    *)
(* (observe/query/session/exec, observe/terminal/pump.rs, hijack.rs).      *)
(*                                                                         *)
(* The session is one connection that carries input one way and output the *)
(* other.  With a pipe on stdin the two halves are pumped side by side,    *)
(* with a terminal they take turns in one loop.                            *)
(***************************************************************************)
EXTENDS Naturals, Sequences, SequencesExt

CONSTANTS
    Execs,      \* the commands: [argv, service, detach, noTty, stdin, stdout, user, input, ends, program, code, trouble]
    PipeCap     \* how many chunks either direction of the connection holds

ASSUME ExecAssumption ==
    /\ PipeCap \in Nat
    /\ \A x \in Execs : x.input \in Nat /\ x.code \in Nat /\ x.program \in {"filter", "printer"}

VARIABLES
    xjob, xphase, xresult,
    lost,       \* whether the create lost its answer once
    handles,    \* the sessions Podman holds, started or not
    ran,        \* how many of them were started
    command,    \* the command in the container: [state, read, wrote, code]
    given,      \* chunks taken from the caller's stdin
    hand,       \* the input half: "free", "full" while it writes, "closed"
    inq, ineof, \* the way in
    outq,       \* the way out
    held,       \* whether a part of a frame is buffered
    printed,    \* what the caller saw
    severed, xfault

execVars == <<xjob, xphase, xresult, lost, handles, ran, command, given, hand, inq, ineof,
              outq, held, printed, severed, xfault>>

NoCommand == [state |-> "none", read |-> 0, wrote |-> <<>>, code |-> 0]

ExecInit ==
    /\ xjob \in Execs
    /\ xphase = "target" /\ xresult = "none"
    /\ lost = FALSE /\ handles = 0 /\ ran = 0 /\ command = NoCommand
    /\ given = 0 /\ hand = "free" /\ inq = <<>> /\ ineof = FALSE
    /\ outq = <<>> /\ held = FALSE /\ printed = <<>> /\ severed = FALSE /\ xfault = FALSE

-----------------------------------------------------------------------------
(* How the session is to run *)

(* wants_interactive, stdout_is_terminal                                   *)
Interactive == ~xjob.noTty /\ ~xjob.detach /\ xjob.stdin = "terminal" /\ xjob.stdout = "terminal"
(* wants_stdin                                                             *)
WantsStdin == ~xjob.detach /\ xjob.stdin # "terminal"

Mode == CASE xjob.detach -> "detach"
          [] Interactive -> "terminal"
          [] WantsStdin  -> "piped"
          [] OTHER       -> "plain"
Attached == Mode \in {"terminal", "piped"}

EndExec(r) == xphase' = "done" /\ xresult' = r
SessionOnly == UNCHANGED <<command, given, hand, inq, ineof, outq, held, printed, severed>>

(* Nothing to run, no such service, no replica of that index, or the       *)
(* listing failed.                                                         *)
TargetMissing ==
    /\ xphase = "target"
    /\ EndExec("refused") /\ xfault' = TRUE
    /\ UNCHANGED <<xjob, lost, handles, ran>> /\ SessionOnly

TargetFound ==
    /\ xphase = "target" /\ xjob.argv /\ xjob.service
    /\ xphase' = "create"
    /\ UNCHANGED <<xjob, xresult, lost, handles, ran, xfault>> /\ SessionOnly

(* A create whose answer was lost is sent once more: a session nobody      *)
(* starts does nothing.                                                    *)
CreateExec ==
    /\ xphase = "create"
    /\ \E answer \in {"made", "lost", "made_lost", "not_running", "error"} :
         /\ handles' = handles + (IF answer \in {"made", "made_lost"} THEN 1 ELSE 0)
         /\ xfault' = (xfault \/ answer # "made")
         /\ \/ answer = "made" /\ xphase' = "start" /\ UNCHANGED <<lost, xresult>>
            \/ answer \in {"lost", "made_lost"} /\ ~lost /\ lost' = TRUE /\ UNCHANGED <<xphase, xresult>>
            \/ answer \in {"lost", "made_lost"} /\ lost /\ EndExec("error") /\ UNCHANGED lost
            \/ answer = "not_running" /\ EndExec("not_running") /\ UNCHANGED lost
            \/ answer = "error" /\ EndExec("error") /\ UNCHANGED lost
    /\ UNCHANGED <<xjob, ran>> /\ SessionOnly

Begin == command' = [command EXCEPT !.state = "running", !.code = xjob.code]

(* A start that is accepted: drain_stdin throws away what was typed before *)
(* the terminal went raw.                                                  *)
StartExec ==
    /\ xphase = "start"
    /\ Begin /\ ran' = ran + 1
    /\ IF Mode = "detach" THEN EndExec("ok") ELSE xphase' = "pump" /\ UNCHANGED xresult
    /\ given' \in (IF Mode = "terminal" THEN 0 .. xjob.input ELSE {0})
    /\ UNCHANGED <<xjob, lost, handles, hand, inq, ineof, outq, held, printed, severed, xfault>>

(* Refused, no head in time, or the connection lost, with the command      *)
(* started or not.  For a start that timed out with an account or a        *)
(* directory asked for, the message names it.                              *)
StartResult(how) == IF how = "timeout" THEN "no_start" ELSE "error"

StartFails ==
    /\ xphase = "start"
    /\ \E how \in {"refused", "timeout", "lost"}, begun \in BOOLEAN :
         /\ how = "refused" => ~begun
         /\ IF begun THEN Begin /\ ran' = ran + 1 ELSE UNCHANGED <<command, ran>>
         /\ EndExec(StartResult(how))
    /\ xfault' = TRUE
    /\ UNCHANGED <<xjob, lost, handles, given, hand, inq, ineof, outq, held, printed, severed>>

-----------------------------------------------------------------------------
(* The other end of the session *)

Pumping == xphase = "pump"
Running == command.state = "running"
SessionOpen == {"eof", "reset"} \cap ToSet(outq) = {}
Room == Len(outq) < PipeCap /\ SessionOpen
EndOnly == UNCHANGED <<xjob, xphase, xresult, lost, handles, ran, given, hand, held, printed>>

(* A filter: it answers each chunk, and ends when its input does.          *)
CommandAnswers ==
    /\ Pumping /\ Running /\ xjob.program = "filter" /\ inq # <<>> /\ Room
    /\ inq' = Tail(inq) /\ outq' = Append(outq, "text")
    /\ command' = [command EXCEPT !.read = @ + 1, !.wrote = Append(@, "text")]
    /\ EndOnly /\ UNCHANGED <<ineof, severed, xfault>>

(* A program that reads nothing and writes two lines.                      *)
CommandPrints ==
    /\ Pumping /\ Running /\ xjob.program = "printer" /\ Len(command.wrote) < 2 /\ Room
    /\ outq' = Append(outq, "text")
    /\ command' = [command EXCEPT !.wrote = Append(@, "text")]
    /\ EndOnly /\ UNCHANGED <<inq, ineof, severed, xfault>>

CommandExits ==
    /\ Pumping /\ Running
    /\ CASE xjob.program = "printer" -> Len(command.wrote) = 2
         [] xjob.program = "filter"  -> inq = <<>> /\ (ineof \/ ~Attached)
    /\ command' = [command EXCEPT !.state = "exited"]
    /\ EndOnly /\ UNCHANGED <<inq, ineof, outq, severed, xfault>>

(* Its container is stopped under it.                                      *)
CommandKilled ==
    /\ Pumping /\ Running /\ xjob.trouble
    /\ command' = [command EXCEPT !.state = "exited", !.code = 137]
    /\ xfault' = TRUE
    /\ EndOnly /\ UNCHANGED <<inq, ineof, outq, severed>>

(* After the command the connection closes, with podman's complaint about  *)
(* its own socket before that when input was left.                         *)
SessionCloses ==
    /\ Pumping /\ command.state = "exited" /\ SessionOpen
    /\ \/ outq' = Append(outq, "eof")
       \/ /\ Mode # "terminal" /\ (inq # <<>> \/ ~ineof)
          /\ outq' = outq \o <<"noise", "eof">>
    /\ EndOnly /\ UNCHANGED <<command, inq, ineof, severed, xfault>>

(* Podman goes away: between frames, inside one, or with a reset.          *)
SessionSevered ==
    /\ Pumping /\ SessionOpen /\ xjob.trouble
    /\ \/ outq' = Append(outq, "eof")
       \/ outq' = Append(outq, "reset")
       \/ Mode # "terminal" /\ outq' = outq \o <<"part", "eof">>
    /\ severed' = TRUE /\ xfault' = TRUE
    /\ EndOnly /\ UNCHANGED <<command, inq, ineof>>

-----------------------------------------------------------------------------
(* pump_piped, pump_terminal: the way in *)

InputOnly == UNCHANGED <<xjob, xresult, lost, handles, ran, command, outq, held, printed, severed>>

TakeInput ==
    /\ Pumping /\ Attached /\ hand = "free" /\ given < xjob.input
    /\ given' = given + 1 /\ hand' = "full"
    /\ InputOnly /\ UNCHANGED <<xphase, inq, ineof, xfault>>

WriteInput ==
    /\ Pumping /\ hand = "full" /\ Len(inq) < PipeCap /\ Running /\ SessionOpen
    /\ inq' = Append(inq, "text") /\ hand' = "free"
    /\ InputOnly /\ UNCHANGED <<xphase, given, ineof, xfault>>

(* The command no longer reads: with a pipe its output is still wanted, a  *)
(* terminal session is over.                                               *)
WriteInputFails ==
    /\ Pumping /\ hand = "full" /\ ~(Running /\ SessionOpen)
    /\ hand' = "closed"
    /\ xphase' = IF Mode = "terminal" THEN "status" ELSE xphase
    /\ InputOnly /\ UNCHANGED <<given, inq, ineof, xfault>>

(* The end of the caller's input closes the half that writes.  A terminal  *)
(* that cannot be read ends the session instead.                           *)
EndInput ==
    /\ Pumping /\ Attached /\ hand = "free" /\ given = xjob.input /\ xjob.ends \in {"eof", "error"}
    /\ hand' = "closed"
    /\ xfault' = (xfault \/ xjob.ends = "error")
    /\ IF Mode = "terminal" /\ xjob.ends = "error"
       THEN xphase' = "status" /\ UNCHANGED ineof
       ELSE ineof' = TRUE /\ UNCHANGED xphase
    /\ InputOnly /\ UNCHANGED <<given, inq>>

-----------------------------------------------------------------------------
(* The way out *)

(* A turn of the terminal's loop that writes input does nothing else.      *)
Listening == Pumping /\ outq # <<>> /\ (Mode = "terminal" => hand # "full")
(* With a pipe an output that is gone is an error, without one it is not.  *)
Shows == xjob.stdout # "gone" \/ Mode = "plain"
Hides(frame) == frame = "noise" \/ xjob.stdout = "gone"

OutputOnly == UNCHANGED <<xjob, lost, handles, ran, command, given, hand, inq, ineof, severed, xfault>>

(* frame_action, write_exec_frame                                          *)
ShowOutput ==
    /\ Listening /\ Head(outq) \in {"text", "noise"} /\ (Shows \/ Head(outq) = "noise")
    /\ printed' = IF Hides(Head(outq)) THEN printed ELSE Append(printed, Head(outq))
    /\ outq' = Tail(outq)
    /\ OutputOnly /\ UNCHANGED <<xphase, xresult, held>>

ShowOutputFails ==
    /\ Listening /\ Head(outq) = "text" /\ ~Shows
    /\ EndExec("error")
    /\ OutputOnly /\ UNCHANGED <<outq, held, printed>>

HoldPart ==
    /\ Listening /\ Head(outq) = "part"
    /\ held' = TRUE /\ outq' = Tail(outq)
    /\ OutputOnly /\ UNCHANGED <<xphase, xresult, printed>>

(* The connection ended: in the middle of a frame it is an error.          *)
OutputEnds ==
    /\ Listening /\ Head(outq) = "eof"
    /\ IF held THEN EndExec("error") ELSE xphase' = "status" /\ UNCHANGED xresult
    /\ OutputOnly /\ UNCHANGED <<outq, held, printed>>

OutputReset ==
    /\ Listening /\ Head(outq) = "reset"
    /\ IF Mode = "terminal" THEN xphase' = "status" /\ UNCHANGED xresult ELSE EndExec("error")
    /\ OutputOnly /\ UNCHANGED <<outq, held, printed>>

(* With the status never read.                                             *)
StatusUnread == "ok"
(* exec_exit_status: a session that still runs has no code yet.            *)
ExitStatus == IF command.state = "exited" /\ command.code # 0 THEN "exit_code" ELSE "ok"

ReadStatus ==
    /\ xphase = "status"
    /\ \E answered \in BOOLEAN :
         /\ EndExec(IF answered THEN ExitStatus ELSE "error")
         /\ xfault' = (xfault \/ ~answered)
    /\ UNCHANGED <<xjob, lost, handles, ran>> /\ SessionOnly

ExecNext ==
    \/ TargetMissing \/ TargetFound \/ CreateExec \/ StartExec \/ StartFails
    \/ CommandAnswers \/ CommandPrints \/ CommandExits \/ CommandKilled
    \/ SessionCloses \/ SessionSevered
    \/ TakeInput \/ WriteInput \/ WriteInputFails \/ EndInput
    \/ ShowOutput \/ ShowOutputFails \/ HoldPart \/ OutputEnds \/ OutputReset \/ ReadStatus

ExecDone == xphase = "done"

(* The terminal's loop waits for room on the way in, the command for room  *)
(* on the way out: with a pipe this cannot happen (the deadlock check).    *)
TerminalStuck ==
    /\ Pumping /\ Mode = "terminal" /\ hand = "full"
    /\ Len(inq) = PipeCap /\ Len(outq) >= PipeCap /\ Running

-----------------------------------------------------------------------------
(* Properties *)

(* The command is run at most once, though a create whose answer was lost  *)
(* is sent again and leaves two sessions, and not at all when the command  *)
(* line was refused or the container did not run.                          *)
RunsOnce == ran <= 1 /\ (xresult \in {"refused", "not_running"} => ran = 0)

Seen == xjob.stdout = "gone" \/ printed = command.wrote

(* Success means the command was started and, when it was attached, ended  *)
(* with zero and all of its output seen; an exit code is the command's     *)
(* own.  With no failure on the way the result is the command's and a      *)
(* filter behind a pipe got all of the input.  Three cases are taken for   *)
(* the end of a session all the same (README): a connection closed between *)
(* two frames, a terminal that cannot be read, and one typed into when the *)
(* command ends, whose last output is not read.                            *)
ExecReports ==
    ExecDone =>
        /\ xresult = "ok" /\ Mode # "detach" /\ ~severed /\ ~(Mode = "terminal" /\ xjob.ends = "error") =>
              ran = 1 /\ command.state = "exited" /\ command.code = 0
              /\ (Seen \/ (Mode = "terminal" /\ hand = "closed"))
        /\ xresult = "ok" => ran = 1
        /\ xresult = "exit_code" => command.state = "exited" /\ command.code # 0
        /\ ~xfault /\ xjob.stdout # "gone" =>
              /\ xresult = IF Mode = "detach" \/ command.code = 0 THEN "ok" ELSE "exit_code"
              /\ xjob.program = "filter" /\ Mode = "piped" => command.read = xjob.input

(* A command is executed once, and its exit code is its own (session/exec).*)
ExecFaithful == RunsOnce /\ ExecReports

-----------------------------------------------------------------------------
(* Why: the inductive invariant *)

ExecSpec == ExecInit /\ [][ExecNext]_execVars

Chunks == {"text", "noise", "part", "eof", "reset"}

ExecTypeOK ==
    /\ xjob \in Execs
    /\ xphase \in {"target", "create", "start", "pump", "status", "done"}
    /\ xresult \in {"none", "refused", "not_running", "no_start", "error", "ok", "exit_code"}
    /\ ran \in Nat /\ given \in Nat /\ hand \in {"free", "full", "closed"}
    /\ command \in [state : {"none", "running", "exited"}, read : Nat, wrote : Seq({"text"}), code : Nat]
    /\ inq \in Seq({"text"}) /\ outq \in Seq(Chunks) /\ printed \in Seq({"text"})
    /\ lost \in BOOLEAN /\ ineof \in BOOLEAN /\ held \in BOOLEAN /\ severed \in BOOLEAN /\ xfault \in BOOLEAN

(* Before the start nothing has run and nothing has moved; what is pumped  *)
(* was started once.                                                       *)
StartedOnce ==
    /\ xphase \in {"target", "create", "start"} =>
          /\ ran = 0 /\ command = NoCommand /\ given = 0 /\ hand = "free" /\ inq = <<>> /\ ~ineof
          /\ outq = <<>> /\ ~held /\ printed = <<>> /\ ~severed
    /\ xphase \in {"pump", "status"} => ran = 1 /\ command.state # "none" /\ Mode # "detach"
    /\ xphase # "done" => xresult = "none"

(* On the way out there is text, then the end: of the connection, of a     *)
(* reset, after a complaint or inside a frame.  Shown and on the way are   *)
(* together what was written.                                              *)
TextsThenEnd(k) ==
    /\ \A i \in 1 .. k : outq[i] = "text"
    /\ \/ Len(outq) = k
       \/ Len(outq) = k + 1 /\ outq[k + 1] \in {"eof", "reset"}
       \/ Len(outq) = k + 2 /\ outq[k + 1] \in {"noise", "part"} /\ outq[k + 2] = "eof"
    /\ xjob.stdout # "gone" => Len(printed) + k = Len(command.wrote)
OutputKept == \E k \in 0 .. Len(outq) : TextsThenEnd(k)

(* A frame in part and a reset come of a connection severed, and one that  *)
(* ended otherwise is of a command that exited.                            *)
EndsExplained ==
    /\ severed => xfault
    /\ held \/ {"part", "reset"} \cap ToSet(outq) # {} => severed
    /\ ~SessionOpen /\ ~severed => command.state = "exited"

(* What a filter was given it has read, or it is on the way in.            *)
InputKept ==
    /\ ineof => hand = "closed" /\ given = xjob.input
    /\ Mode = "piped" /\ xjob.program = "filter" /\ ~xfault =>
          /\ command.read + Len(inq) + (IF hand = "full" THEN 1 ELSE 0) = given
          /\ hand = "closed" => ineof
          /\ command.state = "exited" => inq = <<>> /\ ineof

(* A status is read of a command that has exited, all its output seen.     *)
StatusDue ==
    xphase = "status" =>
        /\ ~xfault => command.state = "exited"
        /\ ~severed /\ ~(Mode = "terminal" /\ xjob.ends = "error") =>
              command.state = "exited" /\ (Seen \/ (Mode = "terminal" /\ hand = "closed"))

ExecIInv ==
    /\ ExecTypeOK /\ StartedOnce /\ OutputKept /\ EndsExplained /\ InputKept /\ StatusDue
    /\ RunsOnce /\ ExecReports
=============================================================================
