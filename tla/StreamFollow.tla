---------------------------- MODULE StreamFollow ----------------------------
(***************************************************************************)
(* The commands that read an open-ended answer of Podman: `logs`, `attach`,*)
(* the streams of a foreground `up`, `stats` and `events` (engine/observe, *)
(* libpod/types/stream.rs, libpod/client/link/stream).                     *)
(*                                                                         *)
(* A stream is a body of records that ends in order, is cut, or ends in    *)
(* the middle of a record.  The transport cannot tell a body that finished *)
(* without its terminator from one that was severed, so the command asks   *)
(* for the state of the container it was following, later.                 *)
(***************************************************************************)
EXTENDS Naturals, Sequences, SequencesExt, FiniteSetsExt

CONSTANTS
    Follows,        \* the commands: [cmd, follow, services, chosen, since, until, up]
    MaxWrites       \* how many records a container writes

ASSUME FollowAssumption ==
    /\ MaxWrites \in Nat
    /\ \A w \in Follows : w.cmd \in {"logs", "console", "foreground", "stats", "events"}

VARIABLES
    watch,      \* the command: one of Follows
    up,         \* the containers that run
    lines,      \* the streams: [name, about, at, wrote, sent, half, wire, held, shown, end]
    listed,     \* whether the project's containers could be listed
    fphase, fresult

followVars == <<watch, up, lines, listed, fphase, fresult>>

-----------------------------------------------------------------------------
(* What is followed *)

(* resolve_log_targets: the live containers of the services chosen, and    *)
(* the declared names of a service that has none.                          *)
Replicas(s) == IF s.live # <<>> THEN s.live ELSE s.declared
Chosen == SelectSeq(watch.services, LAMBDA s : watch.chosen = {} \/ s.name \in watch.chosen)
LogTargets == FlattenSeq([i \in DOMAIN Chosen |-> Replicas(Chosen[i])])

UnknownFollowed == ~(watch.chosen \subseteq {watch.services[i].name : i \in DOMAIN watch.services})

(* target_containers: stats watches the running ones through one stream.   *)
Sampled == {c \in ToSet(FlattenSeq([i \in DOMAIN Chosen |-> Chosen[i].live])) : c \in up}

NewStream(name, about) ==
    [name |-> name, about |-> about, at |-> "unopened", wrote |-> 0, sent |-> 0, half |-> FALSE,
     wire |-> <<>>, held |-> "nothing", shown |-> 0, end |-> "none"]

(* The feed of events is not a container's: nothing stops it.              *)
Bounded == CASE watch.cmd = "events" -> watch.since # "" /\ watch.until # ""
             [] watch.cmd = "logs"   -> ~watch.follow
             [] OTHER                -> FALSE
JsonLines == watch.cmd \in {"stats", "events"}

(* is_go_duration: a duration after a minus sign would lie in the future,  *)
(* and podman reads it as the past.                                        *)
SinceRefused == watch.cmd = "events" /\ watch.since = "-duration"
(* validate_log_filters                                                    *)
FiltersRefused == watch.cmd = "logs" /\ "invalid" \in {watch.since, watch.until}
(* build_event_filters: KEY=VALUE, over the label of the project.          *)
EventFilterRefused == watch.cmd = "events" /\ watch.filter = "malformed"

FollowInit ==
    /\ watch \in Follows
    /\ up = watch.up
    /\ lines = <<>> /\ listed = TRUE
    /\ fphase = "start" /\ fresult = "none"

EndFollow(r) == fphase' = "done" /\ fresult' = r

RefuseFollow ==
    /\ fphase = "start"
    /\ SinceRefused \/ FiltersRefused \/ EventFilterRefused \/ UnknownFollowed
    /\ EndFollow("refused")
    /\ UNCHANGED <<watch, up, lines, listed>>

StreamsOf(names) == [i \in DOMAIN names |-> NewStream(names[i], {names[i]})]

FollowStart ==
    /\ fphase = "start" /\ ~SinceRefused /\ ~FiltersRefused /\ ~EventFilterRefused /\ ~UnknownFollowed
    /\ \E ok \in BOOLEAN :
         /\ listed' = (ok \/ watch.cmd \in {"events", "foreground"})
         /\ lines' = CASE watch.cmd = "events" -> <<NewStream("feed", {})>>
                       [] watch.cmd = "foreground" -> StreamsOf(LogTargets)
                       [] watch.cmd = "stats" /\ ok /\ Sampled # {} -> <<NewStream("stats", Sampled)>>
                       [] watch.cmd = "logs" /\ ok -> StreamsOf(LogTargets)
                       [] watch.cmd = "console" /\ ok -> StreamsOf(SelectSeq(LogTargets, LAMBDA c : c \in up))
                       [] OTHER -> <<>>
    /\ fphase' = "reading"
    /\ UNCHANGED <<watch, up, fresult>>

-----------------------------------------------------------------------------
(* The other end: the container writes, Podman sends *)

Live(i) == IF watch.cmd = "events" THEN TRUE ELSE lines[i].about \cap up # {}
Serving(i) == lines[i].at = "reading" /\ {"closed", "cut", "unreadable"} \cap ToSet(lines[i].wire) = {}
Wire(i, chunk) == lines' = [lines EXCEPT ![i].wire = Append(@, chunk)]
ServeOnly == UNCHANGED <<watch, up, listed, fphase, fresult>>

(* A history is all there when the answer starts.                          *)
RecordWritten(i) ==
    /\ Serving(i) /\ Live(i) /\ ~Bounded /\ lines[i].wrote < MaxWrites
    /\ lines' = [lines EXCEPT ![i].wrote = @ + 1]
    /\ ServeOnly

(* A record leaves whole or as two chunks.                                 *)
RecordSent(i) ==
    /\ Serving(i) /\ lines[i].sent < lines[i].wrote
    /\ \/ /\ ~lines[i].half
          /\ lines' = [lines EXCEPT ![i].wire = Append(@, "whole"), ![i].sent = @ + 1]
       \/ /\ ~lines[i].half
          /\ lines' = [lines EXCEPT ![i].wire = Append(@, "first"), ![i].half = TRUE]
       \/ /\ lines[i].half
          /\ lines' = [lines EXCEPT ![i].wire = Append(@, "second"), ![i].half = FALSE, ![i].sent = @ + 1]
    /\ ServeOnly

(* The last record of a body of JSON lines may lack its newline.           *)
AnswerEnds(i) ==
    /\ Serving(i) /\ ~lines[i].half
    /\ Bounded \/ ~Live(i) \/ watch.cmd = "events"
    /\ \/ /\ lines[i].sent = lines[i].wrote
          /\ Wire(i, "closed")
       \/ /\ JsonLines /\ lines[i].sent + 1 = lines[i].wrote
          /\ lines' = [lines EXCEPT ![i].wire = @ \o <<"bare", "closed">>, ![i].sent = @ + 1]
    /\ ServeOnly

(* Podman restarted, the socket went, a record that cannot be read.        *)
AnswerBreaks(i) ==
    /\ Serving(i)
    /\ \/ Wire(i, "cut")
       \/ lines[i].half /\ Wire(i, "closed")
       \/ ~lines[i].half /\ lines[i].sent < lines[i].wrote /\ Wire(i, "unreadable")
    /\ ServeOnly

Stops(c) ==
    /\ fphase = "reading" /\ c \in up
    /\ up' = up \ {c}
    /\ UNCHANGED <<watch, lines, listed, fphase, fresult>>

-----------------------------------------------------------------------------
(* The client's end *)

Over(i) == lines[i].at = "over"
(* Only `logs --follow` and a foreground `up` open several at once.        *)
AtOnce == (watch.cmd = "logs" /\ watch.follow) \/ watch.cmd = "foreground"

CloseStream(i, how) == lines' = [lines EXCEPT ![i].at = "over", ![i].end = how]

(* send_streaming: the head, or an error in its place.                     *)
OpenStream(i) ==
    /\ fphase = "reading" /\ lines[i].at = "unopened"
    /\ AtOnce \/ \A j \in 1 .. i - 1 : Over(j)
    /\ \/ CloseStream(i, "not_opened")
       \/ lines' = [lines EXCEPT ![i].at = "reading", ![i].wrote = IF Bounded THEN MaxWrites ELSE 0]
    /\ UNCHANGED <<watch, up, listed, fphase, fresult>>

Ready(i) == lines[i].at = "reading" /\ lines[i].wire # <<>>
Got(i) == Head(lines[i].wire)
ReadOnly == UNCHANGED <<watch, up, listed, fphase, fresult>>

(* parse_multiplexed_body, parse_json_lines_inner: a record is handed on   *)
(* once it is whole.                                                       *)
ReadRecord(i) ==
    /\ Ready(i) /\ Got(i) \in {"whole", "first", "second", "bare"}
    /\ lines' = [lines EXCEPT ![i].wire = Tail(@),
                    ![i].held = CASE Got(i) \in {"whole", "second"} -> "nothing"
                                  [] Got(i) = "first"               -> "part"
                                  [] OTHER                          -> "record",
                    ![i].shown = @ + (IF Got(i) \in {"whole", "second"} THEN 1 ELSE 0)]
    /\ ReadOnly

(* A body that ended: in order, with a last record that is complete, or    *)
(* with a part of one (StreamEndedEarly).                                  *)
ReadEnd(i) ==
    /\ Ready(i) /\ Got(i) = "closed"
    /\ lines' = [lines EXCEPT ![i].wire = <<>>,
                    ![i].shown = @ + (IF lines[i].held = "record" THEN 1 ELSE 0),
                    ![i].at = IF lines[i].held = "part" THEN "asking" ELSE "over",
                    ![i].end = IF lines[i].held = "part" THEN "fault" ELSE "finished"]
    /\ ReadOnly

(* hyper's error, or a record over the limit or that is no JSON.           *)
ReadError(i) ==
    /\ Ready(i) /\ Got(i) \in {"cut", "unreadable"}
    /\ lines' = [lines EXCEPT ![i].wire = <<>>, ![i].at = "asking",
                    ![i].end = IF Got(i) = "cut" THEN "severed" ELSE "fault"]
    /\ ReadOnly

(* stop_on_write_error: the reader of the output went away.                *)
PipeGone(i) ==
    /\ watch.cmd \in {"logs", "console"} /\ Ready(i) /\ Got(i) \in {"whole", "second"}
    /\ CloseStream(i, IF watch.cmd = "logs" THEN "unwanted" ELSE "lost")
    /\ ReadOnly

(* With a state that could not be read taken for a stop.                   *)
BrokeIfRunning(asked) == asked = "running"
(* A state that could not be read counts as a break.                       *)
StreamBrokeMidOutput(asked) == asked # "stopped"
(* is_stream_fault comes first, then whether the answer was to be whole.   *)
StreamLostOutput(end, bounded, asked) == end = "fault" \/ bounded \/ StreamBrokeMidOutput(asked)

(* `up` in the foreground and `stats` do not look at the kind of error.    *)
JudgesFaults == watch.cmd \in {"logs", "console"}

(* container_still_running, and for stats the sampled set read again.      *)
Ask(i) ==
    /\ lines[i].at = "asking" /\ watch.cmd # "events"
    /\ \E asked \in {"unknown", IF Live(i) THEN "running" ELSE "stopped"} :
         CloseStream(i, IF (IF JudgesFaults THEN StreamLostOutput(lines[i].end, Bounded, asked)
                                            ELSE StreamBrokeMidOutput(asked))
                        THEN "lost" ELSE IF lines[i].end = "fault" THEN "overlooked" ELSE "stopped")
    /\ ReadOnly

EventsBroke ==
    /\ watch.cmd = "events" /\ \E i \in DOMAIN lines : lines[i].at = "asking"
    /\ EndFollow("error")
    /\ UNCHANGED <<watch, up, lines, listed>>

-----------------------------------------------------------------------------
(* What the command says *)

Ends == {lines[i].end : i \in DOMAIN lines}
AllOver == fphase = "reading" /\ \A i \in DOMAIN lines : Over(i)

(* Truncated output is an error; a target that did not open is one only    *)
(* when nothing could be read.                                             *)
LogsResult ==
    CASE "lost" \in Ends                            -> "error"
      [] Ends \subseteq {"not_opened"} /\ Ends # {} -> "error"
      [] lines = <<>> /\ ~listed                    -> "error"
      [] OTHER                                      -> "ok"

(* A stream that does not open counts as broken.                           *)
ForegroundResult == IF Ends \cap {"lost", "not_opened"} # {} THEN "broke" ELSE "ok"

OneStreamResult == IF ~listed \/ Ends \cap {"lost", "not_opened"} # {} THEN "error" ELSE "ok"

(* No container of the service runs, for `attach`.                         *)
ConsoleResult == IF lines = <<>> THEN "error" ELSE OneStreamResult

(* With the end of any feed taken as wanted.                               *)
EndIsEnough == OneStreamResult
(* A feed without both bounds ends only when the client stops it.          *)
EventsResult == IF OneStreamResult = "ok" /\ Bounded THEN "ok" ELSE "error"

FollowEnds ==
    /\ AllOver
    /\ EndFollow(CASE watch.cmd = "logs"       -> LogsResult
                   [] watch.cmd = "foreground" -> ForegroundResult
                   [] watch.cmd = "console"    -> ConsoleResult
                   [] watch.cmd = "events"     -> EventsResult
                   [] watch.cmd = "stats"      -> OneStreamResult)
    /\ UNCHANGED <<watch, up, lines, listed>>

FollowNext ==
    \/ RefuseFollow \/ FollowStart \/ FollowEnds \/ EventsBroke
    \/ \E c \in up : Stops(c)
    \/ \E i \in DOMAIN lines :
         \/ RecordWritten(i) \/ RecordSent(i) \/ AnswerEnds(i) \/ AnswerBreaks(i)
         \/ OpenStream(i) \/ ReadRecord(i) \/ ReadEnd(i) \/ ReadError(i) \/ PipeGone(i) \/ Ask(i)

FollowDone == fphase = "done"

-----------------------------------------------------------------------------
(* Properties *)

Whole(i) == lines[i].shown = lines[i].wrote
Opened(i) == lines[i].end # "not_opened"
(* The connection went, and the container had stopped when it was asked.   *)
StoppedByNow(i) == ~Bounded /\ lines[i].end = "stopped" /\ ~Live(i)
(* A record that cannot be read, or half of one at the end: `logs` and     *)
(* `attach` report it whatever the container does, as the documentation of *)
(* is_stream_fault says; `up` and `stats` do not, once it has stopped.     *)
Overlooked(i) == ~JudgesFaults /\ lines[i].end = "overlooked" /\ ~Live(i)

(* A follow that ends well showed all there was, but for two losses: the   *)
(* connection to a container that had stopped before its state was asked   *)
(* for, and, under `up` and `stats` alone, a record of such a container    *)
(* that could not be read.  An answer that was to be whole is whole, a     *)
(* stream that breaks while its container runs, or while its state is      *)
(* unknown, is reported, and nothing was read at all only when there was   *)
(* nothing to read.                                                        *)
LossIsReported ==
    FollowDone /\ fresult = "ok" =>
        /\ \A i \in DOMAIN lines :
             Opened(i) /\ lines[i].end # "unwanted" => Whole(i) \/ StoppedByNow(i) \/ Overlooked(i)
        /\ lines # <<>> => \E i \in DOMAIN lines : Opened(i)
        /\ listed

(* The other way round: a command whose streams all opened and ended in    *)
(* order, with everything listed, does not fail; and an open-ended feed of *)
(* events never ends well.                                                 *)
NoFalseAlarm ==
    FollowDone /\ listed /\ lines # <<>> /\ Ends \subseteq {"finished", "unwanted"} =>
        (fresult = "ok" <=> watch.cmd # "events" \/ Bounded)

(* Output that was lost is reported and output that was not is no error    *)
(* (query/logs, attach, stats, events).                                    *)
FollowAccounted == LossIsReported /\ NoFalseAlarm

-----------------------------------------------------------------------------
(* Why: the inductive invariant *)

FollowSpec == FollowInit /\ [][FollowNext]_followVars

FollowChunks == {"whole", "first", "second", "bare", "closed", "cut", "unreadable"}
Terminal == {"closed", "cut", "unreadable"}
Holdings == {"nothing", "part", "record"}

StreamOK(s) ==
    /\ DOMAIN s = DOMAIN NewStream("", {})
    /\ s.at \in {"unopened", "reading", "asking", "over"}
    /\ s.wrote \in Nat /\ s.sent \in Nat /\ s.shown \in Nat
    /\ s.half \in BOOLEAN /\ s.held \in Holdings /\ s.wire \in Seq(FollowChunks)

FollowTypeOK ==
    /\ watch \in Follows /\ listed \in BOOLEAN /\ fphase \in {"start", "reading", "done"}
    /\ lines = <<>> \/ DOMAIN lines # {}
    /\ \A i \in DOMAIN lines : StreamOK(lines[i])

(* What the reader will have shown, and will hold, when it has read what   *)
(* is on the wire, is what the other end has sent, and a body is closed    *)
(* once, when all was written or in the middle of a record.                *)
AfterChunk(holding, chunk) ==
    CASE chunk \in {"whole", "second"} -> "nothing"
      [] chunk = "first"               -> "part"
      [] chunk = "bare"                -> "record"
      [] OTHER                         -> holding

Completes(chunk) == IF chunk \in {"whole", "second"} THEN 1 ELSE 0

Chain(wire, shown, holding) ==
    \A j \in 1 .. Len(wire) : /\ shown[j + 1] = shown[j] + Completes(wire[j])
                              /\ holding[j + 1] = AfterChunk(holding[j], wire[j])

ReadAhead(s, shown, holding) ==
    LET n == Len(s.wire)
    IN /\ shown[1] = s.shown /\ holding[1] = s.held
       /\ Chain(s.wire, shown, holding)
       /\ \A j \in 1 .. n : s.wire[j] \in Terminal => j = n
       /\ s.sent = shown[n + 1] + (IF holding[n + 1] = "record" THEN 1 ELSE 0)
       /\ s.half <=> holding[n + 1] = "part"
       /\ holding[n + 1] = "record" => n > 0 /\ s.wire[n] = "closed"
       /\ n > 0 /\ s.wire[n] = "closed" => s.half \/ s.sent = s.wrote

IsAhead(s) ==
    s.at = "reading" =>
        \E shown \in [1 .. Len(s.wire) + 1 -> Nat], holding \in [1 .. Len(s.wire) + 1 -> Holdings] :
           ReadAhead(s, shown, holding)

Justified(s, bounded, judges, live) ==
    /\ s.at = "unopened" => /\ s.wire = <<>> /\ s.held = "nothing" /\ ~s.half
                            /\ s.shown = 0 /\ s.sent = 0
    /\ s.at \in {"unopened", "reading"} => s.end = "none"
    /\ s.at = "asking" => s.end \in {"fault", "severed"}
    /\ s.at = "over" =>
         s.end \in {"not_opened", "finished", "unwanted", "lost", "stopped", "overlooked"}
    /\ s.end = "finished" => s.shown = s.wrote
    /\ s.end = "stopped" => ~bounded /\ ~live
    /\ s.end = "overlooked" => ~judges /\ ~live

SentIsAhead == \A i \in DOMAIN lines : IsAhead(lines[i])
EndsJustified == \A i \in DOMAIN lines : Justified(lines[i], Bounded, JudgesFaults, Live(i))

Settled ==
    /\ fphase = "start" => lines = <<>>
    /\ fphase = "done" => \A i \in DOMAIN lines : Over(i) \/ (lines[i].at = "asking" /\ watch.cmd = "events")
    /\ lines # <<>> \/ watch.cmd \in {"events", "foreground"} => listed
    /\ watch.cmd = "events" => \A i, j \in DOMAIN lines : i = j

FollowIInv ==
    /\ FollowTypeOK /\ SentIsAhead /\ EndsJustified /\ Settled
    /\ FollowAccounted
=============================================================================
