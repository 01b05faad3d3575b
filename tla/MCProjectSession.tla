--------------------------- MODULE MCProjectSession ---------------------------
(* Two terminals.  One brings the service up in the foreground, or scales it with *)
(* init steps that may never end, or watches it, with the lock or without; the    *)
(* other scales, starts or takes it down, or runs one-offs, one of them under the *)
(* name of a replica.                                                            *)
EXTENDS ProjectSession
CONSTANTS a, b
Command(verb, mode) ==
  [verb |-> verb, mode |-> mode, scale |-> Unscaled, name |-> 0, rm |-> FALSE, orphans |-> FALSE,
   slow |-> FALSE]
Slow(c) == [c EXCEPT !.slow = TRUE]
Scaled(c, n) == [c EXCEPT !.scale = n]
RunAs(n, mode, rm) == [Command("run", mode) EXCEPT !.name = n, !.rm = rm]
MCCommandsOf == [t \in Terminals |->
  IF t = a
  THEN {Command("up", "attach"), Command("up", "abort"), Command("watch", "detach"),
        Command("up", "watch"), Slow(Scaled(Command("up", "detach"), 2))}
  ELSE {Scaled(Command("scale", "detach"), 1), Scaled(Command("scale", "detach"), 3),
        [Scaled(Command("create", "detach"), 1) EXCEPT !.orphans = TRUE],
        Command("down", "detach"), Command("start", "detach"),
        RunAs(t, "attach", TRUE), RunAs(2, "detach", FALSE)}]
MCMaxRuns == [t \in Terminals |-> 1]
=============================================================================
