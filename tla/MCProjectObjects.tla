--------------------------- MODULE MCProjectObjects ---------------------------
(* Two projects that mean the same volume by name, and the same network, which *)
(* is external to one of them; the other also has a secret and a pod.  Both    *)
(* may be taken down without their file, and run with one that names nothing.  *)
EXTENDS ProjectObjects
CONSTANTS a, b, net, vol, sec, pod
MCKind == [o \in Objects |->
  CASE o = net -> "network" [] o = vol -> "volume" [] o = sec -> "secret" [] OTHER -> "pod"]
MCFilesOf == [p \in Projects |->
  IF p = a THEN {[own |-> {net, vol, sec, pod}, external |-> {}]}
           ELSE {[own |-> {vol}, external |-> {net}]}]
MCVerbsOf == [p \in Projects |->
  IF p = a THEN {"create", "down -v", "label -v"} ELSE {"up", "down -v"}]
MCMaxHand == [o \in Objects |-> IF o = vol THEN 1 ELSE 0]
MCMaxRuns == [p \in Projects |-> IF p = a THEN 2 ELSE 1]
=============================================================================
