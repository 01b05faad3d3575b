-------------------------- MODULE ProjectSessionProofs --------------------------
(***************************************************************************)
(* Proofs about ProjectSession, for any terminals and any commands typed   *)
(* on them: the inductive invariant, that no command takes the container   *)
(* of a run for something else, and that a scale leaves what was asked     *)
(* for.                                                                    *)
(*                                                                         *)
(* A step is seen from two sides.  Aside(t) says what a step of t is to    *)
(* the others: it leaves their own notes alone, the lock where it is if    *)
(* one of them has it, and makes no one-off under their eyes.  From that   *)
(* everything the others know stays true (OthersKeep).  What is left is    *)
(* one lemma for each step about the terminal that takes it.               *)
(***************************************************************************)
EXTENDS ProjectSession, TLAPS

(***************************************************************************)
(* Steps as the others see them.                                           *)
(***************************************************************************)

Same(m) == cont'[m].id = cont[m].id /\ cont'[m].kind = cont[m].kind

\* Containers stay what they are or go, but for one that may be new.
Numbering ==
  /\ cont' \in [Names -> Containers] /\ ids' \in Nat
  /\ \/ ids' = ids /\ \A m \in Names : Same(m) \/ cont'[m] = None
     \/ /\ ids' = ids + 1
        /\ \E n \in Names : /\ cont'[n].id = ids + 1 /\ cont'[n].kind # "none"
                            /\ \A m \in Names \ {n} : Same(m)

\* A terminal sees to its own command and, at most, takes the lock or gives it back.
Alone(t) ==
  /\ \A u \in Terminals \ {t} : pc'[u] = pc[u] /\ work'[u] = work[u] /\ cmd'[u] = cmd[u]
  /\ \/ lock' = lock
     \/ lock = t /\ lock' = Free
     \/ lock = Free /\ lock' = t

NoOneOffBut(names) ==
  \A m \in Names : is_one_off(cont'[m]) => is_one_off(cont[m]) \/ m \in names

Aside(t) ==
  /\ Numbering
  /\ Alone(t)
  /\ meddled \ {t} \subseteq meddled'
  /\ NoOneOffBut(IF t \in Terminals /\ pc[t] = "make" THEN {cmd[t].name} ELSE {})
  /\ \/ t \in Terminals /\ pc[t] \in Working
     \/ \A m \in Names : cont'[m].kind = cont[m].kind
     \/ Terminals \ {t} \subseteq meddled'

\* The types of what the terminals keep.
Kept == pc' \in [Terminals -> Stages] /\ work' \in [Terminals -> Notes] /\ lock' \in Terminals \cup {Free}

Moves(t) == Aside(t) /\ TypeOK' /\ Harmless' /\ Own(t)'

(***************************************************************************)
(* Types and names.                                                        *)
(***************************************************************************)

LEMMA CommandTyped ==
  ASSUME NEW t \in Terminals, NEW c \in CommandsOf[t]
  PROVE  /\ c.verb \in Verbs /\ c.mode \in Modes
         /\ c.scale \in Nat \cup {Unscaled}
         /\ c.scale # Unscaled => c.verb \in {"up", "create", "scale"}
         /\ c.name \in Names
         /\ c.verb = "run" => c.name \in (0..MaxReplicas) \cup {t}
  BY CommandAssumption

\* Names that were accepted are names there are.
LEMMA AcceptedNames ==
  ASSUME NEW t \in Terminals, NEW c \in CommandsOf[t], Accepted(c)
  PROVE  replica_names(c) \subseteq Names
  <1>1. resolve_replicas(c) \in Nat
    BY CommandTyped, SizeAssumption DEF resolve_replicas
  <1> QED
    BY <1>1, SizeAssumption DEF Accepted, check_replica_limit, replica_names, replica_names_for, Names

\* So is the first one, accepted or not.
LEMMA FirstName ==
  ASSUME NEW t \in Terminals, NEW c \in CommandsOf[t]
  PROVE  first_replica_name(c) \in Names
  <1>1. resolve_replicas(c) \in Nat
    BY CommandTyped, SizeAssumption DEF resolve_replicas
  <1>2. CASE replica_names(c) = {}
    BY <1>2, SizeAssumption DEF first_replica_name, Names
  <1>3. CASE replica_names(c) # {}
    <2>1. CASE replica_names(c) = {0}
      <3>1. \A m \in replica_names(c) : 0 <= m
        BY <2>1
      <3> QED
        BY <2>1, <1>3, <3>1, SizeAssumption DEF first_replica_name, Names
    <2>2. CASE replica_names(c) = 1..resolve_replicas(c)
      <3>1. 1 \in replica_names(c) /\ \A m \in replica_names(c) : 1 <= m
        BY <2>2, <1>3, <1>1
      <3>2. \A n \in replica_names(c) : (\A m \in replica_names(c) : n <= m) => n = 1
        BY <3>1, <2>2, <1>1
      <3>3. first_replica_name(c) = 1
        BY <3>1, <3>2, <1>3 DEF first_replica_name
      <3> QED
        BY <3>3, SizeAssumption DEF Names
    <2> QED
      BY <1>1, <1>3, <2>1, <2>2 DEF replica_names, replica_names_for
  <1> QED
    BY <1>2, <1>3

LEMMA NoneTyped == None \in Containers /\ Fresh \in Notes /\ Nothing \in [Names -> Containers]
  BY DEF None, Containers, Fresh, Notes, Nothing, Ours

(***************************************************************************)
(* What the others keep.                                                   *)
(***************************************************************************)

LEMMA NumberedKept ==
  ASSUME IInv, Numbering
  PROVE  Numbered'
  <1> USE DEF IInv, TypeOK, Numbered, Containers, None
  <1>1. CASE ids' = ids /\ \A m \in Names : Same(m) \/ cont'[m] = None
    <2>1. \A m \in Names : cont'[m].id = 0 \/ cont'[m].id = cont[m].id
      BY <1>1 DEF Same
    <2>2. \A m \in Names : cont'[m].id <= ids' /\ (cont'[m].id = 0 <=> cont'[m].kind = "none")
      BY <1>1 DEF Same
    <2> QED
      BY <2>1, <2>2
  <1>2. CASE /\ ids' = ids + 1
             /\ \E n \in Names : /\ cont'[n].id = ids + 1 /\ cont'[n].kind # "none"
                                 /\ \A m \in Names \ {n} : Same(m)
    <2>1. PICK n \in Names : /\ cont'[n].id = ids + 1 /\ cont'[n].kind # "none"
                             /\ \A m \in Names \ {n} : Same(m)
      BY <1>2
    <2>2. \A m \in Names : cont[m].id \in Nat /\ cont[m].id <= ids
      OBVIOUS
    <2> QED
      BY <1>2, <2>1, <2>2 DEF Same
  <1> QED
    BY <1>1, <1>2 DEF Numbering

LEMMA OthersKeep ==
  ASSUME IInv, NEW t \in Terminals \cup {Free}, Aside(t), NEW u \in Terminals, u # t
  PROVE  Own(u)'
  <1>1. pc'[u] = pc[u] /\ work'[u] = work[u] /\ cmd'[u] = cmd[u] /\ cmd[u] \in CommandsOf[u]
    BY DEF Aside, Alone, IInv, TypeOK
  <1>2. Own(u) /\ (t \in Terminals => Own(t))
    BY DEF IInv
  <1>3. StagedFor(u)'
    <2>1. Reached(cmd[u])' = Reached(cmd[u])
      BY <1>1, Zenon DEF Reached
    <2>2. Accepted(cmd[u])' = Accepted(cmd[u])
      BY <1>1, Zenon DEF Accepted, check_replica_limit, resolve_replicas,
                         check_scale_port_conflict, check_fixed_name_scale
    <2>3. StagedFor(u)
      BY <1>2 DEF Own
    <2>4. (pc[u] \in Reached(cmd[u]))'
      BY <1>1, <2>1, <2>3 DEF StagedFor
    <2>5. (pc[u] \in {"list", "ensure", "surplus"} => Accepted(cmd[u]))'
      BY <1>1, <2>2, <2>3 DEF StagedFor
    <2> QED
      BY <2>4, <2>5 DEF StagedFor
  <1>4. lock = u => lock' = u
    <2>1. u # Free
      BY SizeAssumption
    <2> QED
      BY <2>1 DEF Aside, Alone
  <1>5. LockedFor(u)'
    BY <1>1, <1>2, <1>4 DEF Own, LockedFor
  <1>6. ASSUME pc[u] \in Working
        PROVE  ~(t \in Terminals /\ pc[t] \in Working)
    BY <1>2, <1>6 DEF Own, LockedFor
  <1>7. ASSUME pc[u] \in Working, NEW m \in Names, is_one_off(cont'[m])
        PROVE  is_one_off(cont[m])
    BY <1>6, <1>7 DEF Aside, NoOneOffBut, Working, Stages, Ended
  <1>8. ListedFor(u)'
    <2>1. pc[u] \in {"ensure", "surplus", "reap", "make"} => pc[u] \in Working
      BY DEF Working, Stages, Ended
    <2>2. ASSUME pc[u] \in {"lock", "name", "make"}, cmd[u].verb = "run", cmd[u].name = u, UniquePids
          PROVE  ~is_one_off(cont'[u])
      <3>1. ~is_one_off(cont[u])
        BY <2>2, <1>2 DEF Own, ListedFor
      <3>2. t \in Terminals /\ pc[t] = "make" => cmd[t].name # u
        <4>1. ASSUME t \in Terminals, pc[t] = "make"
              PROVE  cmd[t].verb = "run"
          BY <1>2, <4>1 DEF Own, StagedFor, Reached, Ended
        <4>2. t \in Terminals => cmd[t] \in CommandsOf[t]
          BY DEF IInv, TypeOK
        <4>3. u \notin (0..MaxReplicas)
          BY SizeAssumption
        <4> QED
          BY <4>1, <4>2, <4>3, CommandTyped
      <3>3. u \in Names
        BY DEF Names
      <3> QED
        BY <3>1, <3>2, <3>3 DEF Aside, NoOneOffBut
    <2>3. cmd[u].name \in Names
      BY <1>1, CommandTyped
    <2>4. work[u].todo \subseteq Names
      BY DEF IInv, TypeOK, Notes
    <2> QED
      BY <1>1, <1>2, <1>7, <2>1, <2>2, <2>3, <2>4 DEF Own, ListedFor
  <1>9. NotedBy(u)'
    <2> USE DEF IInv, TypeOK, Notes, Containers
    <2>1. ids <= ids'
      BY DEF Aside, Numbering
    <2>2. ASSUME NEW m \in Names, cont'[m].id # 0
          PROVE  Same(m) \/ cont'[m].id = ids + 1
      <3>1. CASE \A k \in Names : Same(k) \/ cont'[k] = None
        BY <3>1, <2>2 DEF None
      <3>2. CASE \E n \in Names : cont'[n].id = ids + 1 /\ \A k \in Names \ {n} : Same(k)
        BY <3>2
      <3> QED
        BY <3>1, <3>2 DEF Aside, Numbering
    <2>3. work[u].mine \in Nat /\ \A n \in Names : work[u].snapshot[n] \in Nat
      OBVIOUS
    <2>4. NotedBy(u)
      BY <1>2 DEF Own
    <2>5. work'[u].mine <= ids' /\ \A n \in Names : work'[u].snapshot[n] <= ids'
      BY <1>1, <2>1, <2>3, <2>4 DEF NotedBy, Aside, Numbering
    <2>6. ASSUME NEW m \in Names, cont'[m].id # 0
          PROVE  /\ cont'[m].id = work'[u].mine => cont'[m].kind = "oneoff"
                 /\ \A n \in Names : cont'[m].id = work'[u].snapshot[n] => cont'[m].kind = "replica"
      <3>1. CASE Same(m)
        BY <1>1, <2>4, <2>6, <3>1 DEF Same, NotedBy
      <3>2. CASE cont'[m].id = ids + 1
        BY <1>1, <2>3, <2>4, <3>2 DEF NotedBy
      <3> QED
        BY <2>2, <2>6, <3>1, <3>2
    <2> QED
      BY <1>1, <2>4, <2>5, <2>6 DEF NotedBy
  <1>10. ScalingFor(u)'
    <2> SUFFICES ASSUME u \notin meddled'
                 PROVE  ScalingFor(u)'
      BY DEF ScalingFor
    <2>1. u \notin meddled
      BY DEF Aside
    <2>2. pc[u] \in {"ensure", "surplus"} => \A m \in Names : cont'[m].kind = cont[m].kind
      BY <1>6 DEF Aside, Working, Stages, Ended
    <2>3. pc[u] \in {"ensure", "surplus"} => replica_names(cmd[u]) \subseteq Names
      BY <1>1, <1>2, AcceptedNames DEF Own, StagedFor
    <2>4. pc[u] = "ensure" => \A n \in Names : AsListed(u, n) => AsListed(u, n)'
      BY <1>1, <2>2 DEF AsListed
    <2>5. pc[u] = "ensure" =>
            /\ work[u].todo \subseteq replica_names(cmd[u])
            /\ \A n \in Names : n \in work[u].todo \/ n \notin replica_names(cmd[u]) => AsListed(u, n)'
            /\ work[u].err \/ \A n \in replica_names(cmd[u]) \ work[u].todo : cont'[n].kind = "replica"
      BY <1>2, <2>1, <2>2, <2>3, <2>4 DEF Own, ScalingFor
    <2>6. pc[u] = "surplus" /\ ~work[u].err =>
            /\ \A n \in replica_names(cmd[u]) : cont'[n].kind = "replica" /\ n \notin work[u].todo
            /\ \A n \in Names : cont'[n].kind = "replica" =>
                 n \in work[u].todo \/ n \in replica_names(cmd[u])
      BY <1>2, <2>1, <2>2, <2>3 DEF Own, ScalingFor
    <2> QED
      BY <1>1, <2>5, <2>6 DEF ScalingFor, replica_names, replica_names_for, resolve_replicas
  <1> QED
    BY <1>3, <1>5, <1>8, <1>9, <1>10 DEF Own

LEMMA MovesKeep ==
  ASSUME IInv, NEW t \in Terminals, Moves(t)
  PROVE  IInv'
  <1>1. Numbered'
    BY NumberedKept DEF Moves, Aside
  <1>2. \A u \in Terminals : Own(u)'
    BY OthersKeep DEF Moves
  <1> QED
    BY <1>1, <1>2 DEF Moves, IInv
(***************************************************************************)
(* The kinds of steps.                                                     *)
(***************************************************************************)

\* A command that ends keeps nothing in mind.
LEMMA EndKeeps ==
  ASSUME IInv, NEW t \in Terminals, NEW r \in {"ok", "failed"}, End(t, r), cmd' = cmd
  PROVE  Alone(t) /\ Kept /\ (ids' \in Nat => Own(t)')
  <1> USE DEF IInv, TypeOK
  <1>1. /\ pc' = [pc EXCEPT ![t] = r] /\ work' = [work EXCEPT ![t] = Fresh]
        /\ lock' = IF lock = t THEN Free ELSE lock
    BY DEF End, Go
  <1>2. pc'[t] = r /\ work'[t] = Fresh /\ r \in Ended /\ r \in Stages
    BY <1>1 DEF Ended, Stages
  <1>3. Alone(t)
    BY <1>1 DEF Alone
  <1>4. Kept
    BY <1>1, <1>2, NoneTyped DEF Kept
  <1>5. ASSUME ids' \in Nat
        PROVE  Own(t)'
    <2>1. StagedFor(t)'
      <3>1. (pc[t] \in Reached(cmd[t]))'
        BY <1>2 DEF Reached
      <3> QED
        BY <1>2, <3>1 DEF StagedFor, Ended
    <2>2. LockedFor(t)'
      BY <1>2 DEF LockedFor, Working, Ended
    <2>3. ListedFor(t)'
      BY <1>2 DEF ListedFor
    <2>4. NotedBy(t)'
      BY <1>2, <1>5 DEF NotedBy, Fresh
    <2>5. ScalingFor(t)'
      BY <1>2 DEF ScalingFor
    <2> QED
      BY <2>1, <2>2, <2>3, <2>4, <2>5 DEF Own
  <1> QED
    BY <1>3, <1>4, <1>5

\* On to another stage, with other notes.
LEMMA GoKeeps ==
  ASSUME IInv, NEW t \in Terminals, NEW stage \in Stages, Go(t, stage), cmd' = cmd,
         NEW w \in Notes, work' = [work EXCEPT ![t] = w],
         lock' \in {lock, IF lock = t THEN Free ELSE lock} \/ (lock = Free /\ lock' = t)
  PROVE  Alone(t) /\ Kept /\ pc'[t] = stage /\ work'[t] = w
  BY DEF Go, Alone, Kept, IInv, TypeOK

\* Nothing happens to the containers.
LEMMA QuietMoves ==
  ASSUME IInv, NEW t \in Terminals, Alone(t), Kept, UNCHANGED <<podman, outside>>, Own(t)'
  PROVE  Moves(t)
  <1> USE DEF podman, outside
  <1>1. Numbering
    BY DEF Numbering, Same, IInv, TypeOK
  <1>2. Aside(t)
    BY <1>1 DEF Aside, NoOneOffBut
  <1>3. TypeOK'
    BY DEF IInv, TypeOK, Kept
  <1>4. Harmless'
    BY DEF IInv, Harmless
  <1> QED
    BY <1>2, <1>3, <1>4 DEF Moves

LEMMA EndMoves ==
  ASSUME IInv, NEW t \in Terminals, NEW r \in {"ok", "failed"}, End(t, r), UNCHANGED <<podman, outside>>
  PROVE  Moves(t)
  <1>1. cmd' = cmd /\ ids' \in Nat
    BY DEF podman, outside, IInv, TypeOK
  <1> QED
    BY <1>1, EndKeeps, QuietMoves

\* A command at work changes containers.
LEMMA WorkMoves ==
  ASSUME IInv, NEW t \in Terminals, pc[t] \in Working, Alone(t), Kept, Numbering,
         meddled' = meddled, UNCHANGED outside,
         NoOneOffBut(IF pc[t] = "make" THEN {cmd[t].name} ELSE {}), Harmless', Own(t)'
  PROVE  Moves(t)
  <1>1. Aside(t)
    BY DEF Aside
  <1>2. TypeOK'
    <2>1. harm' \subseteq {"watch", "pid", "oneoff", "later", "others"}
      BY DEF Harmless
    <2> QED
      BY <2>1 DEF IInv, TypeOK, Kept, Numbering, outside
  <1> QED
    BY <1>1, <1>2 DEF Moves

(***************************************************************************)
(* Requests about a container.                                             *)
(***************************************************************************)

LEMMA RemoveNumbers ==
  ASSUME IInv, NEW t \in Terminals, NEW n \in Names, NEW how, Remove(t, n, how)
  PROVE  /\ Numbering /\ NoOneOffBut({})
         /\ cont'[n] = None /\ \A m \in Names \ {n} : cont'[m] = cont[m]
         /\ harm' = harm \cup Harm(t, cont[n], how)
  BY NoneTyped DEF Remove, Blame, IInv, TypeOK, Numbering, Same, NoOneOffBut, is_one_off, None

LEMMA SetNumbers ==
  ASSUME IInv, NEW n \in Names, NEW up \in BOOLEAN, Set(n, up)
  PROVE  /\ Numbering /\ NoOneOffBut({})
         /\ \A m \in Names : Same(m)
         /\ harm' = harm
  <1>1. cont'\in [Names -> Containers] /\ \A m \in Names : Same(m)
    BY DEF Set, IInv, TypeOK, Containers, Same
  <1> QED
    BY <1>1 DEF Set, Numbering, NoOneOffBut, is_one_off, Same, IInv, TypeOK

LEMMA PutNumbers ==
  ASSUME IInv, NEW t \in Terminals, NEW n \in Names, NEW kind \in Ours, NEW up \in BOOLEAN, NEW how,
         Put(t, n, kind, up, how)
  PROVE  /\ Numbering /\ NoOneOffBut(IF kind = "oneoff" THEN {n} ELSE {})
         /\ cont'[n].kind = kind /\ cont'[n].id = ids + 1 /\ ids' = ids + 1
         /\ \A m \in Names \ {n} : cont'[m] = cont[m]
         /\ cont[n].kind \in Ours \cup {"none"}
         /\ harm' = harm \cup Harm(t, cont[n], how)
  <1> DEFINE new == [id |-> ids + 1, kind |-> kind, up |-> up]
  <1>1. new \in Containers /\ new.kind = kind /\ new.id = ids + 1 /\ kind # "none"
    BY DEF Containers, IInv, TypeOK, Ours
  <1>2. cont' = [cont EXCEPT ![n] = new] /\ ids' = ids + 1 /\ harm' = harm \cup Harm(t, cont[n], how)
    BY DEF Put, Blame
  <1> HIDE DEF new
  <1>3. cont' \in [Names -> Containers] /\ cont'[n] = new /\ \A m \in Names \ {n} : cont'[m] = cont[m]
    BY <1>1, <1>2 DEF IInv, TypeOK
  <1>4. Numbering
    BY <1>1, <1>2, <1>3 DEF Numbering, Same, IInv, TypeOK
  <1>5. NoOneOffBut(IF kind = "oneoff" THEN {n} ELSE {})
    BY <1>1, <1>3 DEF NoOneOffBut, is_one_off
  <1>6. cont[n].kind \in Ours \cup {"none"}
    BY DEF Put, IInv, TypeOK, Containers
  <1> QED
    BY <1>1, <1>2, <1>3, <1>4, <1>5, <1>6

\* A name dealt with, well or not, with the rest of the notes as they were.
LEMMA TodoKeeps ==
  ASSUME IInv, NEW t \in Terminals, NEW n \in Names, Done(t, n) \/ Failed(t, n),
         UNCHANGED <<lock, pc, cmd>>
  PROVE  /\ Alone(t) /\ Kept
         /\ work'[t].existing = work[t].existing /\ work'[t].snapshot = work[t].snapshot
         /\ work'[t].mine = work[t].mine /\ work'[t].todo = work[t].todo \ {n}
         /\ work'[t].err \in BOOLEAN
         /\ (Failed(t, n) => work'[t].err) /\ (Done(t, n) => work'[t].err = work[t].err)
  <1>1. work \in [Terminals -> Notes] /\ work[t] \in Notes
    BY DEF IInv, TypeOK
  <1> DEFINE Rest == /\ Alone(t) /\ Kept
                     /\ work'[t].existing = work[t].existing /\ work'[t].snapshot = work[t].snapshot
                     /\ work'[t].mine = work[t].mine /\ work'[t].todo = work[t].todo \ {n}
                     /\ work'[t].err \in BOOLEAN
  <1>2. ASSUME Done(t, n) PROVE Rest
    <2> DEFINE w == [work[t] EXCEPT !.todo = @ \ {n}]
    <2>1. /\ w \in Notes /\ w.existing = work[t].existing /\ w.snapshot = work[t].snapshot
          /\ w.mine = work[t].mine /\ w.todo = work[t].todo \ {n} /\ w.err = work[t].err
          /\ w.err \in BOOLEAN
      BY <1>1 DEF Notes
    <2>2. work' = [work EXCEPT ![t] = w]
      BY <1>2 DEF Done
    <2> HIDE DEF w
    <2>3. work' \in [Terminals -> Notes] /\ work'[t] = w /\ \A u \in Terminals \ {t} : work'[u] = work[u]
      BY <1>1, <2>1, <2>2
    <2>4. Alone(t) /\ Kept
      BY <2>3 DEF Alone, Kept, IInv, TypeOK
    <2> QED
      BY <2>1, <2>3, <2>4
  <1>3. ASSUME Failed(t, n) PROVE Rest
    <2> DEFINE w == [work[t] EXCEPT !.todo = @ \ {n}, !.err = TRUE]
    <2>1. /\ w \in Notes /\ w.existing = work[t].existing /\ w.snapshot = work[t].snapshot
          /\ w.mine = work[t].mine /\ w.todo = work[t].todo \ {n} /\ w.err
          /\ w.err \in BOOLEAN
      BY <1>1 DEF Notes
    <2>2. work' = [work EXCEPT ![t] = w]
      BY <1>3 DEF Failed
    <2> HIDE DEF w
    <2>3. work' \in [Terminals -> Notes] /\ work'[t] = w /\ \A u \in Terminals \ {t} : work'[u] = work[u]
      BY <1>1, <2>1, <2>2
    <2>4. Alone(t) /\ Kept
      BY <2>3 DEF Alone, Kept, IInv, TypeOK
    <2> QED
      BY <2>1, <2>3, <2>4
  <1>4. Failed(t, n) => work'[t].err
    BY <1>1 DEF Failed, Notes
  <1>5. Done(t, n) => work'[t].err = work[t].err
    BY <1>1 DEF Done, Notes
  <1> QED
    BY <1>2, <1>3, <1>4, <1>5

\* What a walk removes or replaces is no one-off.
LEMMA WalkHarmless ==
  ASSUME IInv, NEW t \in Terminals, NEW x, ~is_one_off(x), NEW how \in {"walk", "pid", "watch", "down"},
         harm' = harm \cup Harm(t, x, how)
  PROVE  Harmless'
  BY DEF Harm, Harmless, IInv

(***************************************************************************)
(* Stages.                                                                 *)
(***************************************************************************)

\* Stages that nothing but the lock depends on.
Plain == {"orphans", "check", "capture", "attached", "relock", "relist", "select", "act", "watching"}

LEMMA FirstReached ==
  ASSUME NEW t \in Terminals, NEW c \in CommandsOf[t]
  PROVE  /\ First(c) \in Reached(c)
         /\ First(c) \in {"orphans", "check", "name", "watching", "select"}
         /\ First(c) = "name" => c.verb = "run"
         /\ First(c) = "watching" <=> c.verb = "watch"
  BY CommandTyped DEF First, Reached, Verbs

LEMMA PlainKeeps ==
  ASSUME IInv, NEW t \in Terminals, NEW stage \in Plain \cap Reached(cmd[t]), pc'[t] = stage,
         work'[t].mine = work[t].mine,
         \A n \in Names : work'[t].snapshot[n] \in {work[t].snapshot[n], snapshot_containers[n]},
         UNCHANGED <<cont, ids, cmd>>,
         stage \in Working \/ (stage = "attached" /\ ~lets_go(cmd[t])) => lock' = t
  PROVE  Own(t)'
  <1>1. StagedFor(t)'
    <2>1. (pc[t] \in Reached(cmd[t]))'
      BY DEF Reached
    <2> QED
      BY <2>1 DEF StagedFor, Plain
  <1>2. LockedFor(t)'
    BY DEF LockedFor, lets_go
  <1>3. ListedFor(t)'
    BY DEF ListedFor, Plain
  <1>4. NotedBy(t)'
    <2>1. NotedBy(t) /\ Numbered
      BY DEF IInv, Own
    <2>2. \A n, m \in Names : cont[m].id # 0 /\ cont[m].id = snapshot_containers[n] => cont[m].kind = "replica"
      BY <2>1 DEF snapshot_containers, Numbered
    <2>3. \A n \in Names : snapshot_containers[n] <= ids
      BY <2>1 DEF snapshot_containers, Numbered, IInv, TypeOK
    <2> QED
      BY <2>1, <2>2, <2>3 DEF NotedBy, Plain
  <1>5. ScalingFor(t)'
    BY DEF ScalingFor, Plain
  <1> QED
    BY <1>1, <1>2, <1>3, <1>4, <1>5 DEF Own

(***************************************************************************)
(* The lock, and how commands begin and end.                               *)
(***************************************************************************)

LEMMA LockMoves ==
  ASSUME IInv, NEW t \in Terminals, lock_project(t)
  PROVE  Moves(t)
  <1>1. /\ pc[t] = "lock" /\ cmd[t] \in CommandsOf[t] /\ work[t] \in Notes
        /\ pc[t] \in Reached(cmd[t]) /\ NotedBy(t) /\ ListedFor(t)
    BY DEF lock_project, IInv, TypeOK, Own, StagedFor
  <1>2. cmd[t].verb # "watch"
    BY <1>1 DEF Reached, Ended
  <1> DEFINE stage == First(cmd[t])
  <1>3. /\ stage \in Reached(cmd[t]) /\ stage \in {"orphans", "check", "name", "select"}
        /\ stage = "name" => cmd[t].verb = "run"
    BY <1>1, <1>2, FirstReached
  <1> HIDE DEF stage
  <1>4. /\ lock = Free /\ lock' = t /\ Go(t, stage)
        /\ UNCHANGED <<podman, work, outside>>
    BY DEF lock_project, acquire, stage
  <1>5. cmd' = cmd /\ cont' = cont /\ ids' = ids /\ meddled' = meddled
    BY <1>4 DEF podman, outside
  <1>6. pc'[t] = stage /\ stage \in Stages
    BY <1>3, <1>4 DEF Go, Stages, IInv, TypeOK
  <1>7. Alone(t) /\ Kept
    BY <1>4, <1>5, <1>6 DEF Go, Alone, Kept, IInv, TypeOK
  <1>8. Own(t)'
    <2>1. StagedFor(t)'
      <3>1. (pc[t] \in Reached(cmd[t]))'
        BY <1>3, <1>5, <1>6 DEF Reached
      <3> QED
        BY <1>3, <1>6, <3>1 DEF StagedFor
    <2>2. LockedFor(t)'
      BY <1>4 DEF LockedFor
    <2>3. ListedFor(t)'
      BY <1>1, <1>3, <1>5, <1>6 DEF ListedFor
    <2>4. NotedBy(t)'
      BY <1>1, <1>3, <1>4, <1>5, <1>6 DEF NotedBy
    <2>5. ScalingFor(t)'
      BY <1>3, <1>6 DEF ScalingFor
    <2> QED
      BY <2>1, <2>2, <2>3, <2>4, <2>5 DEF Own
  <1> QED
    BY <1>4, <1>7, <1>8, QuietMoves

LEMMA FailMoves ==
  ASSUME IInv, NEW t \in Terminals, open_lock_file(t) \/ Kill(t) \/ EndWatch(t)
  PROVE  Moves(t)
  BY EndMoves DEF open_lock_file, Kill, EndWatch

LEMMA BeginMoves ==
  ASSUME IInv, NEW t \in Terminals, NEW c \in CommandsOf[t], Begin(t, c)
  PROVE  Moves(t)
  <1> DEFINE stage == IF is_mutating(c) THEN "lock" ELSE First(c)
  <1>1. /\ stage \in {"lock", "watching"} /\ stage \in Reached(c)
    <2>1. CASE c.verb = "watch"
      BY <2>1, FirstReached DEF is_mutating
    <2>2. CASE c.verb # "watch"
      BY <2>2, CommandTyped DEF is_mutating, Reached, Verbs
    <2> QED
      BY <2>1, <2>2
  <1>2. /\ cmd' = [cmd EXCEPT ![t] = c] /\ pc' = [pc EXCEPT ![t] = stage]
        /\ meddled' = meddled \ {t} /\ UNCHANGED <<cont, lock, work, ids, harm>>
        /\ (c.verb = "run" /\ c.name = t /\ UniquePids) => cont[t] = None
    BY DEF Begin
  <1> HIDE DEF stage
  <1>3. pc'[t] = stage /\ stage \in Stages /\ cmd'[t] = c /\ DOMAIN cmd' = Terminals
    BY <1>1, <1>2 DEF Stages, IInv, TypeOK
  <1>4. TypeOK'
    BY <1>2, <1>3 DEF IInv, TypeOK
  <1>5. Aside(t)
    BY <1>2 DEF Aside, Alone, Numbering, Same, NoOneOffBut, IInv, TypeOK
  <1>6. Own(t)'
    <2>1. StagedFor(t)'
      <3>1. (pc[t] \in Reached(cmd[t]))'
        BY <1>1, <1>3 DEF Reached
      <3> QED
        BY <1>1, <1>3, <3>1 DEF StagedFor
    <2>2. LockedFor(t)'
      BY <1>1, <1>3 DEF LockedFor, Working, Ended
    <2>3. ListedFor(t)'
      BY <1>1, <1>2, <1>3 DEF ListedFor, is_one_off, None
    <2>4. NotedBy(t)'
      BY <1>1, <1>2, <1>3 DEF NotedBy, IInv, Own
    <2>5. ScalingFor(t)'
      BY <1>1, <1>3 DEF ScalingFor
    <2> QED
      BY <2>1, <2>2, <2>3, <2>4, <2>5 DEF Own
  <1>7. Harmless'
    BY <1>2 DEF IInv, Harmless
  <1> QED
    BY <1>4, <1>5, <1>6, <1>7 DEF Moves

(***************************************************************************)
(* From stage to stage, with podman as it is.                              *)
(***************************************************************************)

\* Go, On and Over, for a stage that only the lock depends on.
LEMMA PlainMoves ==
  ASSUME IInv, NEW t \in Terminals, NEW stage \in Plain \cap Reached(cmd[t]), Go(t, stage),
         NEW w \in Notes, work' = [work EXCEPT ![t] = w], w.mine = work[t].mine,
         \A n \in Names : w.snapshot[n] \in {work[t].snapshot[n], snapshot_containers[n]},
         lock' \in {lock, IF lock = t THEN Free ELSE lock} \/ (lock = Free /\ lock' = t),
         stage \in Working \/ (stage = "attached" /\ ~lets_go(cmd[t])) => lock' = t,
         UNCHANGED <<podman, outside>>
  PROVE  Moves(t)
  <1>1. cont' = cont /\ ids' = ids /\ cmd' = cmd /\ stage \in Stages
    BY DEF podman, outside, Plain, Stages
  <1>2. Alone(t) /\ Kept /\ pc'[t] = stage /\ work'[t] = w
    BY <1>1, GoKeeps
  <1>3. Own(t)'
    BY <1>1, <1>2, PlainKeeps
  <1> QED
    BY <1>2, <1>3, QuietMoves

\* What is known of a terminal before its step.
LEMMA Before ==
  ASSUME IInv, NEW t \in Terminals
  PROVE  /\ cmd[t] \in CommandsOf[t] /\ work[t] \in Notes
         /\ StagedFor(t) /\ LockedFor(t) /\ ListedFor(t) /\ NotedBy(t) /\ ScalingFor(t)
         /\ pc[t] \in Reached(cmd[t])
         /\ pc[t] \in Working => lock = t
  BY DEF IInv, TypeOK, Own, StagedFor, LockedFor

LEMMA OnMoves ==
  ASSUME IInv, NEW t \in Terminals, NEW stage \in Plain \cap Reached(cmd[t]), On(t, stage), lock = t,
         UNCHANGED <<podman, outside>>
  PROVE  Moves(t)
  <1>1. /\ Go(t, stage) /\ lock' = lock /\ work[t] \in Notes
        /\ work' = [work EXCEPT ![t] = work[t]]
    BY Before DEF On, IInv, TypeOK
  <1> QED
    BY <1>1, PlainMoves

LEMMA OverKeeps ==
  ASSUME IInv, NEW t \in Terminals, NEW stage \in Stages, NEW names \in SUBSET Names,
         Over(t, stage, names), UNCHANGED <<podman, outside>>
  PROVE  /\ Alone(t) /\ Kept /\ pc'[t] = stage /\ lock' = lock
         /\ work'[t] = [work[t] EXCEPT !.todo = names]
  <1> DEFINE w == [work[t] EXCEPT !.todo = names]
  <1>1. w \in Notes
    BY Before DEF Notes
  <1>2. Go(t, stage) /\ work' = [work EXCEPT ![t] = w] /\ lock' = lock /\ cmd' = cmd
    BY DEF Over, outside
  <1> HIDE DEF w
  <1>3. Alone(t) /\ Kept /\ pc'[t] = stage /\ work'[t] = w
    BY <1>1, <1>2, GoKeeps
  <1> QED
    BY <1>2, <1>3 DEF w

\* On to a stage that has its own conditions, under the lock.
LEMMA StageKeeps ==
  ASSUME IInv, NEW t \in Terminals, lock = t, UNCHANGED <<lock, cont, ids, cmd>>,
         pc'[t] \in Reached(cmd[t]), pc'[t] \in {"list", "ensure", "surplus"} => Accepted(cmd[t]),
         work'[t].mine = work[t].mine, work'[t].snapshot = work[t].snapshot,
         pc'[t] \in {"launch", "follow", "clean"} => work[t].mine # 0,
         pc'[t] = "stopping" => \A n \in work'[t].todo : work[t].snapshot[n] # 0
  PROVE  StagedFor(t)' /\ LockedFor(t)' /\ NotedBy(t)'
  <1>1. StagedFor(t)'
    <2>1. (pc[t] \in Reached(cmd[t]))'
      BY DEF Reached
    <2>2. (pc[t] \in {"list", "ensure", "surplus"} => Accepted(cmd[t]))'
      BY DEF Accepted, check_replica_limit, resolve_replicas, check_scale_port_conflict,
             check_fixed_name_scale
    <2> QED
      BY <2>1, <2>2 DEF StagedFor
  <1>2. LockedFor(t)'
    BY DEF LockedFor
  <1>3. NotedBy(t)'
    BY Before DEF NotedBy
  <1> QED
    BY <1>1, <1>2, <1>3

LEMMA OrphansMoves ==
  ASSUME IInv, NEW t \in Terminals, remove_orphans(t)
  PROVE  Moves(t)
  <1>1. CASE Over(t, "reap", orphan_container_names(cmd[t]))
    <2>1. /\ pc[t] = "orphans" /\ UNCHANGED <<podman, outside>>
          /\ UNCHANGED <<cont, ids, cmd>>
          /\ lock = t /\ pc[t] \in Reached(cmd[t])
      BY Before DEF remove_orphans, podman, outside, Working, Stages, Ended
    <2>2. orphan_container_names(cmd[t]) \in SUBSET Names /\ "reap" \in Stages
      BY DEF orphan_container_names, live_project_replicas, Stages
    <2>3. /\ Alone(t) /\ Kept /\ pc'[t] = "reap" /\ lock' = lock
          /\ work'[t] = [work[t] EXCEPT !.todo = orphan_container_names(cmd[t])]
      BY <1>1, <2>1, <2>2, OverKeeps
    <2>4. /\ work'[t].todo = orphan_container_names(cmd[t])
          /\ work'[t].mine = work[t].mine /\ work'[t].snapshot = work[t].snapshot
      BY <2>3, Before DEF Notes
    <2>5. "reap" \in Reached(cmd[t])
      BY <2>1 DEF Reached, Ended
    <2>6. StagedFor(t)' /\ LockedFor(t)' /\ NotedBy(t)'
      BY <2>1, <2>3, <2>4, <2>5, StageKeeps
    <2>7. ListedFor(t)' /\ ScalingFor(t)'
      BY <2>1, <2>3, <2>4 DEF ListedFor, ScalingFor, orphan_container_names
    <2> QED
      BY <2>1, <2>3, <2>6, <2>7, QuietMoves DEF Own
  <1>2. CASE End(t, "failed")
    BY <1>2, EndMoves DEF remove_orphans
  <1> QED
    BY <1>1, <1>2 DEF remove_orphans

LEMMA ReapedMoves ==
  ASSUME IInv, NEW t \in Terminals, Reaped(t)
  PROVE  Moves(t)
  <1>1. pc[t] = "reap" /\ UNCHANGED <<podman, outside>>
    BY DEF Reaped, Through
  <1>2. lock = t /\ "check" \in Plain \cap Reached(cmd[t])
    BY <1>1, Before DEF Reached, Ended, Plain, Working, Stages
  <1> QED
    BY <1>1, <1>2, OnMoves, EndMoves DEF Reaped

LEMMA CheckMoves ==
  ASSUME IInv, NEW t \in Terminals, CheckScale(t)
  PROVE  Moves(t)
  <1>1. pc[t] = "check" /\ UNCHANGED <<podman, outside>>
    BY DEF CheckScale
  <1>2. lock = t /\ "list" \in Stages \cap Reached(cmd[t])
    BY <1>1, Before DEF Reached, Ended, Working, Stages
  <1>3. CASE Accepted(cmd[t]) /\ On(t, "list")
    <2>1. /\ Go(t, "list") /\ lock' = lock /\ work[t] \in Notes
          /\ work' = [work EXCEPT ![t] = work[t]] /\ UNCHANGED <<cont, ids, cmd>>
      BY <1>1, <1>3, Before DEF On, IInv, TypeOK, podman, outside
    <2>2. Alone(t) /\ Kept /\ pc'[t] = "list" /\ work'[t] = work[t]
      BY <1>2, <2>1, GoKeeps
    <2>3. StagedFor(t)' /\ LockedFor(t)' /\ NotedBy(t)'
      BY <1>2, <1>3, <2>1, <2>2, StageKeeps
    <2>4. ListedFor(t)' /\ ScalingFor(t)'
      BY <2>2 DEF ListedFor, ScalingFor
    <2> QED
      BY <1>1, <2>2, <2>3, <2>4, QuietMoves DEF Own
  <1> QED
    BY <1>1, <1>3, EndMoves DEF CheckScale

LEMMA ListMoves ==
  ASSUME IInv, NEW t \in Terminals, ListExisting(t)
  PROVE  Moves(t)
  <1>1. pc[t] = "list" /\ UNCHANGED <<podman, outside>>
    BY DEF ListExisting
  <1>2. /\ lock = t /\ "ensure" \in Stages \cap Reached(cmd[t]) /\ Accepted(cmd[t])
        /\ cmd[t] \in CommandsOf[t]
    BY <1>1, Before DEF Reached, Ended, Working, Stages, StagedFor
  <1>3. ASSUME work' = [work EXCEPT ![t].existing = project_container_entries,
                                    ![t].todo = replica_names(cmd[t])],
               Go(t, "ensure"), UNCHANGED lock
        PROVE  Moves(t)
    <2> DEFINE w == [work[t] EXCEPT !.existing = project_container_entries,
                                    !.todo = replica_names(cmd[t])]
    <2>1. UNCHANGED <<cont, ids, cmd, meddled>>
      BY <1>1 DEF podman, outside
    <2>2. project_container_entries \in [Names -> Containers]
      BY NoneTyped DEF project_container_entries, IInv, TypeOK
    <2>3. replica_names(cmd[t]) \subseteq Names
      BY <1>2, AcceptedNames
    <2>4. w \in Notes
      BY <2>2, <2>3, Before DEF Notes
    <2>5. work' = [work EXCEPT ![t] = w]
      BY <1>3
    <2>6. /\ w.existing = project_container_entries /\ w.todo = replica_names(cmd[t])
          /\ w.mine = work[t].mine /\ w.snapshot = work[t].snapshot
      BY Before DEF Notes
    <2> HIDE DEF w
    <2>7. Alone(t) /\ Kept /\ pc'[t] = "ensure" /\ work'[t] = w
      BY <1>2, <1>3, <2>1, <2>4, <2>5, GoKeeps
    <2>8. StagedFor(t)' /\ LockedFor(t)' /\ NotedBy(t)'
      BY <1>2, <1>3, <2>1, <2>6, <2>7, StageKeeps
    <2>9. ListedFor(t)'
      BY <2>1, <2>6, <2>7 DEF ListedFor, project_container_entries, is_one_off, Ours
    <2>10. ScalingFor(t)'
      <3>1. \A n \in Names : AsListed(t, n)'
        BY <2>1, <2>6, <2>7 DEF AsListed, project_container_entries, None
      <3>2. replica_names(cmd[t])' = replica_names(cmd[t])
        BY <2>1 DEF replica_names, replica_names_for, resolve_replicas
      <3> QED
        BY <2>6, <2>7, <3>1, <3>2 DEF ScalingFor
    <2> QED
      BY <1>1, <2>7, <2>8, <2>9, <2>10, QuietMoves DEF Own
  <1> QED
    BY <1>1, <1>3, EndMoves DEF ListExisting

(***************************************************************************)
(* up and scale over the replicas.                                         *)
(***************************************************************************)

LEMMA LoopKeeps ==
  ASSUME IInv, NEW t \in Terminals, NEW n \in Names, NEW stage \in Working, Loop(t, n, stage),
         Done(t, n) \/ Failed(t, n)
  PROVE  /\ pc[t] = stage /\ lock = t /\ n \in work[t].todo
         /\ pc' = pc /\ lock' = lock /\ cmd' = cmd /\ meddled' = meddled /\ UNCHANGED outside
         /\ Alone(t) /\ Kept
         /\ work'[t].existing = work[t].existing /\ work'[t].snapshot = work[t].snapshot
         /\ work'[t].mine = work[t].mine /\ work'[t].todo = work[t].todo \ {n}
         /\ work'[t].err \in BOOLEAN
         /\ (Failed(t, n) => work'[t].err) /\ (Done(t, n) => work'[t].err = work[t].err)
  <1>1. /\ pc[t] = stage /\ n \in work[t].todo
        /\ pc' = pc /\ lock' = lock /\ cmd' = cmd /\ meddled' = meddled /\ UNCHANGED outside
    BY DEF Loop, outside
  <1> QED
    BY <1>1, TodoKeeps, Before

\* What was noted of containers stays true while they come and go.
LEMMA NotedKept ==
  ASSUME IInv, NEW t \in Terminals, Numbering,
         work'[t].snapshot = work[t].snapshot, work'[t].mine = work[t].mine,
         pc'[t] \in {"launch", "follow", "clean"} => work[t].mine # 0,
         pc'[t] = "stopping" => \A n \in work'[t].todo : work[t].snapshot[n] # 0
  PROVE  NotedBy(t)'
  <1> USE DEF IInv, TypeOK, Notes, Containers
  <1>1. ids <= ids'
    BY DEF Numbering
  <1>2. ASSUME NEW m \in Names, cont'[m].id # 0
        PROVE  Same(m) \/ cont'[m].id = ids + 1
    <2>1. CASE \A k \in Names : Same(k) \/ cont'[k] = None
      BY <2>1, <1>2 DEF None
    <2>2. CASE \E k \in Names : cont'[k].id = ids + 1 /\ \A j \in Names \ {k} : Same(j)
      BY <2>2
    <2> QED
      BY <2>1, <2>2 DEF Numbering
  <1>3. work[t].mine \in Nat /\ \A n \in Names : work[t].snapshot[n] \in Nat
    OBVIOUS
  <1>4. NotedBy(t)
    BY Before
  <1>5. work'[t].mine <= ids' /\ \A n \in Names : work'[t].snapshot[n] <= ids'
    BY <1>1, <1>3, <1>4 DEF NotedBy, Numbering
  <1>6. ASSUME NEW m \in Names, cont'[m].id # 0
        PROVE  /\ cont'[m].id = work'[t].mine => cont'[m].kind = "oneoff"
               /\ \A n \in Names : cont'[m].id = work'[t].snapshot[n] => cont'[m].kind = "replica"
    <2>1. CASE Same(m)
      BY <1>4, <1>6, <2>1 DEF Same, NotedBy
    <2>2. CASE cont'[m].id = ids + 1
      BY <1>3, <1>4, <2>2 DEF NotedBy
    <2> QED
      BY <1>2, <1>6, <2>1, <2>2
  <1> QED
    BY <1>5, <1>6 DEF NotedBy

\* What a request leaves of the invariant of the terminal that makes it.
LEMMA RequestKeeps ==
  ASSUME IInv, NEW t \in Terminals, pc[t] \in Working, UNCHANGED <<pc, lock, cmd>>,
         Numbering, NoOneOffBut({}),
         work'[t].existing = work[t].existing, work'[t].snapshot = work[t].snapshot,
         work'[t].mine = work[t].mine, work'[t].todo \subseteq work[t].todo
  PROVE  StagedFor(t)' /\ LockedFor(t)' /\ ListedFor(t)' /\ NotedBy(t)'
  <1>1. /\ cmd[t] \in CommandsOf[t] /\ work[t] \in Notes /\ lock = t
        /\ StagedFor(t) /\ ListedFor(t) /\ NotedBy(t)
    BY Before
  <1>2. StagedFor(t)'
    <2>1. (pc[t] \in Reached(cmd[t]))'
      BY <1>1 DEF Reached, StagedFor
    <2>2. (pc[t] \in {"list", "ensure", "surplus"} => Accepted(cmd[t]))'
      BY <1>1 DEF StagedFor, Accepted, check_replica_limit, resolve_replicas,
                  check_scale_port_conflict, check_fixed_name_scale
    <2> QED
      BY <2>1, <2>2 DEF StagedFor
  <1>3. LockedFor(t)'
    BY <1>1 DEF LockedFor
  <1>4. ListedFor(t)'
    <2>1. cmd[t].name \in Names /\ t \in Names
      BY <1>1, CommandTyped DEF Names
    <2>2. work[t].todo \subseteq Names
      BY <1>1 DEF Notes
    <2> QED
      BY <1>1, <2>1, <2>2 DEF ListedFor, NoOneOffBut
  <1>5. NotedBy(t)'
    BY <1>1, NotedKept DEF NotedBy
  <1> QED
    BY <1>2, <1>3, <1>4, <1>5

LEMMA ReapMoves ==
  ASSUME IInv, NEW t \in Terminals, NEW n \in Names, ReapOrphan(t, n)
  PROVE  Moves(t)
  <1>1. Loop(t, n, "reap") /\ (Done(t, n) \/ Failed(t, n)) /\ "reap" \in Working
    BY DEF ReapOrphan, Refused, Working, Stages, Ended
  <1>2. /\ pc[t] = "reap" /\ n \in work[t].todo /\ pc' = pc /\ lock' = lock /\ cmd' = cmd
        /\ meddled' = meddled /\ UNCHANGED outside /\ Alone(t) /\ Kept
        /\ work'[t].existing = work[t].existing /\ work'[t].snapshot = work[t].snapshot
        /\ work'[t].mine = work[t].mine /\ work'[t].todo \subseteq work[t].todo
    BY <1>1, LoopKeeps
  <1>3. ~is_one_off(cont[n])
    BY <1>2, Before DEF ListedFor
  <1>4. Numbering /\ NoOneOffBut({}) /\ Harmless'
    <2>1. CASE Remove(t, n, "walk")
      BY <2>1, <1>3, RemoveNumbers, WalkHarmless
    <2>2. CASE UNCHANGED <<cont, ids, harm>>
      BY <2>2 DEF Numbering, NoOneOffBut, Same, Harmless, IInv, TypeOK
    <2> QED
      BY <2>1, <2>2 DEF ReapOrphan, Refused
  <1>5. StagedFor(t)' /\ LockedFor(t)' /\ ListedFor(t)' /\ NotedBy(t)'
    BY <1>1, <1>2, <1>4, RequestKeeps
  <1>6. ScalingFor(t)'
    BY <1>2 DEF ScalingFor
  <1> QED
    BY <1>1, <1>2, <1>4, <1>5, <1>6, WorkMoves DEF Own

\* The names are those of the constants and of the command: they do not change.
LEMMA NamesStay ==
  ASSUME NEW t, cmd'[t] = cmd[t]
  PROVE  replica_names(cmd[t])' = replica_names(cmd[t])
  BY DEF replica_names, replica_names_for, resolve_replicas

LEMMA ReplicaScaling ==
  ASSUME IInv, NEW t \in Terminals, NEW n \in Names, pc[t] = "ensure", n \in work[t].todo,
         UNCHANGED <<pc, cmd, meddled>>,
         work'[t].existing = work[t].existing, work'[t].todo = work[t].todo \ {n},
         work'[t].err \in BOOLEAN, ~work'[t].err => ~work[t].err,
         \A m \in Names \ {n} : cont'[m].kind = cont[m].kind,
         work'[t].err \/ cont'[n].kind = "replica"
         \/ (work[t].existing[n].kind = "replica" /\ cont'[n].kind = cont[n].kind)
  PROVE  ScalingFor(t)'
  <1> SUFFICES ASSUME t \notin meddled
               PROVE  ScalingFor(t)'
    BY DEF ScalingFor
  <1>1. /\ work[t].todo \subseteq replica_names(cmd[t])
        /\ \A m \in Names : m \in work[t].todo \/ m \notin replica_names(cmd[t]) => AsListed(t, m)
        /\ work[t].err \/ \A m \in replica_names(cmd[t]) \ work[t].todo : cont[m].kind = "replica"
    BY Before DEF ScalingFor
  <1>2. replica_names(cmd[t]) \subseteq Names
    BY Before, AcceptedNames DEF StagedFor
  <1>3. \A m \in Names \ {n} : AsListed(t, m) => AsListed(t, m)'
    BY DEF AsListed
  <1>4. work'[t].err \/ cont'[n].kind = "replica"
    BY <1>1 DEF AsListed, Ours
  <1>5. /\ work'[t].todo \subseteq replica_names(cmd[t])
        /\ \A m \in Names : m \in work'[t].todo \/ m \notin replica_names(cmd[t]) => AsListed(t, m)'
        /\ work'[t].err \/ \A m \in replica_names(cmd[t]) \ work'[t].todo : cont'[m].kind = "replica"
    BY <1>1, <1>2, <1>3, <1>4
  <1>6. replica_names(cmd[t])' = replica_names(cmd[t])
    BY NamesStay
  <1> QED
    BY <1>5, <1>6 DEF ScalingFor

LEMMA ReplicaMoves ==
  ASSUME IInv, NEW t \in Terminals, NEW n \in Names, up_one_replica(t, n)
  PROVE  Moves(t)
  <1>1. Loop(t, n, "ensure") /\ (Done(t, n) \/ Failed(t, n)) /\ "ensure" \in Working
    BY DEF up_one_replica, KeepReplica, CreateReplica, Refused, Working, Stages, Ended
  <1>2. /\ pc[t] = "ensure" /\ n \in work[t].todo /\ pc' = pc /\ lock' = lock /\ cmd' = cmd
        /\ meddled' = meddled /\ UNCHANGED outside /\ Alone(t) /\ Kept
        /\ work'[t].existing = work[t].existing /\ work'[t].snapshot = work[t].snapshot
        /\ work'[t].mine = work[t].mine /\ work'[t].todo = work[t].todo \ {n}
        /\ work'[t].err \in BOOLEAN
        /\ (Failed(t, n) => work'[t].err) /\ (Done(t, n) => work'[t].err = work[t].err)
    BY <1>1, LoopKeeps
  <1>3. ~NameTaken(t, n) => ~is_one_off(cont[n])
    BY <1>2, Before DEF ListedFor, NameTaken
  <1> DEFINE Gently == Numbering /\ NoOneOffBut({}) /\ Harmless' /\ \A m \in Names \ {n} : cont'[m].kind = cont[m].kind
  <1>4. ASSUME UNCHANGED <<cont, ids, harm>>
        PROVE  Gently /\ cont'[n].kind = cont[n].kind
    BY <1>4 DEF Numbering, NoOneOffBut, Same, Harmless, IInv, TypeOK
  <1>5. ASSUME Set(n, TRUE)
        PROVE  Gently /\ cont'[n].kind = cont[n].kind
    <2>1. Numbering /\ NoOneOffBut({}) /\ (\A m \in Names : Same(m)) /\ harm' = harm
      BY <1>5, SetNumbers
    <2> QED
      BY <2>1 DEF Same, Harmless, IInv
  <1>6. ASSUME NEW up \in BOOLEAN, Put(t, n, "replica", up, "walk"), ~NameTaken(t, n)
        PROVE  Gently /\ cont'[n].kind = "replica"
    <2>1. /\ Numbering /\ NoOneOffBut({}) /\ cont'[n].kind = "replica"
          /\ \A m \in Names \ {n} : cont'[m] = cont[m]
          /\ harm' = harm \cup Harm(t, cont[n], "walk")
      BY <1>6, PutNumbers DEF Ours
    <2> QED
      BY <2>1, <1>3, <1>6, WalkHarmless
  <1>7. ASSUME Cleared(t, n, "walk"), ~NameTaken(t, n)
        PROVE  Gently
    <2>1. /\ Numbering /\ NoOneOffBut({})
          /\ \A m \in Names \ {n} : cont'[m] = cont[m]
          /\ harm' = harm \cup Harm(t, cont[n], "walk")
      BY <1>7, RemoveNumbers DEF Cleared
    <2> QED
      BY <2>1, <1>3, <1>7, WalkHarmless
  <1>8. /\ Gently
        /\ \/ work'[t].err
           \/ work'[t].err = work[t].err /\ cont'[n].kind = "replica"
           \/ /\ work'[t].err = work[t].err /\ work[t].existing[n].kind = "replica"
              /\ cont'[n].kind = cont[n].kind
    <2> HIDE DEF Gently
    <2>1. CASE KeepReplica(t, n)
      BY <2>1, <1>2, <1>4, <1>5 DEF KeepReplica
    <2>2. CASE CreateReplica(t, n)
      <3>1. (cmd[t].verb # "create") \in BOOLEAN
        OBVIOUS
      <3> QED
        BY <2>2, <3>1, <1>2, <1>6, <1>7 DEF CreateReplica
    <2>3. CASE Refused(t, n)
      BY <2>3, <1>2, <1>4 DEF Refused
    <2> QED
      BY <2>1, <2>2, <2>3 DEF up_one_replica
  <1>9. StagedFor(t)' /\ LockedFor(t)' /\ ListedFor(t)' /\ NotedBy(t)'
    BY <1>1, <1>2, <1>8, RequestKeeps
  <1>10. ScalingFor(t)'
    BY <1>2, <1>8, ReplicaScaling
  <1> QED
    BY <1>1, <1>2, <1>8, <1>9, <1>10, WorkMoves DEF Own

LEMMA AfterUpMoves ==
  ASSUME IInv, NEW t \in Terminals, pc[t] \in {"ensure", "surplus"}, AfterUp(t), UNCHANGED <<podman, outside>>
  PROVE  Moves(t)
  <1>1. lock = t
    BY Before DEF Working, Stages, Ended
  <1> DEFINE stage == IF cmd[t].mode = "watch" THEN "watching" ELSE "capture"
  <1>2. CASE cmd[t].verb = "up" /\ cmd[t].mode # "detach" /\ On(t, stage)
    <2>1. cmd[t].mode \in Modes
      BY Before, CommandTyped
    <2>2. stage \in Plain \cap Reached(cmd[t])
      BY <1>2, <2>1 DEF Plain, Reached, Modes
    <2> QED
      BY <1>1, <1>2, <2>2, OnMoves
  <1>3. CASE End(t, "ok")
    BY <1>3, EndMoves
  <1> QED
    BY <1>2, <1>3 DEF AfterUp

LEMMA EnsuredMoves ==
  ASSUME IInv, NEW t \in Terminals, Ensured(t)
  PROVE  Moves(t)
  <1>1. /\ pc[t] = "ensure" /\ work[t].todo = {} /\ UNCHANGED <<podman, outside>>
        /\ UNCHANGED <<cont, ids, cmd, meddled>>
    BY DEF Ensured, Through, podman, outside
  <1>2. /\ lock = t /\ "surplus" \in Stages \cap Reached(cmd[t]) /\ Accepted(cmd[t])
        /\ cmd[t] \in CommandsOf[t]
    BY <1>1, Before DEF Reached, Ended, Working, Stages, StagedFor
  <1>3. ASSUME ~work[t].err, Over(t, "surplus", surplus(t))
        PROVE  Moves(t)
    <2>1. surplus(t) \in SUBSET Names
      BY DEF surplus
    <2>2. /\ Alone(t) /\ Kept /\ pc'[t] = "surplus" /\ lock' = lock
          /\ work'[t] = [work[t] EXCEPT !.todo = surplus(t)]
      BY <1>1, <1>2, <1>3, <2>1, OverKeeps
    <2>3. /\ work'[t].todo = surplus(t) /\ work'[t].existing = work[t].existing
          /\ work'[t].mine = work[t].mine /\ work'[t].snapshot = work[t].snapshot
      BY <2>2, Before DEF Notes
    <2>4. StagedFor(t)' /\ LockedFor(t)' /\ NotedBy(t)'
      BY <1>1, <1>2, <2>2, <2>3, StageKeeps
    <2>5. ListedFor(t)'
      BY <1>1, <2>1, <2>2, <2>3, Before DEF ListedFor, surplus
    <2>6. ScalingFor(t)'
      <3> SUFFICES ASSUME t \notin meddled
                   PROVE  ScalingFor(t)'
        BY <1>1 DEF ScalingFor
      <3>1. /\ \A n \in Names : n \notin replica_names(cmd[t]) => AsListed(t, n)
            /\ \A n \in replica_names(cmd[t]) : cont[n].kind = "replica"
        BY <1>1, <1>3, Before DEF ScalingFor
      <3>2. \A n \in surplus(t) : n \notin replica_names(cmd[t])
        BY DEF surplus
      <3>3. \A n \in Names : cont[n].kind = "replica" => n \in surplus(t) \/ n \in replica_names(cmd[t])
        BY <3>1 DEF surplus, AsListed, is_one_off, Ours
      <3>4. replica_names(cmd[t])' = replica_names(cmd[t])
        BY <1>1, NamesStay
      <3> QED
        BY <1>1, <2>2, <2>3, <3>1, <3>2, <3>3, <3>4 DEF ScalingFor
    <2> QED
      BY <1>1, <2>2, <2>4, <2>5, <2>6, QuietMoves DEF Own
  <1> QED
    BY <1>1, <1>3, EndMoves, AfterUpMoves DEF Ensured

LEMMA SurplusMoves ==
  ASSUME IInv, NEW t \in Terminals, NEW n \in Names, stop_and_remove(t, n)
  PROVE  Moves(t)
  <1>1. Loop(t, n, "surplus") /\ (Done(t, n) \/ Failed(t, n)) /\ "surplus" \in Working
    BY DEF stop_and_remove, Working, Stages, Ended
  <1>2. /\ pc[t] = "surplus" /\ n \in work[t].todo /\ pc' = pc /\ lock' = lock /\ cmd' = cmd
        /\ meddled' = meddled /\ UNCHANGED outside /\ Alone(t) /\ Kept
        /\ work'[t].existing = work[t].existing /\ work'[t].snapshot = work[t].snapshot
        /\ work'[t].mine = work[t].mine /\ work'[t].todo = work[t].todo \ {n}
        /\ work'[t].err \in BOOLEAN
        /\ (Failed(t, n) => work'[t].err) /\ (Done(t, n) => work'[t].err = work[t].err)
    BY <1>1, LoopKeeps
  <1>3. ~is_one_off(cont[n])
    BY <1>2, Before DEF ListedFor
  <1>4. /\ Numbering /\ NoOneOffBut({}) /\ Harmless'
        /\ \/ work'[t].err
           \/ /\ work'[t].err = work[t].err /\ cont'[n] = None
              /\ \A m \in Names \ {n} : cont'[m] = cont[m]
    <2>1. CASE Remove(t, n, "walk") /\ Done(t, n)
      BY <2>1, <1>2, <1>3, RemoveNumbers, WalkHarmless
    <2>2. CASE Set(n, FALSE) /\ Failed(t, n)
      <3>1. Numbering /\ NoOneOffBut({}) /\ harm' = harm
        BY <2>2, SetNumbers
      <3> QED
        BY <2>2, <3>1, <1>2 DEF Harmless, IInv
    <2> QED
      BY <2>1, <2>2 DEF stop_and_remove
  <1>5. StagedFor(t)' /\ LockedFor(t)' /\ ListedFor(t)' /\ NotedBy(t)'
    BY <1>1, <1>2, <1>4, RequestKeeps
  <1>6. ScalingFor(t)'
    <2> SUFFICES ASSUME t \notin meddled, ~work'[t].err
                 PROVE  ScalingFor(t)'
      BY <1>2 DEF ScalingFor
    <2>1. /\ \A m \in replica_names(cmd[t]) : cont[m].kind = "replica" /\ m \notin work[t].todo
          /\ \A m \in Names : cont[m].kind = "replica" =>
               m \in work[t].todo \/ m \in replica_names(cmd[t])
      BY <1>2, <1>4, Before DEF ScalingFor
    <2>2. replica_names(cmd[t]) \subseteq Names
      BY <1>2, Before, AcceptedNames DEF StagedFor
    <2>3. /\ \A m \in replica_names(cmd[t]) : cont'[m].kind = "replica" /\ m \notin work'[t].todo
          /\ \A m \in Names : cont'[m].kind = "replica" =>
               m \in work'[t].todo \/ m \in replica_names(cmd[t])
      BY <1>2, <1>4, <2>1, <2>2 DEF None
    <2>4. replica_names(cmd[t])' = replica_names(cmd[t])
      BY <1>2, NamesStay
    <2> QED
      BY <1>2, <2>3, <2>4 DEF ScalingFor
  <1> QED
    BY <1>1, <1>2, <1>4, <1>5, <1>6, WorkMoves DEF Own

LEMMA SurplusGoneMoves ==
  ASSUME IInv, NEW t \in Terminals, SurplusGone(t)
  PROVE  Moves(t)
  BY EndMoves, AfterUpMoves DEF SurplusGone, Through

(***************************************************************************)
(* A foreground up.                                                        *)
(***************************************************************************)

LEMMA CaptureMoves ==
  ASSUME IInv, NEW t \in Terminals, Capture(t)
  PROVE  Moves(t)
  <1>1. pc[t] = "capture" /\ UNCHANGED <<podman, outside>>
    BY DEF Capture
  <1>2. lock = t /\ "attached" \in Plain \cap Reached(cmd[t])
    BY <1>1, Before DEF Reached, Ended, Working, Stages, Plain
  <1>3. ASSUME work' = [work EXCEPT ![t].snapshot = snapshot_containers],
               lock' = IF lets_go(cmd[t]) THEN Free ELSE lock,
               Go(t, "attached")
        PROVE  Moves(t)
    <2> DEFINE w == [work[t] EXCEPT !.snapshot = snapshot_containers]
    <2>1. w \in Notes /\ w.mine = work[t].mine /\ w.snapshot = snapshot_containers
      <3>1. snapshot_containers \in [Names -> Nat]
        BY DEF snapshot_containers, IInv, TypeOK, Containers
      <3> QED
        BY <3>1, Before DEF Notes
    <2>2. work' = [work EXCEPT ![t] = w]
      BY <1>3
    <2> HIDE DEF w
    <2>3. "attached" \notin Working
      BY DEF Working
    <2>4. \A n \in Names : w.snapshot[n] \in {work[t].snapshot[n], snapshot_containers[n]}
      BY <2>1
    <2>5. lock' \in {lock, IF lock = t THEN Free ELSE lock} /\ (~lets_go(cmd[t]) => lock' = t)
      BY <1>2, <1>3
    <2> QED
      BY <1>1, <1>2, <1>3, <2>1, <2>2, <2>3, <2>4, <2>5, PlainMoves
  <1> QED
    BY <1>1, <1>3, EndMoves DEF Capture

LEMMA DetachMoves ==
  ASSUME IInv, NEW t \in Terminals, AllEnded(t) \/ Interrupted(t)
  PROVE  Moves(t)
  <1>1. PICK failed \in BOOLEAN : Detach(t, failed)
    BY DEF AllEnded, Interrupted
  <1>2. pc[t] = "attached"
    BY DEF AllEnded, Interrupted
  <1> DEFINE stage == IF lock = t THEN "relist" ELSE "relock"
             w == [work[t] EXCEPT !.err = failed]
  <1>3. stage \in Plain \cap Reached(cmd[t])
    BY <1>2, Before DEF Reached, Ended, Plain
  <1>4. w \in Notes /\ w.mine = work[t].mine /\ w.snapshot = work[t].snapshot
    BY Before DEF Notes
  <1>5. Go(t, stage) /\ work' = [work EXCEPT ![t] = w] /\ lock' = lock /\ UNCHANGED <<podman, outside>>
    BY <1>1 DEF Detach
  <1>6. (stage \in Working => lock' = t) /\ stage # "attached"
    BY <1>5 DEF Working
  <1> HIDE DEF stage, w
  <1> QED
    BY <1>3, <1>4, <1>5, <1>6, PlainMoves

LEMMA FirstExitedMoves ==
  ASSUME IInv, NEW t \in Terminals, FirstExited(t)
  PROVE  Moves(t)
  <1>1. pc[t] = "attached" /\ cmd[t].mode = "abort" /\ On(t, "select") /\ UNCHANGED <<podman, outside>>
    BY DEF FirstExited
  <1>2. lock = t
    BY <1>1, Before DEF LockedFor, lets_go
  <1>3. "select" \in Plain \cap Reached(cmd[t])
    BY <1>1, Before DEF Reached, Ended, Plain
  <1> QED
    BY <1>1, <1>2, <1>3, OnMoves

LEMMA RelockMoves ==
  ASSUME IInv, NEW t \in Terminals, Relock(t)
  PROVE  Moves(t)
  <1>1. /\ pc[t] = "relock" /\ lock = Free /\ lock' = t /\ Go(t, "relist")
        /\ work' = work /\ UNCHANGED <<podman, outside>>
    BY DEF Relock, acquire
  <1>2. "relist" \in Plain \cap Reached(cmd[t])
    BY <1>1, Before DEF Reached, Ended, Plain
  <1>3. work[t] \in Notes /\ work' = [work EXCEPT ![t] = work[t]]
    BY <1>1 DEF IInv, TypeOK
  <1> QED
    BY <1>1, <1>2, <1>3, PlainMoves

LEMMA SnapshotMoves ==
  ASSUME IInv, NEW t \in Terminals, stop_snapshot(t)
  PROVE  Moves(t)
  <1>1. pc[t] = "relist" /\ UNCHANGED <<podman, outside>> /\ UNCHANGED <<cont, ids, cmd>>
    BY DEF stop_snapshot, podman, outside
  <1>2. lock = t /\ "stopping" \in Stages \cap Reached(cmd[t])
    BY <1>1, Before DEF Reached, Ended, Working, Stages
  <1>3. ASSUME Over(t, "stopping", SameReplicas(t))
        PROVE  Moves(t)
    <2>1. SameReplicas(t) \in SUBSET Names
      BY DEF SameReplicas, live_project_replicas
    <2>2. /\ Alone(t) /\ Kept /\ pc'[t] = "stopping" /\ lock' = lock
          /\ work'[t] = [work[t] EXCEPT !.todo = SameReplicas(t)]
      BY <1>1, <1>2, <1>3, <2>1, OverKeeps
    <2>3. /\ work'[t].todo = SameReplicas(t)
          /\ work'[t].mine = work[t].mine /\ work'[t].snapshot = work[t].snapshot
      BY <2>2, Before DEF Notes
    <2>4. StagedFor(t)' /\ LockedFor(t)' /\ NotedBy(t)'
      BY <1>1, <1>2, <2>2, <2>3, StageKeeps DEF SameReplicas
    <2>5. ListedFor(t)' /\ ScalingFor(t)'
      BY <2>2 DEF ListedFor, ScalingFor
    <2> QED
      BY <1>1, <2>2, <2>4, <2>5, QuietMoves DEF Own
  <1> QED
    BY <1>1, <1>3, EndMoves DEF stop_snapshot

\* The containers stopped have the ID that was captured, and are the replicas they
\* were then.
LEMMA StopTargetMoves ==
  ASSUME IInv, NEW t \in Terminals, NEW n \in Names, stop_container_target(t, n)
  PROVE  Moves(t)
  <1>1. Loop(t, n, "stopping") /\ (Done(t, n) \/ Failed(t, n)) /\ "stopping" \in Working
    BY DEF stop_container_target, Refused, Working, Stages, Ended
  <1>2. /\ pc[t] = "stopping" /\ n \in work[t].todo /\ pc' = pc /\ lock' = lock /\ cmd' = cmd
        /\ meddled' = meddled /\ UNCHANGED outside /\ Alone(t) /\ Kept
        /\ work'[t].existing = work[t].existing /\ work'[t].snapshot = work[t].snapshot
        /\ work'[t].mine = work[t].mine /\ work'[t].todo \subseteq work[t].todo
    BY <1>1, LoopKeeps
  <1>3. \A m \in Target(t, n) : cont[m].kind = "replica" /\ Harm(t, cont[m], "stop") = {}
    <2>1. work[t].snapshot[n] # 0
      BY <1>2, Before DEF NotedBy
    <2>2. \A m \in Target(t, n) : m \in Names /\ cont[m].id = work[t].snapshot[n]
      BY DEF Target
    <2>3. \A m \in Target(t, n) : cont[m].kind = "replica"
      BY <2>1, <2>2, Before DEF NotedBy
    <2> QED
      BY <2>2, <2>3 DEF Harm
  <1>4. Numbering /\ NoOneOffBut({}) /\ Harmless'
    <2>1. CASE /\ cont' = [m \in Names |-> IF m \in Target(t, n) THEN [cont[m] EXCEPT !.up = FALSE] ELSE cont[m]]
               /\ harm' = harm \cup UNION {Harm(t, cont[m], "stop") : m \in Target(t, n)}
               /\ UNCHANGED ids
      <3>1. harm' = harm
        BY <2>1, <1>3
      <3>2. cont' \in [Names -> Containers] /\ \A m \in Names : Same(m)
        <4>1. ASSUME NEW m \in Names PROVE cont'[m] \in Containers /\ Same(m)
          <5>1. cont[m] \in Containers
            BY DEF IInv, TypeOK
          <5>2. cont'[m] = cont[m] \/ cont'[m] = [cont[m] EXCEPT !.up = FALSE]
            BY <2>1
          <5> QED
            BY <5>1, <5>2 DEF Containers, Same
        <4> QED
          BY <2>1, <4>1
      <3> QED
        BY <2>1, <3>1, <3>2 DEF Numbering, NoOneOffBut, is_one_off, Same, Harmless, IInv, TypeOK
    <2>2. CASE UNCHANGED <<cont, ids, harm>>
      BY <2>2 DEF Numbering, NoOneOffBut, Same, Harmless, IInv, TypeOK
    <2> QED
      BY <2>1, <2>2 DEF stop_container_target, Refused
  <1>5. StagedFor(t)' /\ LockedFor(t)' /\ ListedFor(t)' /\ NotedBy(t)'
    BY <1>1, <1>2, <1>4, RequestKeeps
  <1>6. ScalingFor(t)'
    BY <1>2 DEF ScalingFor
  <1> QED
    BY <1>1, <1>2, <1>4, <1>5, <1>6, WorkMoves DEF Own

LEMMA AttachedDoneMoves ==
  ASSUME IInv, NEW t \in Terminals, AttachedDone(t)
  PROVE  Moves(t)
  BY EndMoves DEF AttachedDone, Through

(***************************************************************************)
(* start, stop and down.                                                   *)
(***************************************************************************)

LEMMA SelectMoves ==
  ASSUME IInv, NEW t \in Terminals, Select(t)
  PROVE  Moves(t)
  <1>1. pc[t] = "select" /\ UNCHANGED <<podman, outside>> /\ UNCHANGED <<cont, ids, cmd>>
    BY DEF Select, podman, outside
  <1>2. lock = t /\ "act" \in Stages \cap Plain \cap Reached(cmd[t])
    BY <1>1, Before DEF Reached, Ended, Working, Stages, Plain
  <1>3. ASSUME NEW names \in SUBSET Names, Over(t, "act", names)
        PROVE  Moves(t)
    <2>1. /\ Alone(t) /\ Kept /\ pc'[t] = "act" /\ lock' = lock
          /\ work'[t] = [work[t] EXCEPT !.todo = names]
      BY <1>1, <1>2, <1>3, OverKeeps
    <2>2. work'[t].mine = work[t].mine /\ work'[t].snapshot = work[t].snapshot
      BY <2>1, Before DEF Notes
    <2>3. Own(t)'
      BY <1>1, <1>2, <2>1, <2>2, PlainKeeps
    <2> QED
      BY <1>1, <2>1, <2>3, QuietMoves
  <1>4. live_service_replicas \in SUBSET Names /\ live_project_replicas \in SUBSET Names
    BY DEF live_service_replicas, live_project_replicas
  <1> QED
    BY <1>1, <1>3, <1>4, EndMoves DEF Select

LEMMA ActMoves ==
  ASSUME IInv, NEW t \in Terminals, NEW n \in Names, Act(t, n)
  PROVE  Moves(t)
  <1>1. Loop(t, n, "act") /\ (Done(t, n) \/ Failed(t, n)) /\ "act" \in Working
    BY DEF Act, Refused, Working, Stages, Ended
  <1>2. /\ pc[t] = "act" /\ n \in work[t].todo /\ pc' = pc /\ lock' = lock /\ cmd' = cmd
        /\ meddled' = meddled /\ UNCHANGED outside /\ Alone(t) /\ Kept
        /\ work'[t].existing = work[t].existing /\ work'[t].snapshot = work[t].snapshot
        /\ work'[t].mine = work[t].mine /\ work'[t].todo \subseteq work[t].todo
    BY <1>1, LoopKeeps
  <1>3. Numbering /\ NoOneOffBut({}) /\ Harmless'
    <2>1. CASE Remove(t, n, "down")
      <3>1. Harm(t, cont[n], "down") = {}
        BY DEF Harm
      <3>2. Numbering /\ NoOneOffBut({}) /\ harm' = harm
        BY <2>1, <3>1, RemoveNumbers
      <3> QED
        BY <3>2 DEF Harmless, IInv
    <2>2. CASE Set(n, cmd[t].verb = "start")
      BY <2>2, SetNumbers DEF Harmless, IInv
    <2>3. CASE UNCHANGED <<cont, ids, harm>>
      BY <2>3 DEF Numbering, NoOneOffBut, Same, Harmless, IInv, TypeOK
    <2> QED
      BY <2>1, <2>2, <2>3 DEF Act, Refused
  <1>4. StagedFor(t)' /\ LockedFor(t)' /\ ListedFor(t)' /\ NotedBy(t)'
    BY <1>1, <1>2, <1>3, RequestKeeps
  <1>5. ScalingFor(t)'
    BY <1>2 DEF ScalingFor
  <1> QED
    BY <1>1, <1>2, <1>3, <1>4, <1>5, WorkMoves DEF Own

LEMMA ActedMoves ==
  ASSUME IInv, NEW t \in Terminals, Acted(t)
  PROVE  Moves(t)
  BY EndMoves DEF Acted, Through

(***************************************************************************)
(* run.                                                                    *)
(***************************************************************************)

\* Where a run is, it has the lock, and its name is one of its own.
LEMMA RunBefore ==
  ASSUME IInv, NEW t \in Terminals, pc[t] \in {"name", "make", "launch", "follow", "clean"}
  PROVE  /\ cmd[t].verb = "run" /\ cmd[t].name \in Names /\ pc[t] \in Working /\ lock = t
         /\ {"make", "launch", "follow", "clean"} \subseteq Reached(cmd[t])
  BY Before, CommandTyped DEF Reached, Ended, Working, Stages

LEMMA ExistsMoves ==
  ASSUME IInv, NEW t \in Terminals, container_exists(t)
  PROVE  Moves(t)
  <1>1. pc[t] = "name" /\ UNCHANGED <<podman, outside>> /\ UNCHANGED <<cont, ids, cmd>>
    BY DEF container_exists, podman, outside
  <1>2. lock = t /\ "make" \in Stages \cap Reached(cmd[t]) /\ cmd[t].verb = "run"
    BY <1>1, RunBefore DEF Stages
  <1>3. ASSUME cmd[t].name = t \/ cont[cmd[t].name] = None, On(t, "make")
        PROVE  Moves(t)
    <2>1. /\ Go(t, "make") /\ lock' = lock /\ work[t] \in Notes
          /\ work' = [work EXCEPT ![t] = work[t]]
      BY <1>3, Before DEF On, IInv, TypeOK
    <2>2. Alone(t) /\ Kept /\ pc'[t] = "make" /\ work'[t] = work[t]
      BY <1>1, <1>2, <2>1, GoKeeps
    <2>3. StagedFor(t)' /\ LockedFor(t)' /\ NotedBy(t)'
      BY <1>1, <1>2, <2>1, <2>2, StageKeeps
    <2>4. ListedFor(t)'
      BY <1>1, <1>2, <1>3, <2>2, Before DEF ListedFor, is_one_off, None
    <2>5. ScalingFor(t)'
      BY <2>2 DEF ScalingFor
    <2> QED
      BY <1>1, <2>2, <2>3, <2>4, <2>5, QuietMoves DEF Own
  <1> QED
    BY <1>1, <1>3, EndMoves DEF container_exists

LEMMA CreateMoves ==
  ASSUME IInv, NEW t \in Terminals, CreateOneOff(t)
  PROVE  Moves(t)
  <1> DEFINE n == cmd[t].name
             how == Replacing(cmd[t], t)
  <1>1. pc[t] = "make" /\ meddled' = meddled /\ UNCHANGED outside /\ cmd' = cmd
    BY DEF CreateOneOff, outside
  <1>2. /\ cmd[t].verb = "run" /\ n \in Names /\ pc[t] \in Working /\ lock = t
        /\ "launch" \in Reached(cmd[t])
    BY <1>1, RunBefore
  <1> HIDE DEF n, how
  <1>3. ASSUME harm' = harm \cup Harm(t, cont[n], how)
        PROVE  Harmless'
    <2>1. ListedFor(t)
      BY Before
    <2>2. CASE n = t
      BY <1>1, <1>2, <1>3, <2>1, <2>2 DEF n, how, Replacing, ListedFor, Harm, Harmless, IInv
    <2>3. CASE n # t
      BY <1>1, <1>2, <1>3, <2>1, <2>3 DEF n, how, Replacing, ListedFor, Harm, Harmless, IInv
    <2> QED
      BY <2>2, <2>3
  <1>4. ASSUME Numbering, NoOneOffBut({n}), Harmless', Alone(t), Kept, Own(t)'
        PROVE  Moves(t)
    BY <1>1, <1>2, <1>4, WorkMoves DEF n
  <1>5. CASE Put(t, n, "oneoff", FALSE, how) /\ End(t, "failed")
    <2>1. Numbering /\ NoOneOffBut({n}) /\ harm' = harm \cup Harm(t, cont[n], how)
      BY <1>2, <1>5, PutNumbers DEF Ours
    <2>2. Alone(t) /\ Kept /\ Own(t)'
      BY <1>1, <1>5, <2>1, EndKeeps DEF Numbering
    <2> QED
      BY <1>3, <1>4, <2>1, <2>2
  <1>6. CASE Cleared(t, n, how) /\ End(t, "failed")
    <2>1. Numbering /\ NoOneOffBut({n}) /\ harm' = harm \cup Harm(t, cont[n], how)
      BY <1>2, <1>6, RemoveNumbers DEF Cleared, NoOneOffBut
    <2>2. Alone(t) /\ Kept /\ Own(t)'
      BY <1>1, <1>6, <2>1, EndKeeps DEF Numbering
    <2> QED
      BY <1>3, <1>4, <2>1, <2>2
  <1>7. CASE End(t, "failed") /\ UNCHANGED <<cont, ids, harm>>
    BY <1>1, <1>7, EndMoves DEF podman
  <1>8. ASSUME Put(t, n, "oneoff", FALSE, how), work' = [work EXCEPT ![t].mine = ids + 1],
               Go(t, "launch"), UNCHANGED lock
        PROVE  Moves(t)
    <2> DEFINE w == [work[t] EXCEPT !.mine = ids + 1]
    <2>1. /\ Numbering /\ NoOneOffBut({n}) /\ harm' = harm \cup Harm(t, cont[n], how)
          /\ cont'[n].kind = "oneoff" /\ cont'[n].id = ids + 1 /\ ids' = ids + 1
          /\ \A m \in Names \ {n} : cont'[m] = cont[m]
      BY <1>2, <1>8, PutNumbers DEF Ours
    <2>2. w \in Notes /\ w.mine = ids + 1 /\ w.snapshot = work[t].snapshot
      <3>1. work[t] \in Notes /\ ids + 1 \in Nat
        BY Before DEF IInv, TypeOK
      <3> QED
        BY <3>1 DEF Notes
    <2>3. work' = [work EXCEPT ![t] = w]
      BY <1>8
    <2> HIDE DEF w
    <2>4. "launch" \in Stages
      BY DEF Stages
    <2>5. Alone(t) /\ Kept /\ pc'[t] = "launch" /\ work'[t] = w
      BY <1>1, <1>8, <2>2, <2>3, <2>4, GoKeeps
    <2>6. StagedFor(t)'
      <3>1. (pc[t] \in Reached(cmd[t]))'
        BY <1>1, <1>2, <2>5 DEF Reached
      <3> QED
        BY <2>5, <3>1 DEF StagedFor
    <2>7. LockedFor(t)' /\ ListedFor(t)' /\ ScalingFor(t)'
      BY <1>2, <1>8, <2>5 DEF LockedFor, ListedFor, ScalingFor
    <2>8. NotedBy(t)'
      <3> USE DEF IInv, TypeOK, Numbered, Containers
      <3>1. /\ \A m \in Names : cont[m].id \in Nat /\ cont[m].id <= ids
            /\ \A m \in Names : work[t].snapshot[m] \in Nat /\ work[t].snapshot[m] <= ids
        BY Before DEF NotedBy, Notes
      <3>2. w.mine <= ids' /\ w.mine # 0 /\ \A m \in Names : w.snapshot[m] <= ids'
        BY <2>1, <2>2, <3>1
      <3>3. \A m \in Names : cont'[m].id = w.mine => m = n
        BY <2>1, <2>2, <3>1
      <3>4. \A m \in Names \ {n} : cont'[m].id # 0 =>
              \A k \in Names : cont'[m].id = w.snapshot[k] => cont'[m].kind = "replica"
        BY <2>1, <2>2, Before DEF NotedBy
      <3>5. \A k \in Names : cont'[n].id # w.snapshot[k]
        BY <2>1, <2>2, <3>1
      <3> QED
        BY <2>1, <2>5, <3>2, <3>3, <3>4, <3>5 DEF NotedBy
    <2> QED
      BY <1>3, <1>4, <2>1, <2>5, <2>6, <2>7, <2>8 DEF Own
  <1> QED
    BY <1>5, <1>6, <1>7, <1>8 DEF CreateOneOff, n, how

\* A run that has its container goes on to the next stage.
LEMMA RunOnMoves ==
  ASSUME IInv, NEW t \in Terminals, pc[t] \in {"launch", "follow"}, NEW stage \in {"follow", "clean"},
         Go(t, stage), lock' = lock, meddled' = meddled, UNCHANGED outside,
         work' = work \/ work' = [work EXCEPT ![t].err = TRUE],
         Numbering, NoOneOffBut({}), Harmless'
  PROVE  Moves(t)
  <1>1. /\ cmd[t].verb = "run" /\ pc[t] \in Working /\ lock = t /\ stage \in Reached(cmd[t])
        /\ cmd' = cmd /\ stage \in Stages /\ work[t] \in Notes
    BY RunBefore, Before DEF outside, Stages
  <1>2. PICK w \in Notes : /\ work' = [work EXCEPT ![t] = w]
                           /\ w.mine = work[t].mine /\ w.snapshot = work[t].snapshot
    <2>1. CASE work' = work
      BY <1>1, <2>1 DEF IInv, TypeOK
    <2>2. CASE work' = [work EXCEPT ![t].err = TRUE]
      <3> DEFINE w == [work[t] EXCEPT !.err = TRUE]
      <3>1. w \in Notes /\ w.mine = work[t].mine /\ w.snapshot = work[t].snapshot
        BY <1>1 DEF Notes
      <3>2. work' = [work EXCEPT ![t] = w]
        BY <2>2
      <3> HIDE DEF w
      <3> QED
        BY <3>1, <3>2
    <2> QED
      BY <2>1, <2>2
  <1>3. Alone(t) /\ Kept /\ pc'[t] = stage /\ work'[t] = w
    BY <1>1, <1>2, GoKeeps
  <1>4. work[t].mine # 0
    BY Before DEF NotedBy
  <1>5. StagedFor(t)'
    <2>1. (pc[t] \in Reached(cmd[t]))'
      BY <1>1, <1>3 DEF Reached
    <2> QED
      BY <1>3, <2>1 DEF StagedFor
  <1>6. LockedFor(t)' /\ ListedFor(t)' /\ ScalingFor(t)'
    BY <1>1, <1>3 DEF LockedFor, ListedFor, ScalingFor
  <1>7. NotedBy(t)'
    BY <1>2, <1>3, <1>4, NotedKept
  <1> QED
    BY <1>1, <1>3, <1>5, <1>6, <1>7, WorkMoves DEF Own, NoOneOffBut

LEMMA StartMoves ==
  ASSUME IInv, NEW t \in Terminals, StartOneOff(t)
  PROVE  Moves(t)
  <1>1. pc[t] = "launch" /\ meddled' = meddled /\ UNCHANGED outside /\ cmd' = cmd
    BY DEF StartOneOff, outside
  <1>2. cmd[t].name \in Names /\ pc[t] \in Working
    BY <1>1, RunBefore
  <1>3. CASE Set(cmd[t].name, TRUE) /\ End(t, "ok")
    <2>1. Numbering /\ NoOneOffBut({}) /\ harm' = harm
      BY <1>2, <1>3, SetNumbers
    <2>2. Alone(t) /\ Kept /\ Own(t)'
      BY <1>1, <1>3, <2>1, EndKeeps DEF Numbering
    <2> QED
      BY <1>1, <1>2, <2>1, <2>2, WorkMoves DEF Harmless, IInv
  <1>4. CASE Set(cmd[t].name, TRUE) /\ On(t, "follow")
    <2>1. Numbering /\ NoOneOffBut({}) /\ harm' = harm
      BY <1>2, <1>4, SetNumbers
    <2> QED
      BY <1>1, <1>4, <2>1, RunOnMoves DEF On, Harmless, IInv
  <1>5. CASE Unwell(t) /\ UNCHANGED <<cont, ids, harm>>
    <2>1. Numbering /\ NoOneOffBut({}) /\ Harmless'
      BY <1>5 DEF Numbering, NoOneOffBut, Same, Harmless, IInv, TypeOK
    <2> QED
      BY <1>1, <1>5, <2>1, RunOnMoves DEF Unwell
  <1> QED
    BY <1>3, <1>4, <1>5 DEF StartOneOff

LEMMA FollowMoves ==
  ASSUME IInv, NEW t \in Terminals, FollowOneOff(t)
  PROVE  Moves(t)
  <1>1. pc[t] = "follow" /\ UNCHANGED <<cont, ids, harm, meddled>> /\ UNCHANGED outside
    BY DEF FollowOneOff, podman
  <1>2. Numbering /\ NoOneOffBut({}) /\ Harmless'
    BY <1>1 DEF Numbering, NoOneOffBut, Same, Harmless, IInv, TypeOK
  <1> QED
    BY <1>1, <1>2, RunOnMoves DEF FollowOneOff, On, Unwell

LEMMA FinishMoves ==
  ASSUME IInv, NEW t \in Terminals, finish_run(t)
  PROVE  Moves(t)
  <1>1. pc[t] = "clean" /\ meddled' = meddled /\ UNCHANGED outside /\ cmd' = cmd
    BY DEF finish_run, outside
  <1>2. pc[t] \in Working
    BY <1>1, RunBefore
  <1>3. PICK r \in {"ok", "failed"} : End(t, r)
    BY DEF finish_run
  <1>4. Numbering /\ NoOneOffBut({}) /\ Harmless'
    <2>1. CASE UNCHANGED <<cont, ids, harm>>
      BY <2>1 DEF Numbering, NoOneOffBut, Same, Harmless, IInv, TypeOK
    <2>2. CASE \E n \in Created(t) : Remove(t, n, "clean")
      <3>1. PICK n \in Created(t) : Remove(t, n, "clean")
        BY <2>2
      <3>2. n \in Names /\ cont[n].id = work[t].mine
        BY DEF Created
      <3>3. cont[n].kind = "oneoff"
        BY <1>1, <3>2, Before DEF NotedBy
      <3>4. Harm(t, cont[n], "clean") = {}
        BY <3>2, <3>3 DEF Harm
      <3>5. Numbering /\ NoOneOffBut({}) /\ harm' = harm
        BY <3>1, <3>2, <3>4, RemoveNumbers
      <3> QED
        BY <3>5 DEF Harmless, IInv
    <2> QED
      BY <2>1, <2>2 DEF finish_run, CleanUp
  <1>5. Alone(t) /\ Kept /\ Own(t)'
    BY <1>1, <1>3, <1>4, EndKeeps DEF Numbering
  <1> QED
    BY <1>1, <1>2, <1>4, <1>5, WorkMoves

(***************************************************************************)
(* watch, and what is not podup.                                           *)
(***************************************************************************)

LEMMA WatchMoves ==
  ASSUME IInv, NEW t \in Terminals, watch_rebuild(t)
  PROVE  Moves(t)
  <1> DEFINE n == first_replica_name(cmd[t])
  <1>1. /\ pc[t] = "watching" /\ meddled' = meddled \cup (Terminals \ {t})
        /\ Put(t, n, "replica", TRUE, "watch")
        /\ UNCHANGED <<lock, pc, work, cmd>>
    BY DEF watch_rebuild, outside
  <1>2. n \in Names
    BY Before, FirstName
  <1> HIDE DEF n
  <1>3. /\ Numbering /\ NoOneOffBut({}) /\ harm' = harm \cup Harm(t, cont[n], "watch")
    BY <1>1, <1>2, PutNumbers DEF Ours
  <1>4. Harmless'
    <2>1. Harm(t, cont[n], "watch") \subseteq {"watch"}
      BY DEF Harm
    <2> QED
      BY <1>3, <2>1 DEF Harmless, IInv
  <1>5. Alone(t) /\ Aside(t)
    BY <1>1, <1>3 DEF Alone, Aside, NoOneOffBut
  <1>6. TypeOK'
    <2>1. harm' \subseteq {"watch", "pid", "oneoff", "later", "others"}
      BY <1>4 DEF Harmless
    <2> QED
      BY <1>1, <1>3, <2>1 DEF IInv, TypeOK, Numbering
  <1>7. Own(t)'
    <2>1. StagedFor(t)'
      <3>1. (pc[t] \in Reached(cmd[t]))'
        BY <1>1, Before DEF Reached
      <3> QED
        BY <1>1, <3>1 DEF StagedFor
    <2>2. LockedFor(t)' /\ ListedFor(t)' /\ ScalingFor(t)'
      BY <1>1 DEF LockedFor, ListedFor, ScalingFor, Working
    <2>3. NotedBy(t)'
      BY <1>1, <1>3, NotedKept
    <2> QED
      BY <2>1, <2>2, <2>3 DEF Own
  <1> QED
    BY <1>4, <1>5, <1>6, <1>7 DEF Moves

\* A container that exits stays the container it is.
LEMMA ExitKeeps ==
  ASSUME IInv, NEW n \in Names, Exit(n)
  PROVE  IInv'
  <1>1. Numbering /\ NoOneOffBut({}) /\ (\A m \in Names : Same(m)) /\ harm' = harm
    BY SetNumbers DEF Exit
  <1>2. UNCHANGED <<lock, pc, work, meddled, cmd>>
    BY DEF Exit, outside
  <1>3. Aside(Free)
    <2>1. NoOneOffBut(IF Free \in Terminals /\ pc[Free] = "make" THEN {cmd[Free].name} ELSE {})
      BY <1>1 DEF NoOneOffBut
    <2> QED
      BY <1>1, <1>2, <2>1 DEF Aside, Alone, Same
  <1>4. \A u \in Terminals : Own(u)'
    BY <1>3, OthersKeep, SizeAssumption
  <1>5. Numbered'
    BY <1>1, NumberedKept
  <1> QED
    BY <1>1, <1>2, <1>4, <1>5 DEF IInv, TypeOK, Harmless, Numbering

LEMMA ByHandKeeps ==
  ASSUME IInv, NEW n \in Names, ByHand(n)
  PROVE  IInv'
  <1>1. UNCHANGED <<lock, pc, work, cmd, harm>> /\ meddled' = Terminals
    BY DEF ByHand
  <1>2. Numbering /\ NoOneOffBut({})
    <2>1. CASE cont' = [cont EXCEPT ![n] = None] /\ UNCHANGED ids
      BY <2>1, NoneTyped DEF Numbering, NoOneOffBut, Same, IInv, TypeOK, is_one_off, None
    <2>2. CASE /\ cont' = [cont EXCEPT ![n] = [id |-> ids + 1, kind |-> "foreign", up |-> TRUE]]
               /\ ids' = ids + 1
      <3> DEFINE new == [id |-> ids + 1, kind |-> "foreign", up |-> TRUE]
      <3>1. new \in Containers /\ new.kind = "foreign" /\ new.id = ids + 1
        BY DEF Containers, IInv, TypeOK
      <3>2. cont' = [cont EXCEPT ![n] = new] /\ ids' = ids + 1
        BY <2>2
      <3> HIDE DEF new
      <3> QED
        BY <3>1, <3>2 DEF Numbering, NoOneOffBut, Same, IInv, TypeOK, is_one_off
    <2> QED
      BY <2>1, <2>2 DEF ByHand
  <1>3. Aside(Free)
    <2>1. NoOneOffBut(IF Free \in Terminals /\ pc[Free] = "make" THEN {cmd[Free].name} ELSE {})
      BY <1>2 DEF NoOneOffBut
    <2> QED
      BY <1>1, <1>2, <2>1 DEF Aside, Alone, IInv, TypeOK
  <1>4. \A u \in Terminals : Own(u)'
    BY <1>3, OthersKeep, SizeAssumption
  <1>5. Numbered'
    BY <1>2, NumberedKept
  <1> QED
    BY <1>1, <1>2, <1>4, <1>5 DEF IInv, TypeOK, Harmless, Numbering

(***************************************************************************)
(* The theorems.                                                           *)
(***************************************************************************)

LEMMA InitHolds == Init => IInv
  <1> SUFFICES ASSUME Init
               PROVE  IInv
    OBVIOUS
  <1>1. \A t \in Terminals : cmd[t] \in CommandsOf[t]
    BY CommandAssumption DEF Init
  <1>2. TypeOK
    BY <1>1, NoneTyped DEF Init, TypeOK, Stages, Ended
  <1>3. Numbered
    BY DEF Init, Numbered, Nothing, None
  <1>4. Harmless
    BY DEF Init, Harmless
  <1>5. ASSUME NEW t \in Terminals
        PROVE  Own(t)
    <2>1. pc[t] = "idle" /\ work[t] = Fresh /\ ids = 0 /\ cont = Nothing
      BY DEF Init
    <2>2. StagedFor(t)
      BY <2>1 DEF StagedFor, Reached, Ended
    <2>3. LockedFor(t) /\ ListedFor(t) /\ ScalingFor(t)
      BY <2>1 DEF LockedFor, ListedFor, ScalingFor, Working, Ended
    <2>4. NotedBy(t)
      BY <2>1 DEF NotedBy, Fresh, Nothing, None
    <2> QED
      BY <2>2, <2>3, <2>4 DEF Own
  <1> QED
    BY <1>2, <1>3, <1>4, <1>5 DEF IInv

LEMMA StepMoves ==
  ASSUME IInv, NEW t \in Terminals,
         \/ Step(t) \/ open_lock_file(t) \/ Interrupted(t) \/ Kill(t)
         \/ watch_rebuild(t) \/ EndWatch(t)
         \/ \E c \in CommandsOf[t] : Begin(t, c)
  PROVE  Moves(t)
  <1>1. CASE lock_project(t)
    BY <1>1, LockMoves
  <1>2. CASE Up(t)
    BY <1>2, OrphansMoves, ReapedMoves, CheckMoves, ListMoves, EnsuredMoves, SurplusGoneMoves,
       ReapMoves, ReplicaMoves, SurplusMoves DEF Up
  <1>3. CASE Attach(t)
    BY <1>3, CaptureMoves, DetachMoves, FirstExitedMoves, RelockMoves, SnapshotMoves,
       AttachedDoneMoves, StopTargetMoves DEF Attach
  <1>4. CASE Lifecycle(t)
    BY <1>4, SelectMoves, ActedMoves, ActMoves DEF Lifecycle
  <1>5. CASE RunOnce(t)
    BY <1>5, ExistsMoves, CreateMoves, StartMoves, FollowMoves, FinishMoves DEF RunOnce
  <1>6. CASE open_lock_file(t) \/ Kill(t) \/ EndWatch(t)
    BY <1>6, FailMoves
  <1>7. CASE Interrupted(t)
    BY <1>7, DetachMoves
  <1>8. CASE watch_rebuild(t)
    BY <1>8, WatchMoves
  <1>9. CASE \E c \in CommandsOf[t] : Begin(t, c)
    BY <1>9, BeginMoves
  <1> QED
    BY <1>1, <1>2, <1>3, <1>4, <1>5, <1>6, <1>7, <1>8, <1>9 DEF Step

LEMMA NextKeeps == IInv /\ [Next]_vars => IInv'
  <1>1. ASSUME IInv, Next
        PROVE  IInv'
    BY <1>1, StepMoves, MovesKeep, ExitKeeps, ByHandKeeps DEF Next
  <1>2. ASSUME IInv, UNCHANGED vars
        PROVE  IInv'
    <2>1. Numbering
      BY <1>2 DEF Numbering, Same, vars, IInv, TypeOK
    <2>2. Aside(Free)
      BY <1>2, <2>1 DEF Aside, Alone, NoOneOffBut, vars
    <2>3. \A u \in Terminals : Own(u)'
      BY <1>2, <2>2, OthersKeep, SizeAssumption
    <2>4. Numbered'
      BY <1>2, <2>1, NumberedKept
    <2> QED
      BY <1>2, <2>1, <2>3, <2>4 DEF IInv, TypeOK, Harmless, vars
  <1> QED
    BY <1>1, <1>2

\* The inductive invariant: commands at work have the lock, one at a time; what
\* they have listed and noted down means what it meant.
THEOREM Invariant == Spec => []IInv
  BY InitHolds, NextKeeps, PTL DEF Spec

\* No up or scale stops or deletes the container of a run, a final stop reaches
\* only replicas that were captured, and a run cleans up only its own container
\* (up_one_replica, remove_surplus_replicas, stop_snapshot, run), for any commands
\* on any number of terminals.
THEOREM HarmlessHolds == Spec => []Harmless
  <1>1. IInv => Harmless
    BY DEF IInv
  <1> QED
    BY <1>1, Invariant, PTL

\* A scale comes to its end in one way only: past the surplus, with no error.
LEMMA ScaleEnds ==
  ASSUME IInv, NEW t \in Terminals, Next, pc[t] # "ok", pc'[t] = "ok",
         cmd[t].scale # Unscaled, cmd[t].mode = "detach"
  PROVE  /\ pc[t] = "surplus" /\ work[t].todo = {} /\ ~work[t].err
         /\ cont' = cont
  <1>1. pc \in [Terminals -> Stages]
    BY DEF IInv, TypeOK
  <1>2. /\ cmd[t].verb \in {"up", "create", "scale"}
        /\ pc[t] \in {"lock", "orphans", "reap", "check", "list", "ensure", "surplus"} \cup Ended
    <2>1. cmd[t].verb \in {"up", "create", "scale"}
      BY Before, CommandTyped
    <2> QED
      BY <2>1, Before DEF Reached
  <1>3. ASSUME NEW stage, Go(t, stage)
        PROVE  stage = "ok"
    BY <1>1, <1>3 DEF Go
  <1>4. CASE lock_project(t)
    <2>1. First(cmd[t]) = "ok"
      BY <1>3, <1>4 DEF lock_project, acquire
    <2> QED
      BY <2>1, <1>2 DEF First
  <1>5. CASE \E n \in Names : ReapOrphan(t, n) \/ up_one_replica(t, n) \/ stop_and_remove(t, n)
    <2>1. pc' = pc
      BY <1>5 DEF ReapOrphan, up_one_replica, stop_and_remove, Loop
    <2> QED
      BY <2>1
  <1>6. CASE remove_orphans(t) \/ Reaped(t) \/ CheckScale(t) \/ ListExisting(t)
    BY <1>3, <1>6 DEF remove_orphans, Reaped, CheckScale, ListExisting, Over, On, End
  <1>7. CASE Ensured(t)
    BY <1>2, <1>3, <1>7 DEF Ensured, Over, End
  <1>8. CASE SurplusGone(t)
    <2>1. ~End(t, "failed")
      BY <1>3 DEF End
    <2> QED
      BY <1>8, <2>1 DEF SurplusGone, Through, podman
  <1>9. CASE Attach(t) \/ Lifecycle(t) \/ RunOnce(t)
    BY <1>2, <1>9 DEF Attach, Capture, AllEnded, FirstExited, Relock, stop_snapshot, AttachedDone,
         stop_container_target, Loop, Through, Lifecycle, Select, Acted, Act, RunOnce, container_exists,
         CreateOneOff, StartOneOff, FollowOneOff, finish_run, Ended
  <1>10. CASE open_lock_file(t) \/ Kill(t)
    BY <1>3, <1>10 DEF open_lock_file, Kill, End
  <1>11. CASE Interrupted(t) \/ watch_rebuild(t) \/ EndWatch(t)
    BY <1>2, <1>11 DEF Interrupted, watch_rebuild, EndWatch, Ended
  <1>12. CASE \E c \in CommandsOf[t] : Begin(t, c)
    <2>1. PICK c \in CommandsOf[t] : Begin(t, c)
      BY <1>12
    <2>2. pc'[t] = IF is_mutating(c) THEN "lock" ELSE First(c)
      BY <1>1, <2>1 DEF Begin
    <2>3. First(c) # "ok"
      BY FirstReached
    <2> QED
      BY <2>2, <2>3
  <1>13. CASE \E u \in Terminals \ {t} : \/ Step(u) \/ open_lock_file(u) \/ Interrupted(u) \/ Kill(u)
                                         \/ watch_rebuild(u) \/ EndWatch(u)
                                         \/ \E c \in CommandsOf[u] : Begin(u, c)
    <2>1. PICK u \in Terminals \ {t} : Moves(u)
      BY <1>13, StepMoves
    <2>2. pc'[t] = pc[t]
      BY <2>1 DEF Moves, Aside, Alone
    <2> QED
      BY <2>2
  <1>14. CASE \E n \in Names : Exit(n) \/ ByHand(n)
    BY <1>14 DEF Exit, ByHand
  <1> QED
    BY <1>4, <1>5, <1>6, <1>7, <1>8, <1>9, <1>10, <1>11, <1>12, <1>13, <1>14 DEF Next, Step, Up

\* A scale that reports success leaves exactly the replicas asked for, unless
\* somebody without the lock changed the project's containers meanwhile
\* (Engine::scale, remove_surplus_replicas).
THEOREM ScaleDeliversHolds == Spec => ScaleDelivers
  <1> DEFINE Delivers(t) ==
        (pc[t] # "ok" /\ pc'[t] = "ok" /\ cmd[t].verb # "run" /\ cmd[t].scale # Unscaled
           /\ cmd[t].mode = "detach" /\ t \notin meddled) =>
          {n \in Names : cont'[n].kind = "replica"} = replica_names_for(cmd[t].scale)
  <1>1. IInv /\ [Next]_vars => [\A t \in Terminals : Delivers(t)]_vars
    <2> SUFFICES ASSUME IInv, Next, NEW t \in Terminals, pc[t] # "ok", pc'[t] = "ok",
                        cmd[t].scale # Unscaled, cmd[t].mode = "detach", t \notin meddled
                 PROVE  {n \in Names : cont'[n].kind = "replica"} = replica_names_for(cmd[t].scale)
      OBVIOUS
    <2>1. pc[t] = "surplus" /\ work[t].todo = {} /\ ~work[t].err /\ cont' = cont
      BY ScaleEnds
    <2>2. /\ \A n \in replica_names(cmd[t]) : cont[n].kind = "replica"
          /\ \A n \in Names : cont[n].kind = "replica" => n \in replica_names(cmd[t])
      BY <2>1, Before DEF ScalingFor
    <2>3. replica_names(cmd[t]) \subseteq Names
      BY <2>1, Before, AcceptedNames DEF StagedFor
    <2>4. replica_names(cmd[t]) = replica_names_for(cmd[t].scale)
      BY DEF replica_names, resolve_replicas
    <2> QED
      BY <2>1, <2>2, <2>3, <2>4
  <1> QED
    BY <1>1, Invariant, PTL DEF Spec, ScaleDelivers
=============================================================================
