---------------------------- MODULE Indexer_proofs --------------------------
(***************************************************************************)
(* What the indexer keeps, for any logs, any number of polls and any       *)
(* number of disturbances, in four layers that rest on each other: the     *)
(* checkpoint never passes an event that was not met (IInv); every row and *)
(* thread has its shape (TypeInv); while polls do not overlap, the rows    *)
(* and the poll are at a known place of the chain (SteadyInv); and while   *)
(* nothing at all is upset, every event is applied once (OnceInv).         *)
(***************************************************************************)
EXTENDS Indexer, FiniteSetTheorems, TLAPS

Fields == {"pc", "to", "next", "queue", "at", "image", "poolAt", "poolImage"}

\* What the argument needs of the types: threads are records, blocks and
\* checkpoints are numbers.
Shape ==
    /\ script \in Scripts
    /\ head \in Nat
    /\ checkpoint \in [Watched -> Nat]
    /\ fate = [i \in Blocks |-> fate[i]]
    /\ thread = [p \in Pollers |-> [c \in Watched |-> thread[p][c]]]
    /\ \A p \in Pollers, c \in Watched : /\ DOMAIN thread[p][c] = Fields
                                         /\ thread[p][c].to \in Nat
                                         /\ thread[p][c].next \in Nat

\* A contract that is being caught up has met every event before its next
\* chunk, but for those it still has in its queue.
Met(p, c) ==
    thread[p][c].pc \in {"load", "save", "reopen"} =>
        \A i \in Blocks : (script[i].contract = c /\ i < thread[p][c].next) =>
                              (fate[i] # "waiting" \/ i \in thread[p][c].queue)
AllMet == \A p \in Pollers, c \in Watched : Met(p, c)

IInv == Shape /\ AllMet /\ NothingSkipped

LEMMA InitIInv == Init => IInv
<1> SUFFICES ASSUME Init PROVE IInv
  OBVIOUS
<1> USE DEF Init
<1>1. \A p \in Pollers, c \in Watched : thread[p][c] = Done
  OBVIOUS
<1>2. Shape
  BY <1>1 DEF Shape, Done, At, Fields
<1>3. AllMet
  BY <1>1 DEF AllMet, Met, Done, At
<1>4. \A i \in Blocks : script[i].contract \in Watched /\ i \in Nat \ {0}
  BY IndexerAssumption DEF Watched, Blocks
<1>5. NothingSkipped
  BY <1>4 DEF NothingSkipped
<1> QED BY <1>2, <1>3, <1>5 DEF IInv

\* Blocks are positive numbers, their contracts are watched, and an event has a
\* name its contract is queried for.
LEMMA EventFacts ==
    ASSUME Shape, NEW i \in Blocks
    PROVE  /\ i \in Nat \ {0}
           /\ script[i].contract \in Watched
           /\ script[i].name \in Names[script[i].contract]
BY IndexerAssumption DEF Shape, Blocks, Watched

-----------------------------------------------------------------------------
(* Steps of a thread *)

\* An event once met stays met, and the script stays.
Onward == script' = script /\ \A i \in Blocks : fate[i] # "waiting" => fate'[i] # "waiting"

\* The other threads, and what they have met, are left alone.
LEMMA OthersKept ==
    ASSUME IInv, Onward, NEW q \in Pollers, NEW d \in Watched, thread'[q][d] = thread[q][d]
    PROVE  Met(q, d)'
<1>1. Met(q, d)
  BY DEF IInv, AllMet
<1>2. Blocks' = Blocks
  BY DEF Onward, Blocks
<1> QED BY <1>1, <1>2 DEF Met, Onward

\* A step that leaves the checkpoints alone skips nothing.
LEMMA CheckpointKept ==
    ASSUME IInv, Onward, UNCHANGED checkpoint
    PROVE  NothingSkipped'
BY DEF IInv, NothingSkipped, Onward, Blocks

\* One thread moves: the shape of the others is kept.
Moves(p, c, t) ==
    /\ thread' = [thread EXCEPT ![p][c] = t]
    /\ DOMAIN t = Fields /\ t.to \in Nat /\ t.next \in Nat
    /\ head' \in Nat /\ checkpoint' \in [Watched -> Nat]
    /\ fate' = [i \in Blocks |-> fate'[i]]

LEMMA OneMoves ==
    ASSUME IInv, Onward, NEW p \in Pollers, NEW c \in Watched, NEW t, Moves(p, c, t)
    PROVE  /\ Shape'
           /\ thread'[p][c] = t
           /\ Met(p, c)' => AllMet'
<1>0. /\ thread = [q \in Pollers |-> [d \in Watched |-> thread[q][d]]]
      /\ \A q \in Pollers, d \in Watched : DOMAIN thread[q][d] = Fields /\ thread[q][d].to \in Nat /\ thread[q][d].next \in Nat
      /\ script \in Scripts
  BY DEF IInv, Shape
<1>1. Watched' = Watched /\ Blocks' = Blocks /\ script' \in Scripts
  BY <1>0 DEF Onward, Watched, Blocks
<1>2. \A q \in Pollers, d \in Watched : thread'[q][d] = IF q = p /\ d = c THEN t ELSE thread[q][d]
  BY <1>0 DEF Moves
<1>3. thread' = [q \in Pollers |-> [d \in Watched |-> thread'[q][d]]]
  BY <1>0 DEF Moves
<1>4. Shape'
  <2>1. \A q \in Pollers, d \in Watched :
            DOMAIN thread'[q][d] = Fields /\ thread'[q][d].to \in Nat /\ thread'[q][d].next \in Nat
    BY <1>0, <1>2 DEF Moves
  <2>2. head' \in Nat /\ checkpoint' \in [Watched' -> Nat] /\ fate' = [i \in Blocks' |-> fate'[i]]
    BY <1>1 DEF Moves
  <2>3. QED BY <1>1, <1>3, <2>1, <2>2 DEF Shape
<1>5. ASSUME Met(p, c)', NEW q \in Pollers, NEW d \in Watched PROVE Met(q, d)'
  <2>1. CASE q = p /\ d = c
    BY <1>5, <2>1
  <2>2. CASE ~(q = p /\ d = c)
    BY <1>2, <2>2, OthersKept
  <2>3. QED BY <2>1, <2>2
<1> QED BY <1>1, <1>2, <1>4, <1>5 DEF AllMet

\* A handler that returns: its event has been met and leaves the queue.
LEMMA HandledKeeps ==
    ASSUME IInv, NEW p \in Pollers, NEW c \in Watched, NEW outcome \in {"applied", "dropped", "failed"},
           thread[p][c].pc \in {"load", "save", "reopen"},
           Handled(p, c, outcome), UNCHANGED <<script, head, checkpoint>>
    PROVE  IInv'
<1> DEFINE t == At("load", thread[p][c].to, thread[p][c].next, thread[p][c].queue \ {Current(p, c)})
<1>1. /\ DOMAIN t = Fields /\ t.to = thread[p][c].to /\ t.next = thread[p][c].next
      /\ t.queue = thread[p][c].queue \ {Current(p, c)}
  BY DEF At, Fields
<1>2. thread' = [thread EXCEPT ![p][c] = t]
  BY DEF Handled
<1>3. fate' = [fate EXCEPT ![Current(p, c)] = outcome]
  BY DEF Handled
<1>4. fate = [i \in Blocks |-> fate[i]]
  BY DEF IInv, Shape
<1>5. Onward /\ Blocks' = Blocks /\ fate' = [i \in Blocks |-> fate'[i]]
  BY <1>3, <1>4 DEF Onward, Blocks
<1>6. DOMAIN t = Fields /\ t.to \in Nat /\ t.next \in Nat
  BY <1>1 DEF IInv, Shape
<1>7. head' \in Nat /\ checkpoint' \in [Watched -> Nat]
  BY DEF IInv, Shape
<1> HIDE DEF t
<1>8. Shape' /\ thread'[p][c] = t /\ (Met(p, c)' => AllMet')
  <2>1. Onward /\ Moves(p, c, t)
    BY <1>2, <1>5, <1>6, <1>7 DEF Moves
  <2>2. QED BY <2>1, OneMoves
<1>9. Met(p, c)'
  <2>1. Met(p, c)
    BY DEF IInv, AllMet
  <2>2. \A i \in Blocks : i = Current(p, c) => fate'[i] # "waiting"
    BY <1>3, <1>4
  <2>3. QED BY <1>1, <1>5, <1>8, <2>1, <2>2 DEF Met, Onward
<1>10. NothingSkipped'
  BY <1>5, CheckpointKept
<1> QED BY <1>8, <1>9, <1>10 DEF IInv

\* A handler between two of its awaits: queue and chunk stay.
LEMMA WithinHandler ==
    ASSUME IInv, NEW p \in Pollers, NEW c \in Watched, NEW t,
           thread' = [thread EXCEPT ![p][c] = t], UNCHANGED <<script, head, checkpoint, fate>>,
           thread[p][c].pc \in {"load", "save", "reopen"},
           DOMAIN t = Fields, t.to = thread[p][c].to, t.next = thread[p][c].next, t.queue = thread[p][c].queue
    PROVE  IInv'
<1>1. Onward /\ Blocks' = Blocks
  BY DEF Onward, Blocks
<1>2. /\ t.to \in Nat /\ t.next \in Nat /\ head' \in Nat /\ checkpoint' \in [Watched -> Nat]
      /\ fate' = [i \in Blocks |-> fate'[i]]
  BY DEF IInv, Shape
<1>3. Shape' /\ thread'[p][c] = t /\ (Met(p, c)' => AllMet')
  <2>1. Onward /\ Moves(p, c, t)
    BY <1>1, <1>2 DEF Moves
  <2>2. QED BY <2>1, OneMoves
<1>4. Met(p, c)
  BY DEF IInv, AllMet
<1>5. Met(p, c)'
  BY <1>1, <1>3, <1>4 DEF Met
<1>6. NothingSkipped'
  BY <1>1, CheckpointKept
<1> QED BY <1>3, <1>5, <1>6 DEF IInv

-----------------------------------------------------------------------------
(* The actions *)

LEMMA ReadCheckpointKeeps ==
    ASSUME IInv, NEW p \in Pollers, NEW c \in Watched, ReadCheckpoint(p, c)
    PROVE  IInv'
<1> DEFINE t == IF checkpoint[c] >= thread[p][c].to THEN Done
                ELSE [thread[p][c] EXCEPT !.pc = "load", !.next = checkpoint[c] + 1]
<1>1. thread' = [thread EXCEPT ![p][c] = t] /\ UNCHANGED <<script, head, checkpoint, fate>>
  BY DEF ReadCheckpoint
<1>2. Onward /\ Blocks' = Blocks
  BY <1>1 DEF Onward, Blocks
<1>3. /\ head' \in Nat /\ checkpoint' \in [Watched -> Nat] /\ fate' = [i \in Blocks |-> fate'[i]]
      /\ checkpoint[c] \in Nat /\ DOMAIN thread[p][c] = Fields /\ thread[p][c].to \in Nat
  BY <1>1 DEF IInv, Shape
<1>4. t = Done \/ (DOMAIN t = Fields /\ t.to = thread[p][c].to /\ t.next = checkpoint[c] + 1)
  BY <1>3 DEF Fields
<1>5. DOMAIN Done = Fields /\ Done.to = 0 /\ Done.next = 0 /\ Done.pc = "done"
  BY DEF Done, At, Fields
<1> HIDE DEF t
<1>6. DOMAIN t = Fields /\ t.to \in Nat /\ t.next \in Nat
  BY <1>3, <1>4, <1>5
<1>7. Shape' /\ thread'[p][c] = t /\ (Met(p, c)' => AllMet')
  <2>1. Onward /\ Moves(p, c, t)
    BY <1>1, <1>2, <1>3, <1>6 DEF Moves
  <2>2. QED BY <2>1, OneMoves
<1>8. Met(p, c)'
  <2>1. CASE t = Done
    BY <1>5, <1>7, <2>1 DEF Met
  <2>2. CASE t.next = checkpoint[c] + 1
    <3>1. \A i \in Blocks : (script[i].contract = c /\ i < t.next) => fate[i] # "waiting"
      <4> SUFFICES ASSUME NEW i \in Blocks, script[i].contract = c, i < t.next PROVE fate[i] # "waiting"
        OBVIOUS
      <4>1. i \in Nat
        BY EventFacts DEF IInv
      <4>2. i <= checkpoint[script[i].contract]
        BY <1>3, <2>2, <4>1
      <4>3. QED BY <4>2 DEF IInv, NothingSkipped
    <3>2. QED BY <1>1, <1>2, <1>7, <3>1 DEF Met
  <2>3. QED BY <1>4, <2>1, <2>2
<1>9. NothingSkipped'
  BY <1>1, <1>2, CheckpointKept
<1> QED BY <1>7, <1>8, <1>9 DEF IInv

LEMMA QueryKeeps ==
    ASSUME IInv, NEW p \in Pollers, NEW c \in Watched, Query(p, c)
    PROVE  IInv'
<1> DEFINE first == thread[p][c].next
           last == ChunkEnd(p, c)
<1>1. PICK failing \in SUBSET {script[i].name : i \in first .. last} :
        /\ thread' = [thread EXCEPT ![p][c].queue = Collected(c, Names[c] \ failing, first, last), ![p][c].next = last + 1]
        /\ fate' = [i \in Blocks |-> IF i \in first .. last /\ script[i].contract = c /\ script[i].name \in failing
                                     THEN "failed" ELSE fate[i]]
  BY DEF Query
<1>2. UNCHANGED <<script, head, checkpoint>> /\ thread[p][c].pc = "load" /\ thread[p][c].queue = {}
  BY DEF Query
<1> DEFINE t == [[thread[p][c] EXCEPT !.queue = Collected(c, Names[c] \ failing, first, last)] EXCEPT !.next = last + 1]
<1>3. Onward /\ Blocks' = Blocks
  BY <1>1, <1>2 DEF Onward, Blocks
<1>4. /\ head' \in Nat /\ checkpoint' \in [Watched -> Nat] /\ fate' = [i \in Blocks |-> fate'[i]]
      /\ DOMAIN thread[p][c] = Fields /\ thread[p][c].to \in Nat /\ first \in Nat
      /\ thread = [q \in Pollers |-> [d \in Watched |-> thread[q][d]]]
  BY <1>1, <1>2 DEF IInv, Shape
<1>5. last \in Nat /\ last + 1 \in Nat
  <2>1. thread[p][c].to \in Nat /\ ChunkSize \in Nat \ {0}
    BY <1>4, IndexerAssumption
  <2>2. first + ChunkSize - 1 \in Nat
    <3> HIDE DEF first
    <3>1. QED BY <1>4, <2>1
  <2>3. last = first + ChunkSize - 1 \/ last = thread[p][c].to
    BY DEF ChunkEnd
  <2>4. last \in Nat
    BY <2>1, <2>2, <2>3
  <2> HIDE DEF last
  <2>5. QED BY <2>4
<1>6. thread' = [thread EXCEPT ![p][c] = t]
  BY <1>1, <1>4
<1>7. DOMAIN t = Fields /\ t.to = thread[p][c].to /\ t.next = last + 1
        /\ t.queue = Collected(c, Names[c] \ failing, first, last) /\ t.pc = "load"
  BY <1>2, <1>4 DEF Fields
<1> HIDE DEF t, last, first
<1>8. Shape' /\ thread'[p][c] = t /\ (Met(p, c)' => AllMet')
  <2>1. Onward /\ Moves(p, c, t)
    BY <1>3, <1>4, <1>5, <1>6, <1>7 DEF Moves
  <2>2. QED BY <2>1, OneMoves
<1>9. \A i \in Blocks : (script[i].contract = c /\ i < t.next) => (fate'[i] # "waiting" \/ i \in t.queue)
  <2> SUFFICES ASSUME NEW i \in Blocks, script[i].contract = c, i < t.next
               PROVE  fate'[i] # "waiting" \/ i \in t.queue
    OBVIOUS
  <2>1. i \in Nat /\ script[i].name \in Names[c]
    BY EventFacts DEF IInv
  <2>2. CASE i < first
    <3>1. fate[i] # "waiting"
      BY <1>2, <2>2 DEF IInv, AllMet, Met, first
    <3>2. QED BY <1>3, <3>1 DEF Onward
  <2>3. CASE ~(i < first)
    <3>1. i \in first .. last
      BY <1>4, <1>5, <1>7, <2>1, <2>3
    <3>2. CASE script[i].name \in failing
      BY <1>1, <3>1, <3>2
    <3>3. CASE script[i].name \notin failing
      BY <1>7, <2>1, <3>1, <3>3 DEF Collected
    <3>4. QED BY <3>2, <3>3
  <2>4. QED BY <2>2, <2>3
<1>10. Met(p, c)'
  BY <1>2, <1>3, <1>8, <1>9 DEF Met
<1>11. NothingSkipped'
  BY <1>2, <1>3, CheckpointKept
<1> QED BY <1>8, <1>10, <1>11 DEF IInv

\* A thread that ends, or is started, has nothing to show yet.
LEMMA FinishKeeps ==
    ASSUME IInv, NEW p \in Pollers, NEW c \in Watched, Finish(p, c)
    PROVE  IInv'
<1>0. thread' = [thread EXCEPT ![p][c] = Done]
  BY DEF Finish
<1>1. /\ UNCHANGED <<script, head, fate>>
      /\ checkpoint' = [checkpoint EXCEPT ![c] = thread[p][c].to]
      /\ thread[p][c].pc = "load" /\ thread[p][c].queue = {} /\ thread[p][c].next > thread[p][c].to
  BY DEF Finish
<1>2. Onward /\ Blocks' = Blocks
  BY <1>1 DEF Onward, Blocks
<1>3. /\ head' \in Nat /\ checkpoint' \in [Watched -> Nat] /\ fate' = [i \in Blocks |-> fate'[i]]
      /\ thread[p][c].to \in Nat /\ thread[p][c].next \in Nat /\ checkpoint \in [Watched -> Nat]
  BY <1>1 DEF IInv, Shape
<1>4. DOMAIN Done = Fields /\ Done.to \in Nat /\ Done.next \in Nat /\ Done.pc = "done"
  BY DEF Done, At, Fields
<1>5. Shape' /\ thread'[p][c] = Done /\ (Met(p, c)' => AllMet')
  <2>1. Onward /\ Moves(p, c, Done)
    BY <1>0, <1>2, <1>3, <1>4 DEF Moves
  <2>2. QED BY <2>1, OneMoves
<1>6. Met(p, c)'
  BY <1>4, <1>5 DEF Met
<1>7. ASSUME NEW i \in Blocks, i <= checkpoint'[script[i].contract] PROVE fate[i] # "waiting"
  <2>1. i \in Nat /\ script[i].contract \in Watched
    BY EventFacts DEF IInv
  <2>2. CASE script[i].contract = c
    <3>1. i < thread[p][c].next
      BY <1>1, <1>3, <1>7, <2>1, <2>2
    <3>2. QED BY <1>1, <2>2, <3>1 DEF IInv, AllMet, Met
  <2>3. CASE script[i].contract # c
    BY <1>1, <1>3, <1>7, <2>1, <2>3 DEF IInv, NothingSkipped
  <2>4. QED BY <2>2, <2>3
<1>8. NothingSkipped'
  BY <1>1, <1>2, <1>7 DEF NothingSkipped
<1> QED BY <1>5, <1>6, <1>8 DEF IInv

LEMMA FailCheckpointKeeps ==
    ASSUME IInv, NEW p \in Pollers, NEW c \in Watched, FailCheckpoint(p, c)
    PROVE  IInv'
<1>1. thread' = [thread EXCEPT ![p][c] = Done] /\ UNCHANGED <<script, head, checkpoint, fate>>
  BY DEF FailCheckpoint
<1>2. Onward
  BY <1>1 DEF Onward
<1>3. head' \in Nat /\ checkpoint' \in [Watched -> Nat] /\ fate' = [i \in Blocks |-> fate'[i]]
  BY <1>1 DEF IInv, Shape
<1>4. DOMAIN Done = Fields /\ Done.to \in Nat /\ Done.next \in Nat /\ Done.pc = "done"
  BY DEF Done, At, Fields
<1>5. Shape' /\ thread'[p][c] = Done /\ (Met(p, c)' => AllMet')
  <2>1. Onward /\ Moves(p, c, Done)
    BY <1>1, <1>2, <1>3, <1>4 DEF Moves
  <2>2. QED BY <2>1, OneMoves
<1>6. Met(p, c)'
  BY <1>4, <1>5 DEF Met
<1>7. NothingSkipped'
  BY <1>1, <1>2, CheckpointKept
<1> QED BY <1>5, <1>6, <1>7 DEF IInv

LEMMA LoadKeeps ==
    ASSUME IInv, NEW p \in Pollers, NEW c \in Watched, Load(p, c)
    PROVE  IInv'
<1> DEFINE e == script[Current(p, c)]
<1>1. thread[p][c].pc = "load" /\ UNCHANGED <<script, head, checkpoint>>
  BY DEF Load
<1>2. PICK at \in Rows(Key(e)), poolAt \in (IF NeedsPool(e) THEN Rows(PoolKey) ELSE {0}) :
        \/ /\ Return(e, at, poolAt) # "goes on"
           /\ Handled(p, c, Return(e, at, poolAt))
        \/ /\ thread' = [thread EXCEPT ![p][c] = [@ EXCEPT
                  !.pc = IF Kept(e, at) THEN "reopen" ELSE "save",
                  !.at = at, !.image = Image(Key(e), at),
                  !.poolAt = poolAt, !.poolImage = Image(PoolKey, poolAt)]]
           /\ UNCHANGED fate
  BY DEF Load
<1>3. CASE Return(e, at, poolAt) # "goes on" /\ Handled(p, c, Return(e, at, poolAt))
  <2>1. Return(e, at, poolAt) \in {"applied", "dropped", "failed"}
    BY <1>3 DEF Return
  <2>2. QED BY <1>1, <1>3, <2>1, HandledKeeps
<1>4. CASE /\ thread' = [thread EXCEPT ![p][c] = [@ EXCEPT
                  !.pc = IF Kept(e, at) THEN "reopen" ELSE "save",
                  !.at = at, !.image = Image(Key(e), at),
                  !.poolAt = poolAt, !.poolImage = Image(PoolKey, poolAt)]]
           /\ UNCHANGED fate
  <2> DEFINE t == [thread[p][c] EXCEPT !.pc = IF Kept(e, at) THEN "reopen" ELSE "save",
                                       !.at = at, !.image = Image(Key(e), at),
                                       !.poolAt = poolAt, !.poolImage = Image(PoolKey, poolAt)]
  <2>1. thread' = [thread EXCEPT ![p][c] = t]
    BY <1>4
  <2>2. DOMAIN thread[p][c] = Fields
    BY DEF IInv, Shape
  <2>3. DOMAIN t = Fields /\ t.to = thread[p][c].to /\ t.next = thread[p][c].next /\ t.queue = thread[p][c].queue
    BY <2>2 DEF Fields
  <2> HIDE DEF t
  <2>4. QED BY <1>1, <1>4, <2>1, <2>3, WithinHandler
<1> QED BY <1>2, <1>3, <1>4

LEMMA SaveKeeps ==
    ASSUME IInv, NEW p \in Pollers, NEW c \in Watched, Save(p, c)
    PROVE  IInv'
<1>1. thread[p][c].pc = "save" /\ UNCHANGED <<script, head, checkpoint>>
  BY DEF Save
<1>2. \/ \E outcome \in {"applied", "failed"} : Handled(p, c, outcome)
      \/ thread' = [thread EXCEPT ![p][c].pc = "reopen"] /\ UNCHANGED fate
  BY DEF Save
<1>3. CASE \E outcome \in {"applied", "failed"} : Handled(p, c, outcome)
  BY <1>1, <1>3, HandledKeeps
<1>4. CASE thread' = [thread EXCEPT ![p][c].pc = "reopen"] /\ UNCHANGED fate
  <2> DEFINE t == [thread[p][c] EXCEPT !.pc = "reopen"]
  <2>1. thread' = [thread EXCEPT ![p][c] = t]
    BY <1>4
  <2>2. DOMAIN thread[p][c] = Fields
    BY DEF IInv, Shape
  <2>3. DOMAIN t = Fields /\ t.to = thread[p][c].to /\ t.next = thread[p][c].next /\ t.queue = thread[p][c].queue
    BY <2>2 DEF Fields
  <2> HIDE DEF t
  <2>4. QED BY <1>1, <1>4, <2>1, <2>3, WithinHandler
<1> QED BY <1>2, <1>3, <1>4

\* Steps that move no thread and meet no event.
LEMMA StillKeeps ==
    ASSUME IInv, UNCHANGED <<script, thread, fate>>, head' \in Nat, checkpoint' \in [Watched -> Nat], NothingSkipped'
    PROVE  IInv'
<1>1. Watched' = Watched /\ Blocks' = Blocks
  BY DEF Watched, Blocks
<1>2. Shape'
  BY <1>1 DEF IInv, Shape
<1>3. AllMet'
  BY <1>1 DEF IInv, AllMet, Met
<1> QED BY <1>2, <1>3 DEF IInv

LEMMA ReindexKeeps == ASSUME IInv, Reindex PROVE IInv'
<1>1. UNCHANGED <<script, head, thread, fate>> /\ checkpoint' = [c \in Watched |-> 0]
  BY DEF Reindex
<1>2. \A i \in Blocks : ~(i <= checkpoint'[script[i].contract])
  BY <1>1, EventFacts DEF IInv
<1>3. NothingSkipped'
  BY <1>1, <1>2 DEF NothingSkipped, Blocks
<1>4. head' \in Nat /\ checkpoint' \in [Watched -> Nat]
  BY <1>1 DEF IInv, Shape
<1> QED BY <1>1, <1>3, <1>4, StillKeeps

\* Every thread that has moved is done or begins.
LEMMA FreshThreads ==
    ASSUME IInv, UNCHANGED <<script, head, checkpoint, fate>>,
           thread' = [q \in Pollers |-> [d \in Watched |-> thread'[q][d]]],
           \A q \in Pollers, d \in Watched :
               thread'[q][d] = thread[q][d] \/ thread'[q][d] = Done \/ thread'[q][d] = At("begin", head, 0, {})
    PROVE  IInv'
<1>1. Onward /\ Watched' = Watched /\ Blocks' = Blocks
  BY DEF Onward, Watched, Blocks
<1>2. DOMAIN Done = Fields /\ Done.to = 0 /\ Done.next = 0 /\ Done.pc = "done"
  BY DEF Done, At, Fields
<1> DEFINE b == At("begin", head, 0, {})
<1>3. DOMAIN b = Fields /\ b.to = head /\ b.next = 0 /\ b.pc = "begin"
  BY DEF At, Fields
<1> HIDE DEF b
<1>4. ASSUME NEW q \in Pollers, NEW d \in Watched
      PROVE  DOMAIN thread'[q][d] = Fields /\ thread'[q][d].to \in Nat /\ thread'[q][d].next \in Nat /\ Met(q, d)'
  <2>1. CASE thread'[q][d] = thread[q][d]
    BY <1>1, <2>1, OthersKept DEF IInv, Shape
  <2>2. CASE thread'[q][d] = Done
    BY <1>2, <2>2 DEF Met
  <2>3. CASE thread'[q][d] = b
    BY <1>3, <2>3 DEF Met, IInv, Shape
  <2>4. QED BY <2>1, <2>2, <2>3 DEF b
<1>5. Shape'
  BY <1>1, <1>4 DEF IInv, Shape
<1>6. AllMet'
  BY <1>1, <1>4 DEF AllMet
<1>7. NothingSkipped'
  BY <1>1, CheckpointKept
<1> QED BY <1>5, <1>6, <1>7 DEF IInv

LEMMA StepIInv == IInv /\ [Next]_vars => IInv'
<1> SUFFICES ASSUME IInv, [Next]_vars PROVE IInv'
  OBVIOUS
<1>0. head \in Nat /\ checkpoint \in [Watched -> Nat] /\ thread = [q \in Pollers |-> [d \in Watched |-> thread[q][d]]]
  BY DEF IInv, Shape
<1>1. CASE Mine
  <2>1. UNCHANGED <<script, checkpoint, thread, fate>> /\ head' = head + 1
    BY <1>1 DEF Mine
  <2>2. NothingSkipped'
    BY <2>1 DEF IInv, NothingSkipped, Blocks
  <2>3. QED BY <1>0, <2>1, <2>2, StillKeeps
<1>2. CASE Restart
  BY <1>2, FreshThreads DEF Restart
<1>3. CASE Reindex
  BY <1>3, ReindexKeeps
<1>4. ASSUME NEW k \in Keys, RecordContribution(k) PROVE IInv'
  <2>1. UNCHANGED <<script, head, checkpoint, thread, fate>>
    BY <1>4 DEF RecordContribution
  <2>2. NothingSkipped'
    BY <2>1 DEF IInv, NothingSkipped, Blocks
  <2>3. QED BY <1>0, <2>1, <2>2, StillKeeps
<1>5. ASSUME NEW p \in Pollers, StartPoll(p) PROVE IInv'
  <2>1. UNCHANGED <<script, head, checkpoint, fate>>
    BY <1>5 DEF StartPoll
  <2>2. thread' = [thread EXCEPT ![p] = [c \in Watched |-> At("begin", head, 0, {})]]
    BY <1>5 DEF StartPoll
  <2>3. \A q \in Pollers, d \in Watched : thread'[q][d] = thread[q][d] \/ thread'[q][d] = At("begin", head, 0, {})
    BY <1>0, <2>2
  <2>4. thread' = [q \in Pollers |-> [d \in Watched |-> thread'[q][d]]]
    BY <1>0, <2>2
  <2>5. QED BY <2>1, <2>3, <2>4, FreshThreads
<1>6. ASSUME NEW p \in Pollers, NEW c \in Watched, Step(p, c) PROVE IInv'
  <2>1. CASE ReopenPool(p, c)
    BY <2>1, HandledKeeps DEF ReopenPool
  <2>2. QED BY <1>6, <2>1, ReadCheckpointKeeps, QueryKeeps, FinishKeeps, LoadKeeps, SaveKeeps DEF Step
<1>7. ASSUME NEW p \in Pollers, NEW c \in Watched, FailSave(p, c) PROVE IInv'
  BY <1>7, HandledKeeps DEF FailSave
<1>8. ASSUME NEW p \in Pollers, NEW c \in Watched, FailCheckpoint(p, c) PROVE IInv'
  BY <1>8, FailCheckpointKeeps
<1>9. CASE UNCHANGED vars
  <2>1. UNCHANGED <<script, head, checkpoint, thread, fate>>
    BY <1>9 DEF vars
  <2>2. NothingSkipped'
    BY <2>1 DEF IInv, NothingSkipped, Blocks
  <2>3. QED BY <1>0, <2>1, <2>2, StillKeeps
<1> QED BY <1>1, <1>2, <1>3, <1>4, <1>5, <1>6, <1>7, <1>8, <1>9 DEF Next

\* The checkpoint never passes an event that no handler and no failing query
\* has met (catchUpContract, setLastIndexedBlock, reindex).
THEOREM NoEventSkipped == Spec => []NothingSkipped
<1>1. IInv => NothingSkipped
  BY DEF IInv
<1> QED BY <1>1, InitIInv, StepIInv, PTL DEF Spec

-----------------------------------------------------------------------------
(* Rows and the events they come from *)

PoolRows == [currentRound : Nat \ {0}, status : {"active", "round-closed"}]
MemberRows == [joined : {TRUE}]
ContributionRows == [status : {"pending-onchain", "confirmed", "defaulted"}]
StreamRows == [released : Nat, frozen : BOOLEAN]
ScoreRows == [score : Nat]
CollateralRows == [available : Nat]
ProposalRows == [yes : Nat, no : Nat, status : {"active", "executed", "cancelled"}]

\* What the rows of a key may hold.
Values(k) ==
    CASE k[1] = "pool" -> PoolRows
      [] k[1] = "member" -> MemberRows
      [] k[1] = "contribution" -> ContributionRows
      [] k[1] = "stream" -> StreamRows
      [] k[1] = "score" -> ScoreRows
      [] k[1] = "collateral" -> CollateralRows
      [] k[1] = "proposal" -> ProposalRows

\* Events that may write over a row.
Updates(e) == e.name \in {"RoundClosed", "ContributionReceived", "DefaultTriggered", "StreamFrozen",
                          "ScoreUpdated", "VoteCast", "ProposalExecuted", "ProposalCancelled"}

RowsTyped ==
    /\ db = [k \in Keys |-> db[k]]
    /\ \A k \in Keys : /\ db[k] \in Seq(Values(k))
                       /\ k[1] \in UniqueTables => Len(db[k]) <= 1

Working(t) == t.pc \in {"load", "save", "reopen"}
EventOf(p, c) == script[Current(p, c)]

\* A thread holds events of its chunks, and in a handler the rows it read.
ThreadTyped(p, c) ==
    LET t == thread[p][c]
        e == EventOf(p, c)
    IN  /\ t.pc \in {"done", "begin", "load", "save", "reopen"}
        /\ t.to <= head /\ t.next <= t.to + 1
        /\ t.queue \subseteq {i \in Blocks : script[i].contract = c /\ i < t.next}
        /\ t.pc \in {"done", "begin"} => t.queue = {}
        /\ Working(t) => t.next > 0
        /\ t.pc \in {"save", "reopen"} =>
              /\ t.queue # {}
              /\ NeedsPool(e) => t.poolAt \in DOMAIN db[PoolKey] /\ t.poolImage \in PoolRows
        /\ t.pc = "save" =>
              \/ t.at = 0 /\ Inserts(e)
              \/ t.at \in DOMAIN db[Key(e)] /\ t.image \in Values(Key(e)) /\ Updates(e)
        /\ t.pc = "reopen" => e.name = "ContributionReceived"

TypeInv ==
    /\ head <= Len(script)
    /\ \A c \in Watched : checkpoint[c] <= head
    /\ fate \in [Blocks -> Outcomes]
    /\ upset \subseteq {"overlap", "interrupted", "reindex"} /\ faults \in 0 .. MaxFaults
    /\ RowsTyped
    /\ \A p \in Pollers, c \in Watched : ThreadTyped(p, c)

-----------------------------------------------------------------------------
(* As long as polls do not overlap *)

Applied == {i \in Blocks : fate[i] = "applied"}

\* The events that the checkpoint or the poll under way has left behind.
Behind(i) ==
    LET c == script[i].contract
    IN  \/ i <= checkpoint[c]
        \/ \E p \in Pollers : /\ Working(thread[p][c])
                              /\ i < thread[p][c].next /\ i \notin thread[p][c].queue
Passed == {i \in Applied : Behind(i)}

Alone ==
    \A p, q \in Pollers : \A c, d \in Watched :
        (thread[p][c].pc # "done" /\ thread[q][d].pc # "done") => p = q

\* A poll works behind the checkpoint, and in the order of the chain.
InOrder(p, c) ==
    LET t == thread[p][c]
    IN  Working(t) =>
          /\ checkpoint[c] < t.next
          /\ \A i \in t.queue : checkpoint[c] < i
          /\ \A i \in Applied : (script[i].contract = c /\ i < t.next /\ i \notin t.queue) =>
                \A j \in t.queue : i < j

\* What a handler has read is still so.
Current1(p, c) ==
    LET t == thread[p][c]
        e == EventOf(p, c)
        k == Key(e)
    IN  t.pc \in {"save", "reopen"} =>
          /\ t.pc = "save" /\ t.at = 0 => db[k] = <<>> \/ k[1] = "contribution"
          /\ t.pc = "save" /\ t.at # 0 => t.at = 1 /\ db[k] # <<>> /\ t.image = Row(k)
          /\ t.pc = "save" /\ t.at # 0 /\ e.name = "ContributionReceived" => t.image.status = "pending-onchain"
          /\ t.pc = "reopen" => db[k] # <<>> /\ Row(k).status # "pending-onchain"
          /\ e.name = "ContributionReceived" => t.poolAt = 1 /\ t.poolImage = Row(PoolKey)

Wrote(i, k, name) == script[i].name = name /\ Key(script[i]) = k

\* The round and the status of a pool, and a score, are of the last event
\* passed or of a later one, which a poll that died got to.
RoundFrom(r, j) ==
    \/ j = 0 /\ r.currentRound = 1
    \/ j > 0 /\ script[j].name = "RoundClosed" /\ r.currentRound = script[j].arg + 1
StatusFrom(r, j) ==
    \/ j = 0 /\ r.status = "active"
    \/ j > 0 /\ script[j].name = "RoundClosed" /\ r.status = "round-closed"
    \/ j > 0 /\ script[j].name = "ContributionReceived" /\ r.status = "active"
NoneLater(names, j, P) == \A i \in P : script[i].name \in names => i <= j

PoolRight(r, P, h) ==
    /\ \E j \in 0 .. h : RoundFrom(r, j) /\ NoneLater({"RoundClosed"}, j, P)
    /\ \E j \in 0 .. h : StatusFrom(r, j) /\ NoneLater({"RoundClosed", "ContributionReceived"}, j, P)
ContributionRight(k, r, A, h) ==
    /\ \A i \in A : Wrote(i, k, "DefaultTriggered") => r.status = "defaulted"
    /\ \A i \in A : Wrote(i, k, "ContributionReceived") => r.status # "pending-onchain"
    /\ r.status = "defaulted" => \E i \in 1 .. h : Wrote(i, k, "DefaultTriggered")
StreamRight(r, A, h) ==
    /\ \A i \in A : script[i].name = "StreamFrozen" => r.frozen
    /\ r.frozen => \E i \in 1 .. h : script[i].name = "StreamFrozen"
ScoreRight(r, P, h) ==
    \E j \in 1 .. h : /\ script[j].name = "ScoreUpdated" /\ r.score = script[j].arg
                      /\ NoneLater({"ScoreUpdated"}, j, P)
ProposalRight(r, A, h) ==
    /\ \A i \in A : script[i].name = "ProposalExecuted" => r.status = "executed"
    /\ \A i \in A : script[i].name = "ProposalCancelled" => r.status = "cancelled"
    /\ r.status = "executed" => \E i \in 1 .. h : script[i].name = "ProposalExecuted"
    /\ r.status = "cancelled" => \E i \in 1 .. h : script[i].name = "ProposalCancelled"

Right(k, r, A, P, h) ==
    /\ k[1] = "pool" => PoolRight(r, P, h)
    /\ k[1] = "contribution" => ContributionRight(k, r, A, h)
    /\ k[1] = "stream" => StreamRight(r, A, h)
    /\ k[1] = "score" => ScoreRight(r, P, h)
    /\ k[1] = "proposal" => ProposalRight(r, A, h)

RowsExist ==
    \A i \in Applied : /\ db[Key(script[i])] # <<>>
                       /\ NeedsPool(script[i]) => db[PoolKey] # <<>>
RowsRight ==
    \A k \in Keys : /\ Len(db[k]) <= 1
                    /\ db[k] # <<>> => Right(k, Row(k), Applied, Passed, head)

Steady ==
    /\ Alone
    /\ \A p \in Pollers, c \in Watched : InOrder(p, c) /\ Current1(p, c)
    /\ RowsExist /\ RowsRight

SteadyInv == "overlap" \notin upset => Steady

-----------------------------------------------------------------------------
(* Events and keys *)

\* An event has a name of its contract, and every name has its table.
LEMMA EventTables ==
    ASSUME NEW e, e.contract \in Contracts, e.name \in Names[e.contract]
    PROVE  /\ Key(e) = <<Table(e.name), IF Table(e.name) = "contribution" THEN e.arg ELSE 0>>
           /\ e.contract = "EqubPool" => \/ e.name \in {"PoolCreated", "RoundClosed"} /\ Table(e.name) = "pool"
                                         \/ e.name = "JoinedPool" /\ Table(e.name) = "member"
                                         \/ /\ e.name \in {"ContributionReceived", "DefaultTriggered"}
                                            /\ Table(e.name) = "contribution"
           /\ e.contract = "PayoutStream" => /\ e.name \in {"StreamCreated", "RoundReleased", "StreamFrozen"}
                                             /\ Table(e.name) = "stream"
           /\ e.contract = "CreditRegistry" => e.name = "ScoreUpdated" /\ Table(e.name) = "score"
           /\ e.contract = "CollateralVault" =>
                 /\ e.name \in {"CollateralDeposited", "CollateralLocked", "CollateralSlashed"}
                 /\ Table(e.name) = "collateral"
           /\ e.contract = "EqubGovernor" =>
                 /\ e.name \in {"ProposalCreated", "VoteCast", "ProposalExecuted", "ProposalCancelled"}
                 /\ Table(e.name) = "proposal"
<1>1. Key(e) = <<Table(e.name), IF Table(e.name) = "contribution" THEN e.arg ELSE 0>>
  BY DEF Key
<1>2. CASE e.contract = "EqubPool"
  <2>1. e.name \in {"PoolCreated", "JoinedPool", "ContributionReceived", "RoundClosed", "DefaultTriggered"}
    BY <1>2 DEF Names
  <2>2. e.name \in {"PoolCreated", "RoundClosed"} => Table(e.name) = "pool"
    BY DEF Table, Names
  <2>3. e.name = "JoinedPool" => Table(e.name) = "member"
    BY DEF Table, Names
  <2>4. e.name \in {"ContributionReceived", "DefaultTriggered"} => Table(e.name) = "contribution"
    BY DEF Table, Names
  <2>5. QED BY <1>1, <1>2, <2>1, <2>2, <2>3, <2>4
<1>3. CASE e.contract = "PayoutStream"
  <2>1. e.name \in {"StreamCreated", "RoundReleased", "StreamFrozen"}
    BY <1>3 DEF Names
  <2>2. QED BY <1>1, <1>3, <2>1 DEF Table, Names
<1>4. CASE e.contract = "CreditRegistry"
  <2>1. e.name = "ScoreUpdated"
    BY <1>4 DEF Names
  <2>2. QED BY <1>1, <1>4, <2>1 DEF Table, Names
<1>5. CASE e.contract = "CollateralVault"
  <2>1. e.name \in {"CollateralDeposited", "CollateralLocked", "CollateralSlashed"}
    BY <1>5 DEF Names
  <2>2. QED BY <1>1, <1>5, <2>1 DEF Table, Names
<1>6. CASE e.contract = "EqubGovernor"
  <2>1. e.name \in {"ProposalCreated", "VoteCast", "ProposalExecuted", "ProposalCancelled"}
    BY <1>6 DEF Names
  <2>2. QED BY <1>1, <1>6, <2>1 DEF Table, Names
<1>7. QED BY <1>2, <1>3, <1>4, <1>5, <1>6 DEF Contracts

\* The table an event is about tells its contract.
Home(table) ==
    CASE table \in {"pool", "member", "contribution"} -> "EqubPool"
      [] table = "stream" -> "PayoutStream"
      [] table = "score" -> "CreditRegistry"
      [] table = "collateral" -> "CollateralVault"
      [] table = "proposal" -> "EqubGovernor"

LEMMA EventsOfScript ==
    ASSUME Shape, NEW i \in Blocks
    PROVE  /\ i \in 1 .. Len(script) /\ Len(script) \in Nat
           /\ script[i].contract \in Contracts /\ script[i].name \in Names[script[i].contract]
           /\ script[i].arg \in Nat
           /\ Key(script[i]) \in Keys
<1> DEFINE Event == [contract : Contracts, name : STRING, arg : Nat]
<1>1. script \in Seq(Event)
  BY IndexerAssumption DEF Shape
<1> HIDE DEF Event
<1>2. i \in 1 .. Len(script) /\ Len(script) \in Nat /\ script[i] \in Event
  BY <1>1 DEF Blocks
<1>3. script[i] \in [contract : Contracts, name : STRING, arg : Nat]
  BY <1>2 DEF Event
<1>4. script[i].name \in Names[script[i].contract]
  BY IndexerAssumption DEF Shape, Blocks
<1>5. Key(script[i]) \in Keys
  BY DEF Keys
<1>6. script[i].contract \in Contracts /\ script[i].arg \in Nat
  BY <1>3
<1>7. QED BY <1>2, <1>4, <1>5, <1>6

LEMMA KeyOfEvent ==
    ASSUME NEW e, e.contract \in Contracts, e.name \in Names[e.contract]
    PROVE  /\ Key(e)[1] = Table(e.name)
           /\ Key(e)[1] # "contribution" => Key(e) = <<Key(e)[1], 0>>
           /\ e.contract = Home(Key(e)[1])
           /\ Key(e)[1] \in {"pool", "member", "contribution", "stream", "score", "collateral", "proposal"}
           /\ Key(e) = PoolKey <=> Table(e.name) = "pool"
<1>1. Key(e)[1] = Table(e.name) /\ (Key(e)[1] # "contribution" => Key(e) = <<Key(e)[1], 0>>)
  BY EventTables
<1>2. Table(e.name) = "pool" => Key(e) = PoolKey
  BY EventTables DEF PoolKey
<1>3. Key(e) = PoolKey => Table(e.name) = "pool"
  BY <1>1 DEF PoolKey
<1>4. Table(e.name) \in {"pool", "member", "contribution", "stream", "score", "collateral", "proposal"}
  BY EventTables DEF Contracts
<1>5. e.contract = Home(Table(e.name))
  <2>1. CASE e.contract = "EqubPool"
    <3>1. Table(e.name) \in {"pool", "member", "contribution"}
      BY <2>1, EventTables
    <3>2. QED BY <2>1, <3>1 DEF Home
  <2>2. CASE e.contract = "PayoutStream"
    BY <2>2, EventTables DEF Home
  <2>3. CASE e.contract = "CreditRegistry"
    BY <2>3, EventTables DEF Home
  <2>4. CASE e.contract = "CollateralVault"
    BY <2>4, EventTables DEF Home
  <2>5. CASE e.contract = "EqubGovernor"
    BY <2>5, EventTables DEF Home
  <2>6. QED BY <2>1, <2>2, <2>3, <2>4, <2>5 DEF Contracts
<1>6. QED BY <1>1, <1>2, <1>3, <1>4, <1>5

LEMMA KeyFacts ==
    ASSUME Shape, NEW k \in Keys
    PROVE  /\ k[1] \in {"pool", "member", "contribution", "stream", "score", "collateral", "proposal"}
           /\ k[1] # "contribution" => k = <<k[1], 0>>
           /\ k[1] = "pool" <=> k = PoolKey
<1>1. CASE k = PoolKey
  BY <1>1 DEF PoolKey
<1>2. ASSUME NEW i \in Blocks, k = Key(script[i])
      PROVE  /\ k[1] \in {"pool", "member", "contribution", "stream", "score", "collateral", "proposal"}
             /\ k[1] # "contribution" => k = <<k[1], 0>>
             /\ k[1] = "pool" <=> k = PoolKey
  BY <1>2, EventsOfScript, KeyOfEvent
<1>3. QED BY <1>1, <1>2 DEF Keys

\* The first event of a queue is one of its events.
LEMMA CurrentFirst ==
    ASSUME NEW p, NEW c, thread[p][c].queue \subseteq Nat, thread[p][c].queue # {}
    PROVE  /\ Current(p, c) \in thread[p][c].queue
           /\ \A j \in thread[p][c].queue : Current(p, c) <= j
<1>1. \E i \in thread[p][c].queue : \A j \in thread[p][c].queue : i <= j
  <2>1. PICK i \in thread[p][c].queue :
           \A j \in thread[p][c].queue : ~ (<<j, i>> \in OpToRel(<, Nat))
    BY WFMin, NatLessThanWellFounded
  <2>2. \A j \in thread[p][c].queue : ~ (j < i)
    BY <2>1 DEF OpToRel
  <2>3. QED BY <2>2
<1>2. QED BY <1>1 DEF Current

-----------------------------------------------------------------------------
(* What handlers write has the types of its table *)

LEMMA ValuesOf ==
    ASSUME NEW k
    PROVE  /\ k[1] = "pool" => Values(k) = PoolRows
           /\ k[1] = "member" => Values(k) = MemberRows
           /\ k[1] = "contribution" => Values(k) = ContributionRows
           /\ k[1] = "stream" => Values(k) = StreamRows
           /\ k[1] = "score" => Values(k) = ScoreRows
           /\ k[1] = "collateral" => Values(k) = CollateralRows
           /\ k[1] = "proposal" => Values(k) = ProposalRows
<1> DEFINE table == k[1]
<1>1. Values(k) = CASE table = "pool" -> PoolRows
                    [] table = "member" -> MemberRows
                    [] table = "contribution" -> ContributionRows
                    [] table = "stream" -> StreamRows
                    [] table = "score" -> ScoreRows
                    [] table = "collateral" -> CollateralRows
                    [] table = "proposal" -> ProposalRows
  BY DEF Values
<1> HIDE DEF table
<1>2. table = "pool" => Values(k) = PoolRows
  BY <1>1
<1>3. table = "member" => Values(k) = MemberRows
  BY <1>1
<1>4. table = "contribution" => Values(k) = ContributionRows
  BY <1>1
<1>5. table = "stream" => Values(k) = StreamRows
  BY <1>1
<1>6. table = "score" => Values(k) = ScoreRows
  BY <1>1
<1>7. table = "collateral" => Values(k) = CollateralRows
  BY <1>1
<1>8. table = "proposal" => Values(k) = ProposalRows
  BY <1>1
<1>9. QED BY <1>2, <1>3, <1>4, <1>5, <1>6, <1>7, <1>8 DEF table

\* The table of each name.
LEMMA TableOf ==
    ASSUME NEW e, e.contract \in Contracts, e.name \in Names[e.contract]
    PROVE  /\ e.name \in {"PoolCreated", "RoundClosed"} => Key(e)[1] = "pool"
           /\ e.name = "JoinedPool" => Key(e)[1] = "member"
           /\ e.name \in {"ContributionReceived", "DefaultTriggered"} => Key(e)[1] = "contribution"
           /\ e.name \in {"StreamCreated", "RoundReleased", "StreamFrozen"} => Key(e)[1] = "stream"
           /\ e.name = "ScoreUpdated" => Key(e)[1] = "score"
           /\ e.name \in {"CollateralDeposited", "CollateralLocked", "CollateralSlashed"} =>
                 Key(e)[1] = "collateral"
           /\ e.name \in {"ProposalCreated", "VoteCast", "ProposalExecuted", "ProposalCancelled"} =>
                 Key(e)[1] = "proposal"
<1>1. Key(e)[1] = Table(e.name)
  BY KeyOfEvent
<1>2. CASE e.contract = "EqubPool"
  BY <1>1, <1>2, EventTables
<1>3. CASE e.contract = "PayoutStream"
  BY <1>1, <1>3, EventTables
<1>4. CASE e.contract = "CreditRegistry"
  BY <1>1, <1>4, EventTables
<1>5. CASE e.contract = "CollateralVault"
  BY <1>1, <1>5, EventTables
<1>6. CASE e.contract = "EqubGovernor"
  BY <1>1, <1>6, EventTables
<1>7. QED BY <1>2, <1>3, <1>4, <1>5, <1>6 DEF Contracts

LEMMA FreshTyped ==
    ASSUME NEW e, e.contract \in Contracts, e.name \in Names[e.contract], e.arg \in Nat, Inserts(e)
    PROVE  Fresh(e) \in Values(Key(e))
<1>1. CASE e.name = "PoolCreated"
  <2>1. Fresh(e) = [currentRound |-> 1, status |-> "active"]
    BY <1>1 DEF Fresh
  <2>2. Values(Key(e)) = PoolRows
    BY <1>1, TableOf, ValuesOf
  <2>3. QED BY <2>1, <2>2 DEF PoolRows
<1>2. CASE e.name = "JoinedPool"
  <2>1. Fresh(e) = [joined |-> TRUE]
    BY <1>2 DEF Fresh
  <2>2. Values(Key(e)) = MemberRows
    BY <1>2, TableOf, ValuesOf
  <2>3. QED BY <2>1, <2>2 DEF MemberRows
<1>3. CASE e.name = "ContributionReceived"
  <2>1. Fresh(e) = [status |-> "confirmed"]
    BY <1>3 DEF Fresh
  <2>2. Values(Key(e)) = ContributionRows
    BY <1>3, TableOf, ValuesOf
  <2>3. QED BY <2>1, <2>2 DEF ContributionRows
<1>4. CASE e.name = "DefaultTriggered"
  <2>1. Fresh(e) = [status |-> "defaulted"]
    BY <1>4 DEF Fresh
  <2>2. Values(Key(e)) = ContributionRows
    BY <1>4, TableOf, ValuesOf
  <2>3. QED BY <2>1, <2>2 DEF ContributionRows
<1>5. CASE e.name = "StreamCreated"
  <2>1. Fresh(e) = [released |-> e.arg, frozen |-> FALSE]
    BY <1>5 DEF Fresh
  <2>2. Values(Key(e)) = StreamRows
    BY <1>5, TableOf, ValuesOf
  <2>3. QED BY <2>1, <2>2 DEF StreamRows
<1>6. CASE e.name = "ScoreUpdated"
  <2>1. Fresh(e) = [score |-> e.arg]
    BY <1>6 DEF Fresh
  <2>2. Values(Key(e)) = ScoreRows
    BY <1>6, TableOf, ValuesOf
  <2>3. QED BY <2>1, <2>2 DEF ScoreRows
<1>7. CASE e.name = "CollateralDeposited"
  <2>1. Fresh(e) = [available |-> e.arg]
    BY <1>7 DEF Fresh
  <2>2. Values(Key(e)) = CollateralRows
    BY <1>7, TableOf, ValuesOf
  <2>3. QED BY <2>1, <2>2 DEF CollateralRows
<1>8. CASE e.name = "ProposalCreated"
  <2>1. Fresh(e) = [yes |-> 0, no |-> 0, status |-> "active"]
    BY <1>8 DEF Fresh
  <2>2. Values(Key(e)) = ProposalRows
    BY <1>8, TableOf, ValuesOf
  <2>3. QED BY <2>1, <2>2 DEF ProposalRows
<1>9. QED BY <1>1, <1>2, <1>3, <1>4, <1>5, <1>6, <1>7, <1>8 DEF Inserts

LEMMA UpdatedTyped ==
    ASSUME NEW e, e.contract \in Contracts, e.name \in Names[e.contract], e.arg \in Nat,
           Updates(e), NEW row \in Values(Key(e))
    PROVE  Updated(e, row) \in Values(Key(e))
<1>1. CASE e.name = "RoundClosed"
  <2>1. Updated(e, row) = [currentRound |-> e.arg + 1, status |-> "round-closed"]
    BY <1>1 DEF Updated
  <2>2. Values(Key(e)) = PoolRows
    BY <1>1, TableOf, ValuesOf
  <2>3. QED BY <2>1, <2>2 DEF PoolRows
<1>2. CASE e.name = "ContributionReceived"
  <2>1. Updated(e, row) = [status |-> "confirmed"]
    BY <1>2 DEF Updated
  <2>2. Values(Key(e)) = ContributionRows
    BY <1>2, TableOf, ValuesOf
  <2>3. QED BY <2>1, <2>2 DEF ContributionRows
<1>3. CASE e.name = "DefaultTriggered"
  <2>1. Updated(e, row) = [status |-> "defaulted"]
    BY <1>3 DEF Updated
  <2>2. Values(Key(e)) = ContributionRows
    BY <1>3, TableOf, ValuesOf
  <2>3. QED BY <2>1, <2>2 DEF ContributionRows
<1>4. CASE e.name = "StreamFrozen"
  <2>1. Updated(e, row) = [row EXCEPT !.frozen = TRUE]
    BY <1>4 DEF Updated
  <2>2. Values(Key(e)) = StreamRows
    BY <1>4, TableOf, ValuesOf
  <2>3. QED BY <2>1, <2>2 DEF StreamRows
<1>5. CASE e.name = "ScoreUpdated"
  <2>1. Updated(e, row) = [score |-> e.arg]
    BY <1>5 DEF Updated
  <2>2. Values(Key(e)) = ScoreRows
    BY <1>5, TableOf, ValuesOf
  <2>3. QED BY <2>1, <2>2 DEF ScoreRows
<1>6. CASE e.name = "VoteCast"
  <2>1. Updated(e, row) = IF e.arg = 1 THEN [row EXCEPT !.yes = @ + 1] ELSE [row EXCEPT !.no = @ + 1]
    BY <1>6 DEF Updated
  <2>2. Values(Key(e)) = ProposalRows
    BY <1>6, TableOf, ValuesOf
  <2>3. QED BY <2>1, <2>2 DEF ProposalRows
<1>7. CASE e.name = "ProposalExecuted"
  <2>1. Updated(e, row) = [row EXCEPT !.status = "executed"]
    BY <1>7 DEF Updated
  <2>2. Values(Key(e)) = ProposalRows
    BY <1>7, TableOf, ValuesOf
  <2>3. QED BY <2>1, <2>2 DEF ProposalRows
<1>8. CASE e.name = "ProposalCancelled"
  <2>1. Updated(e, row) = [row EXCEPT !.status = "cancelled"]
    BY <1>8 DEF Updated
  <2>2. Values(Key(e)) = ProposalRows
    BY <1>8, TableOf, ValuesOf
  <2>3. QED BY <2>1, <2>2 DEF ProposalRows
<1>9. QED BY <1>1, <1>2, <1>3, <1>4, <1>5, <1>6, <1>7, <1>8 DEF Updates

-----------------------------------------------------------------------------
(* Types *)

LEMMA QueueFacts ==
    ASSUME IInv, TypeInv, NEW p \in Pollers, NEW c \in Watched, thread[p][c].queue # {}
    PROVE  LET i == Current(p, c)
               e == EventOf(p, c)
           IN  /\ i \in thread[p][c].queue /\ i \in Blocks
               /\ \A j \in thread[p][c].queue : j \in Nat /\ i <= j
               /\ i \in 1 .. head /\ i < thread[p][c].next
               /\ e = script[i] /\ e.contract = c /\ e.contract \in Contracts
               /\ e.name \in Names[e.contract] /\ e.arg \in Nat
               /\ Key(e) \in Keys
<1>1. Shape
  BY DEF IInv
<1>2. /\ thread[p][c].queue \subseteq {i \in Blocks : script[i].contract = c /\ i < thread[p][c].next}
      /\ thread[p][c].to <= head /\ thread[p][c].next <= thread[p][c].to + 1
  BY DEF TypeInv, ThreadTyped
<1>3. \A j \in thread[p][c].queue : j \in Blocks /\ j \in Nat \ {0}
  BY <1>1, <1>2, EventFacts
<1>4. /\ Current(p, c) \in thread[p][c].queue
      /\ \A j \in thread[p][c].queue : Current(p, c) <= j
  BY <1>3, CurrentFirst
<1>5. Current(p, c) \in 1 .. head /\ Current(p, c) < thread[p][c].next
  BY <1>1, <1>2, <1>3, <1>4 DEF Shape
<1>6. script[Current(p, c)].contract = c
  BY <1>2, <1>4
<1>7. QED BY <1>1, <1>3, <1>4, <1>5, <1>6, EventsOfScript DEF EventOf

LEMMA ScriptFacts == ASSUME Shape PROVE Len(script) \in Nat /\ Blocks = 1 .. Len(script)
BY IndexerAssumption DEF Shape, Blocks

LEMMA PoolKeyFacts == PoolKey \in Keys /\ PoolKey[1] = "pool" /\ Values(PoolKey) = PoolRows
BY ValuesOf DEF Keys, PoolKey

\* Rows are only added.
RowsGrow ==
    /\ RowsTyped'
    /\ \A k \in Keys : DOMAIN db[k] \subseteq DOMAIN db'[k]

LEMMA RowsUnchanged == ASSUME TypeInv, UNCHANGED <<script, db>> PROVE RowsGrow
<1>1. RowsTyped
  BY DEF TypeInv
<1>2. Blocks' = Blocks
  BY DEF Blocks
<1>3. Keys' = Keys
  BY <1>2 DEF Keys
<1>4. ASSUME NEW k PROVE Values(k)' = Values(k)
  BY <1>2 DEF Values
<1>5. RowsTyped'
  BY <1>1, <1>3, <1>4 DEF RowsTyped
<1>6. QED BY <1>5 DEF RowsGrow

LEMMA RowAppended ==
    ASSUME TypeInv, UNCHANGED script, NEW k \in Keys, NEW row \in Values(k),
           k[1] \in UniqueTables => db[k] = <<>>,
           db' = [db EXCEPT ![k] = Append(@, row)]
    PROVE  RowsGrow
<1>1. Keys' = Keys
  BY DEF Keys, Blocks
<1>2. db = [a \in Keys |-> db[a]] /\ \A a \in Keys : db[a] \in Seq(Values(a))
  BY DEF TypeInv, RowsTyped
<1>3. /\ db' = [a \in Keys |-> db'[a]] /\ db'[k] = Append(db[k], row)
      /\ \A a \in Keys \ {k} : db'[a] = db[a]
  BY <1>2
<1>4. /\ db'[k] \in Seq(Values(k)) /\ Len(db'[k]) = Len(db[k]) + 1
      /\ DOMAIN db[k] \subseteq DOMAIN db'[k]
  BY <1>2, <1>3
<1>5. \A a \in Keys : db'[a] \in Seq(Values(a))
  BY <1>2, <1>3, <1>4
<1>6. \A a \in Keys : a[1] \in UniqueTables => Len(db'[a]) <= 1
  <2>1. k[1] \in UniqueTables => Len(db'[k]) <= 1
    BY <1>4
  <2>2. QED BY <1>3, <2>1 DEF TypeInv, RowsTyped
<1>7. RowsTyped'
  BY <1>1, <1>3, <1>5, <1>6 DEF RowsTyped, Values
<1>8. QED BY <1>3, <1>4, <1>7 DEF RowsGrow

LEMMA RowReplaced ==
    ASSUME TypeInv, UNCHANGED script, NEW k \in Keys, NEW n \in DOMAIN db[k], NEW row \in Values(k),
           db' = [db EXCEPT ![k][n] = row]
    PROVE  RowsGrow
<1>1. Keys' = Keys
  BY DEF Keys, Blocks
<1>2. db = [a \in Keys |-> db[a]] /\ \A a \in Keys : db[a] \in Seq(Values(a))
  BY DEF TypeInv, RowsTyped
<1>3. /\ db' = [a \in Keys |-> db'[a]] /\ db'[k] = [db[k] EXCEPT ![n] = row]
      /\ \A a \in Keys \ {k} : db'[a] = db[a]
  BY <1>2
<1> DEFINE V == Values(k)
<1>4. db[k] \in Seq(V) /\ row \in V
  BY <1>2
<1> HIDE DEF V
<1>5. /\ db'[k] \in Seq(V) /\ Len(db'[k]) = Len(db[k])
      /\ DOMAIN db[k] = DOMAIN db'[k]
  BY <1>3, <1>4
<1>6. \A a \in Keys : db'[a] \in Seq(Values(a))
  BY <1>2, <1>3, <1>5 DEF V
<1>7. \A a \in Keys : a[1] \in UniqueTables => Len(db'[a]) <= 1
  BY <1>3, <1>5 DEF TypeInv, RowsTyped
<1>8. RowsTyped'
  BY <1>1, <1>3, <1>6, <1>7 DEF RowsTyped, Values
<1>9. QED BY <1>3, <1>5, <1>8 DEF RowsGrow

\* Threads are typed however rows and blocks are added.
LEMMA OtherTyped ==
    ASSUME IInv, TypeInv, UNCHANGED script, head' \in Nat, head <= head', RowsGrow,
           NEW q \in Pollers, NEW d \in Watched, thread'[q][d] = thread[q][d]
    PROVE  ThreadTyped(q, d)'
<1>1. ThreadTyped(q, d)
  BY DEF TypeInv
<1>2. Current(q, d)' = Current(q, d) /\ Blocks' = Blocks
  BY DEF Current, Blocks
<1>3. EventOf(q, d)' = EventOf(q, d)
  BY <1>2 DEF EventOf
<1>4. head \in Nat /\ thread[q][d].to \in Nat /\ thread[q][d].to <= head'
  BY <1>1 DEF ThreadTyped, IInv, Shape
<1>5. thread[q][d].queue # {} => Key(EventOf(q, d)) \in Keys
  BY QueueFacts
<1>6. /\ DOMAIN db[PoolKey] \subseteq DOMAIN db'[PoolKey]
      /\ thread[q][d].queue # {} => DOMAIN db[Key(EventOf(q, d))] \subseteq DOMAIN db'[Key(EventOf(q, d))]
  BY <1>5, PoolKeyFacts DEF RowsGrow
<1>7. QED BY <1>1, <1>2, <1>3, <1>4, <1>6 DEF ThreadTyped, Values

LEMMA IdleTyped ==
    ASSUME UNCHANGED script, NEW p, NEW c, thread'[p][c].pc \in {"done", "begin", "load"},
           thread'[p][c].to <= head', thread'[p][c].next <= thread'[p][c].to + 1,
           thread'[p][c].pc \in {"done", "begin"} => thread'[p][c].queue = {},
           thread'[p][c].pc = "load" => thread'[p][c].next > 0,
           \A i \in thread'[p][c].queue : i \in Blocks /\ script[i].contract = c /\ i < thread'[p][c].next
    PROVE  ThreadTyped(p, c)'
BY DEF ThreadTyped, Blocks, Working

LEMMA TypesKept ==
    ASSUME IInv, TypeInv, UNCHANGED script, head' \in Nat, head <= head', head' <= Len(script),
           \A c \in Watched : checkpoint'[c] <= head',
           fate' \in [Blocks -> Outcomes],
           upset' \subseteq {"overlap", "interrupted", "reindex"}, faults' \in 0 .. MaxFaults,
           RowsGrow,
           \A p \in Pollers, c \in Watched : thread'[p][c] = thread[p][c] \/ ThreadTyped(p, c)'
    PROVE  TypeInv'
<1>1. Watched' = Watched /\ Blocks' = Blocks
  BY DEF Watched, Blocks
<1>2. \A p \in Pollers, c \in Watched : ThreadTyped(p, c)'
  BY OtherTyped
<1>3. QED BY <1>1, <1>2 DEF TypeInv, RowsGrow

\* One thread moves.
LEMMA OneTyped ==
    ASSUME IInv, TypeInv, UNCHANGED <<script, head>>,
           \A c \in Watched : checkpoint'[c] <= head,
           fate' \in [Blocks -> Outcomes],
           upset' \subseteq {"overlap", "interrupted", "reindex"}, faults' \in 0 .. MaxFaults,
           RowsGrow, NEW p \in Pollers, NEW c \in Watched, NEW t,
           thread' = [thread EXCEPT ![p][c] = t],
           thread'[p][c] = t => ThreadTyped(p, c)'
    PROVE  TypeInv'
<1>1. thread = [q \in Pollers |-> [d \in Watched |-> thread[q][d]]] /\ head \in Nat
  BY DEF IInv, Shape
<1>2. \A q \in Pollers, d \in Watched : thread'[q][d] = IF q = p /\ d = c THEN t ELSE thread[q][d]
  BY <1>1
<1>3. \A q \in Pollers, d \in Watched : thread'[q][d] = thread[q][d] \/ ThreadTyped(q, d)'
  BY <1>2
<1>4. head' \in Nat /\ head <= head' /\ head' <= Len(script)
  BY <1>1 DEF TypeInv
<1>5. QED BY <1>3, <1>4, TypesKept

\* What stays as it is.
LEMMA TypeParts ==
    ASSUME IInv, TypeInv
    PROVE  /\ \A c \in Watched : checkpoint[c] <= head
           /\ fate \in [Blocks -> Outcomes]
           /\ upset \subseteq {"overlap", "interrupted", "reindex"}
           /\ faults \in 0 .. MaxFaults /\ MaxFaults \in Nat
           /\ head \in Nat /\ head <= Len(script)
           /\ \A p \in Pollers, c \in Watched :
                 /\ DOMAIN thread[p][c] = Fields
                 /\ thread[p][c].to \in Nat /\ thread[p][c].next \in Nat
                 /\ ThreadTyped(p, c)
BY IndexerAssumption DEF IInv, Shape, TypeInv

LEMMA HandledTyped ==
    ASSUME IInv, TypeInv, NEW p \in Pollers, NEW c \in Watched,
           NEW outcome \in {"applied", "dropped", "failed"}, thread[p][c].queue # {},
           Handled(p, c, outcome), UNCHANGED <<script, head, checkpoint, upset>>,
           faults' \in 0 .. MaxFaults, RowsGrow
    PROVE  TypeInv'
<1> DEFINE t == At("load", thread[p][c].to, thread[p][c].next, thread[p][c].queue \ {Current(p, c)})
<1>1. /\ t.pc = "load" /\ t.to = thread[p][c].to /\ t.next = thread[p][c].next
      /\ t.queue = thread[p][c].queue \ {Current(p, c)}
  BY DEF At
<1>2. thread' = [thread EXCEPT ![p][c] = t] /\ fate' = [fate EXCEPT ![Current(p, c)] = outcome]
  BY DEF Handled
<1> HIDE DEF t
<1>3. fate' \in [Blocks -> Outcomes]
  BY <1>2, TypeParts DEF Outcomes
<1>4. thread'[p][c] = t => ThreadTyped(p, c)'
  <2>1. ThreadTyped(p, c)
    BY TypeParts
  <2>2. thread[p][c].next > 0
    BY <2>1 DEF ThreadTyped, Working
  <2>3. \A i \in t.queue : i \in Blocks /\ script[i].contract = c /\ i < t.next
    BY <1>1, <2>1 DEF ThreadTyped
  <2>4. QED BY <1>1, <2>1, <2>2, <2>3, IdleTyped DEF ThreadTyped
<1>5. QED BY <1>2, <1>3, <1>4, TypeParts, OneTyped

LEMMA InitTyped == Init => TypeInv
<1> SUFFICES ASSUME Init PROVE TypeInv
  OBVIOUS
<1>1. head = 0 /\ Len(script) \in Nat
  BY IndexerAssumption DEF Init
<1>2. ASSUME NEW p \in Pollers, NEW c \in Watched PROVE ThreadTyped(p, c)
  <2>1. thread[p][c] = Done
    BY DEF Init
  <2>2. Done.pc = "done" /\ Done.to = 0 /\ Done.next = 0 /\ Done.queue = {}
    BY DEF Done, At
  <2>3. QED BY <1>1, <2>1, <2>2 DEF ThreadTyped, Working
<1>3. RowsTyped
  BY DEF RowsTyped, Init
<1>4. /\ \A c \in Watched : checkpoint[c] <= head
      /\ fate \in [Blocks -> Outcomes] /\ upset = {} /\ faults = 0
  BY <1>1 DEF Init, Outcomes
<1>5. QED BY <1>1, <1>2, <1>3, <1>4, IndexerAssumption DEF TypeInv

LEMMA DoneTyped == ASSUME UNCHANGED script, head' \in Nat, NEW p, NEW c, thread'[p][c] = Done
                   PROVE  ThreadTyped(p, c)'
<1>1. Done.pc = "done" /\ Done.to = 0 /\ Done.next = 0 /\ Done.queue = {}
  BY DEF Done, At
<1>2. QED BY <1>1, IdleTyped

LEMMA BegunTyped == ASSUME UNCHANGED <<script, head>>, head \in Nat, NEW p, NEW c,
                           thread'[p][c] = At("begin", head, 0, {})
                    PROVE  ThreadTyped(p, c)'
<1> DEFINE b == At("begin", head, 0, {})
<1>1. b.pc = "begin" /\ b.to = head /\ b.next = 0 /\ b.queue = {}
  BY DEF At
<1> HIDE DEF b
<1>2. QED BY <1>1, IdleTyped DEF b

\* Nothing but a poll's place changes.
LEMMA PlaceTyped ==
    ASSUME IInv, TypeInv, NEW p \in Pollers, NEW c \in Watched,
           ReadCheckpoint(p, c) \/ Query(p, c) \/ Finish(p, c) \/ FailCheckpoint(p, c)
    PROVE  TypeInv'
<1>1. UNCHANGED <<script, head, db>>
  BY DEF ReadCheckpoint, Query, Finish, FailCheckpoint
<1>2. RowsGrow
  BY <1>1, RowsUnchanged
<1> DEFINE t == thread[p][c]
<1>3. /\ DOMAIN t = Fields /\ t.to \in Nat /\ t.next \in Nat /\ head \in Nat
      /\ t.to <= head /\ t.next <= t.to + 1 /\ (t.pc \in {"done", "begin"} => t.queue = {})
      /\ checkpoint[c] \in Nat /\ (t.pc = "load" => t.next > 0)
  BY TypeParts DEF ThreadTyped, Working, IInv, Shape
<1>4. CASE ReadCheckpoint(p, c)
  <2> DEFINE n == IF checkpoint[c] >= t.to THEN Done
                  ELSE [t EXCEPT !.pc = "load", !.next = checkpoint[c] + 1]
  <2>1. /\ thread' = [thread EXCEPT ![p][c] = n] /\ t.pc = "begin"
        /\ UNCHANGED <<checkpoint, fate, upset, faults>>
    BY <1>4 DEF ReadCheckpoint
  <2>2. n # Done => /\ n.pc = "load" /\ n.to = t.to /\ n.next = checkpoint[c] + 1 /\ n.queue = {}
                    /\ checkpoint[c] < t.to
    BY <1>3, <2>1 DEF Fields
  <2> HIDE DEF n
  <2>3. thread'[p][c] = n => ThreadTyped(p, c)'
    BY <1>1, <1>3, <2>2, DoneTyped, IdleTyped
  <2>4. QED BY <1>1, <1>2, <2>1, <2>3, TypeParts, OneTyped
<1>5. CASE Query(p, c)
  <2> DEFINE first == t.next
             last == ChunkEnd(p, c)
  <2>1. PICK failing \in SUBSET {script[i].name : i \in first .. last} :
          /\ failing # {} => faults < MaxFaults
          /\ faults' = IF failing = {} THEN faults ELSE faults + 1
          /\ thread' = [thread EXCEPT ![p][c].queue = Collected(c, Names[c] \ failing, first, last),
                                      ![p][c].next = last + 1]
          /\ fate' = [i \in Blocks |-> IF i \in first .. last /\ script[i].contract = c /\ script[i].name \in failing
                                       THEN "failed" ELSE fate[i]]
    BY <1>5 DEF Query
  <2>2. UNCHANGED <<checkpoint, upset>> /\ t.pc = "load" /\ t.next <= t.to
    BY <1>5 DEF Query
  <2> DEFINE n == [[t EXCEPT !.queue = Collected(c, Names[c] \ failing, first, last)] EXCEPT !.next = last + 1]
  <2>3. thread = [q \in Pollers |-> [d \in Watched |-> thread[q][d]]]
    BY DEF IInv, Shape
  <2>4. thread' = [thread EXCEPT ![p][c] = n]
    BY <2>1, <2>3
  <2>5. /\ n.pc = "load" /\ n.to = t.to /\ n.next = last + 1
        /\ n.queue = Collected(c, Names[c] \ failing, first, last)
    BY <1>3, <2>2 DEF Fields
  <2>6. last \in Nat /\ first <= last /\ last <= t.to
    BY <1>3, <2>2, IndexerAssumption DEF ChunkEnd
  <2>7. fate' \in [Blocks -> Outcomes] /\ faults' \in 0 .. MaxFaults
    BY <2>1, TypeParts DEF Outcomes
  <2> HIDE DEF n, last
  <2>8. ASSUME NEW i \in n.queue PROVE i \in Blocks /\ script[i].contract = c /\ i < n.next
    <3>1. i \in first .. last /\ script[i].contract = c
      BY <2>5 DEF Collected
    <3>2. i \in Nat /\ i <= head /\ i < last + 1
      BY <1>3, <2>6, <3>1
    <3>3. i # 0
      BY <1>3, <2>2, <3>1, TypeParts DEF ThreadTyped, Working
    <3>4. i \in Blocks
      BY <3>2, <3>3, TypeParts, ScriptFacts DEF IInv
    <3>5. QED BY <2>5, <3>1, <3>2, <3>4
  <2>9. thread'[p][c] = n => ThreadTyped(p, c)'
    <3>1. n.next > 0 /\ n.next <= n.to + 1 /\ n.to <= head
      BY <1>3, <2>2, <2>5, <2>6
    <3>2. SUFFICES ASSUME thread'[p][c] = n PROVE ThreadTyped(p, c)'
      OBVIOUS
    <3>3. \A i \in thread'[p][c].queue : i \in Blocks /\ script[i].contract = c /\ i < thread'[p][c].next
      BY <2>8, <3>2
    <3>4. /\ thread'[p][c].pc = "load" /\ thread'[p][c].next > 0
          /\ thread'[p][c].next <= thread'[p][c].to + 1 /\ thread'[p][c].to <= head'
      BY <1>1, <2>5, <3>1, <3>2
    <3>5. QED BY <1>1, <3>3, <3>4, IdleTyped
  <2>10. QED BY <1>1, <1>2, <2>2, <2>4, <2>7, <2>9, TypeParts, OneTyped
<1>6. CASE Finish(p, c)
  <2>1. /\ thread' = [thread EXCEPT ![p][c] = Done] /\ checkpoint' = [checkpoint EXCEPT ![c] = t.to]
        /\ UNCHANGED <<fate, upset, faults>>
    BY <1>6 DEF Finish
  <2>2. \A d \in Watched : checkpoint'[d] <= head
    BY <1>3, <2>1, TypeParts DEF IInv, Shape
  <2>3. thread'[p][c] = Done => ThreadTyped(p, c)'
    BY <1>1, <1>3, DoneTyped
  <2>4. QED BY <1>1, <1>2, <2>1, <2>2, <2>3, TypeParts, OneTyped
<1>7. CASE FailCheckpoint(p, c)
  <2>1. /\ thread' = [thread EXCEPT ![p][c] = Done] /\ UNCHANGED <<checkpoint, fate>>
        /\ faults < MaxFaults /\ faults' = faults + 1 /\ upset' = upset \cup {"interrupted"}
    BY <1>7 DEF FailCheckpoint
  <2>2. thread'[p][c] = Done => ThreadTyped(p, c)'
    BY <1>1, <1>3, DoneTyped
  <2>3. faults' \in 0 .. MaxFaults
    BY <2>1, TypeParts
  <2>4. QED BY <1>1, <1>2, <2>1, <2>2, <2>3, TypeParts, OneTyped
<1>8. QED BY <1>4, <1>5, <1>6, <1>7

\* Polls start and die, checkpoints go back, the chain goes on.
LEMMA PollsTyped ==
    ASSUME IInv, TypeInv, Mine \/ Restart \/ Reindex \/ (\E p \in Pollers : StartPoll(p)) \/ UNCHANGED vars
    PROVE  TypeInv'
<1>1. UNCHANGED <<script, db, fate>>
  BY DEF Mine, Restart, Reindex, StartPoll, vars
<1>2. RowsGrow
  BY <1>1, RowsUnchanged
<1>3. thread = [p \in Pollers |-> [c \in Watched |-> thread[p][c]]]
  BY DEF IInv, Shape
<1>4. CASE Mine \/ UNCHANGED vars
  <2>1. UNCHANGED <<checkpoint, thread, upset, faults>> /\ head' \in Nat /\ head <= head' /\ head' <= Len(script)
    BY <1>4, TypeParts, ScriptFacts DEF Mine, vars, IInv
  <2>2. \A c \in Watched : checkpoint'[c] <= head'
    BY <2>1, TypeParts DEF IInv, Shape
  <2>3. QED BY <1>1, <1>2, <2>1, <2>2, TypeParts, TypesKept
<1>5. CASE Restart
  <2>1. /\ UNCHANGED <<head, checkpoint>> /\ faults' \in 0 .. MaxFaults
        /\ upset' = upset \cup {"interrupted"}
    BY <1>5, TypeParts DEF Restart
  <2>2. \A p \in Pollers, c \in Watched : thread'[p][c] = Done
    BY <1>5 DEF Restart
  <2>3. \A p \in Pollers, c \in Watched : ThreadTyped(p, c)'
    BY <1>1, <2>1, <2>2, TypeParts, DoneTyped
  <2>4. QED BY <1>1, <1>2, <2>1, <2>3, TypeParts, TypesKept
<1>6. CASE Reindex
  <2>1. /\ UNCHANGED <<head, thread>> /\ faults' \in 0 .. MaxFaults
        /\ upset' = upset \cup {"reindex"} /\ checkpoint' = [c \in Watched |-> 0]
    BY <1>6, TypeParts DEF Reindex
  <2>2. QED BY <1>1, <1>2, <2>1, TypeParts, TypesKept
<1>7. ASSUME NEW p \in Pollers, StartPoll(p) PROVE TypeInv'
  <2>1. /\ UNCHANGED <<head, checkpoint>> /\ faults' \in 0 .. MaxFaults
        /\ upset' \subseteq upset \cup {"overlap"}
    BY <1>7, TypeParts DEF StartPoll
  <2>2. \A q \in Pollers, c \in Watched :
           thread'[q][c] = thread[q][c] \/ thread'[q][c] = At("begin", head, 0, {})
    BY <1>3, <1>7 DEF StartPoll
  <2>3. \A q \in Pollers, c \in Watched : thread'[q][c] = thread[q][c] \/ ThreadTyped(q, c)'
    BY <1>1, <2>1, <2>2, TypeParts, BegunTyped
  <2>4. QED BY <1>1, <1>2, <2>1, <2>3, TypeParts, TypesKept
<1>8. QED BY <1>4, <1>5, <1>6, <1>7

LEMMA LoadTyped ==
    ASSUME IInv, TypeInv, NEW p \in Pollers, NEW c \in Watched, Load(p, c)
    PROVE  TypeInv'
<1> DEFINE t == thread[p][c]
           e == script[Current(p, c)]
<1>1. /\ UNCHANGED <<script, head, checkpoint, db, upset, faults>>
      /\ t.pc = "load" /\ t.queue # {}
  BY DEF Load
<1>2. PICK at \in Rows(Key(e)), poolAt \in (IF NeedsPool(e) THEN Rows(PoolKey) ELSE {0}) :
        \/ /\ Return(e, at, poolAt) # "goes on"
           /\ Handled(p, c, Return(e, at, poolAt))
        \/ /\ Return(e, at, poolAt) = "goes on"
           /\ thread' = [thread EXCEPT ![p][c] = [@ EXCEPT
                  !.pc = IF Kept(e, at) THEN "reopen" ELSE "save",
                  !.at = at, !.image = Image(Key(e), at),
                  !.poolAt = poolAt, !.poolImage = Image(PoolKey, poolAt)]]
           /\ UNCHANGED fate
  BY DEF Load
<1>3. RowsGrow
  BY <1>1, RowsUnchanged
<1>4. CASE Return(e, at, poolAt) # "goes on" /\ Handled(p, c, Return(e, at, poolAt))
  <2>1. Return(e, at, poolAt) \in {"applied", "dropped", "failed"}
    BY <1>4 DEF Return
  <2>2. QED BY <1>1, <1>3, <1>4, <2>1, TypeParts, HandledTyped
<1>5. CASE /\ Return(e, at, poolAt) = "goes on"
           /\ thread' = [thread EXCEPT ![p][c] = [@ EXCEPT
                  !.pc = IF Kept(e, at) THEN "reopen" ELSE "save",
                  !.at = at, !.image = Image(Key(e), at),
                  !.poolAt = poolAt, !.poolImage = Image(PoolKey, poolAt)]]
           /\ UNCHANGED fate
  <2> DEFINE n == [t EXCEPT !.pc = IF Kept(e, at) THEN "reopen" ELSE "save",
                            !.at = at, !.image = Image(Key(e), at),
                            !.poolAt = poolAt, !.poolImage = Image(PoolKey, poolAt)]
  <2>1. thread' = [thread EXCEPT ![p][c] = n]
    BY <1>5
  <2>2. /\ n.pc = (IF Kept(e, at) THEN "reopen" ELSE "save")
        /\ n.to = t.to /\ n.next = t.next /\ n.queue = t.queue
        /\ n.at = at /\ n.image = Image(Key(e), at)
        /\ n.poolAt = poolAt /\ n.poolImage = Image(PoolKey, poolAt)
    BY TypeParts DEF Fields
  <2> HIDE DEF n
  <2>3. ~Missing(e, at, poolAt) /\ ~(at # 0 /\ Throws(e))
        /\ ~(Kept(e, at) /\ ~Reopens(e, Image(PoolKey, poolAt)))
    BY <1>5 DEF Return
  <2>4. /\ e.contract \in Contracts /\ e.name \in Names[e.contract] /\ Key(e) \in Keys
    BY <1>1, QueueFacts DEF EventOf
  <2>5. NeedsPool(e) => poolAt \in DOMAIN db[PoolKey] /\ Image(PoolKey, poolAt) \in PoolRows
    <3> SUFFICES ASSUME NeedsPool(e) PROVE poolAt \in DOMAIN db[PoolKey] /\ Image(PoolKey, poolAt) \in PoolRows
      OBVIOUS
    <3>1. poolAt # 0 /\ poolAt \in DOMAIN db[PoolKey]
      BY <2>3 DEF Missing, Rows
    <3>2. db[PoolKey] \in Seq(PoolRows)
      BY PoolKeyFacts DEF TypeInv, RowsTyped
    <3>3. QED BY <3>1, <3>2 DEF Image
  <2>6. Kept(e, at) => e.name = "ContributionReceived"
    BY <2>3 DEF Reopens
  <2>7. ~Kept(e, at) => \/ at = 0 /\ Inserts(e)
                        \/ at \in DOMAIN db[Key(e)] /\ Image(Key(e), at) \in Values(Key(e)) /\ Updates(e)
    <3>1. CASE at = 0
      BY <2>3, <3>1 DEF Missing
    <3>2. ASSUME at # 0, ~Kept(e, at)
          PROVE  at \in DOMAIN db[Key(e)] /\ Image(Key(e), at) \in Values(Key(e)) /\ Updates(e)
      <4>1. at \in DOMAIN db[Key(e)]
        BY <3>2 DEF Rows
      <4>2. db[Key(e)] \in Seq(Values(Key(e)))
        BY <2>4 DEF TypeInv, RowsTyped
      <4>3. Image(Key(e), at) \in Values(Key(e))
        BY <3>2, <4>1, <4>2 DEF Image
      <4>4. ~Throws(e) /\ e.name \notin {"PoolCreated", "JoinedPool", "StreamCreated", "ProposalCreated"}
        BY <2>3, <3>2 DEF Kept, Keeps
      <4>5. Updates(e)
        BY <2>4, <4>4, EventTables DEF Throws, Updates, Contracts, Names
      <4>6. QED BY <4>1, <4>3, <4>5
    <3>3. QED BY <3>1, <3>2
  <2>8. thread'[p][c] = n => ThreadTyped(p, c)'
    <3> SUFFICES ASSUME thread'[p][c] = n PROVE ThreadTyped(p, c)'
      OBVIOUS
    <3>1. Current(p, c)' = Current(p, c) /\ Blocks' = Blocks
      BY <1>1, <2>2 DEF Current, Blocks
    <3>2. EventOf(p, c)' = e
      BY <1>1, <3>1 DEF EventOf
    <3>3. ThreadTyped(p, c) /\ t.next > 0
      BY <1>1, TypeParts DEF ThreadTyped, Working
    <3>4. t.queue \subseteq {i \in Blocks : script[i].contract = c /\ i < t.next}
      BY <3>3 DEF ThreadTyped
    <3>5. n.pc \in {"save", "reopen"} /\ n.to <= head /\ n.next <= n.to + 1 /\ n.next > 0 /\ n.queue # {}
      BY <1>1, <2>2, <3>3 DEF ThreadTyped
    <3>6. n.pc = "save" => \/ n.at = 0 /\ Inserts(e)
                           \/ n.at \in DOMAIN db[Key(e)] /\ n.image \in Values(Key(e)) /\ Updates(e)
      BY <2>2, <2>7
    <3>7. /\ n.pc = "reopen" => e.name = "ContributionReceived"
          /\ NeedsPool(e) => n.poolAt \in DOMAIN db[PoolKey] /\ n.poolImage \in PoolRows
      BY <2>2, <2>5, <2>6
    <3>8. n.queue \subseteq {i \in Blocks : script[i].contract = c /\ i < n.next}
      BY <2>2, <3>4
    <3> HIDE DEF e
    <3>9. QED BY <1>1, <3>1, <3>2, <3>5, <3>6, <3>7, <3>8 DEF ThreadTyped, Working, Values
  <2>9. QED BY <1>1, <1>3, <1>5, <2>1, <2>8, TypeParts, OneTyped
<1>6. QED BY <1>2, <1>4, <1>5

LEMMA SaveTyped ==
    ASSUME IInv, TypeInv, NEW p \in Pollers, NEW c \in Watched, Save(p, c)
    PROVE  TypeInv'
<1> DEFINE t == thread[p][c]
           e == EventOf(p, c)
           k == Key(e)
           refused == t.at = 0 /\ k[1] \in UniqueTables /\ db[k] # <<>>
<1>1. /\ UNCHANGED <<script, head, checkpoint, upset, faults>> /\ t.pc = "save"
      /\ db' = IF refused THEN db
               ELSE IF t.at = 0 THEN [db EXCEPT ![k] = Append(@, Fresh(e))]
               ELSE [db EXCEPT ![k][t.at] = Updated(e, t.image)]
      /\ \/ \E outcome \in {"applied", "failed"} : Handled(p, c, outcome)
         \/ /\ NeedsPool(e) /\ Reopens(e, t.poolImage)
            /\ thread' = [thread EXCEPT ![p][c].pc = "reopen"] /\ UNCHANGED fate
  BY DEF Save, EventOf
<1>2. ThreadTyped(p, c)
  BY TypeParts
<1>3. t.queue # {}
  BY <1>1, <1>2 DEF ThreadTyped
<1>4. /\ e.contract \in Contracts /\ e.name \in Names[e.contract] /\ e.arg \in Nat
      /\ k \in Keys
  BY <1>3, QueueFacts
<1>5. \/ t.at = 0 /\ Inserts(e)
      \/ t.at \in DOMAIN db[k] /\ t.image \in Values(k) /\ Updates(e)
  BY <1>1, <1>2 DEF ThreadTyped
<1>6. RowsGrow
  <2>1. CASE refused
    BY <1>1, <2>1, RowsUnchanged
  <2>2. CASE ~refused /\ t.at = 0
    <3>1. Inserts(e)
      <4>1. 0 \notin DOMAIN db[k]
        <5>1. db[k] \in Seq(Values(k))
          BY <1>4 DEF TypeInv, RowsTyped
        <5>2. QED BY <5>1
      <4>2. QED BY <1>5, <2>2, <4>1
    <3>2. Fresh(e) \in Values(k)
      BY <1>4, <3>1, FreshTyped
    <3> HIDE DEF e, k
    <3>3. k[1] \in UniqueTables => db[k] = <<>>
      BY <2>2
    <3>4. db' = [db EXCEPT ![k] = Append(@, Fresh(e))]
      BY <1>1, <2>2
    <3> DEFINE row == Fresh(e)
    <3> HIDE DEF row
    <3>5. row \in Values(k) /\ db' = [db EXCEPT ![k] = Append(@, row)]
      BY <3>2, <3>4 DEF row
    <3>6. QED BY <1>1, <1>4, <3>3, <3>5, RowAppended
  <2>3. CASE ~refused /\ t.at # 0
    <3>1. t.at \in DOMAIN db[k] /\ t.image \in Values(k) /\ Updates(e)
      BY <1>5, <2>3
    <3> DEFINE row == Updated(e, t.image)
    <3>2. row \in Values(k) /\ db' = [db EXCEPT ![k][t.at] = row]
      BY <1>1, <1>4, <2>3, <3>1, UpdatedTyped
    <3> HIDE DEF row, k, e
    <3>3. QED BY <1>1, <1>4, <3>1, <3>2, RowReplaced
  <2>4. QED BY <2>1, <2>2, <2>3
<1>7. CASE \E outcome \in {"applied", "failed"} : Handled(p, c, outcome)
  BY <1>1, <1>3, <1>6, <1>7, TypeParts, HandledTyped
<1>8. CASE /\ NeedsPool(e) /\ Reopens(e, t.poolImage)
           /\ thread' = [thread EXCEPT ![p][c].pc = "reopen"] /\ UNCHANGED fate
  <2> DEFINE n == [t EXCEPT !.pc = "reopen"]
  <2>1. thread' = [thread EXCEPT ![p][c] = n]
    BY <1>8
  <2>2. /\ n.pc = "reopen" /\ n.to = t.to /\ n.next = t.next /\ n.queue = t.queue
        /\ n.poolAt = t.poolAt /\ n.poolImage = t.poolImage
    BY TypeParts DEF Fields
  <2> HIDE DEF n
  <2>3. thread'[p][c] = n => ThreadTyped(p, c)'
    <3> SUFFICES ASSUME thread'[p][c] = n PROVE ThreadTyped(p, c)'
      OBVIOUS
    <3>1. Current(p, c)' = Current(p, c) /\ Blocks' = Blocks
      BY <1>1, <2>2 DEF Current, Blocks
    <3>2. EventOf(p, c)' = e
      BY <1>1, <3>1 DEF EventOf
    <3>3. /\ t.poolAt \in DOMAIN db'[PoolKey] /\ t.poolImage \in PoolRows
          /\ e.name = "ContributionReceived"
      BY <1>1, <1>2, <1>6, <1>8, PoolKeyFacts DEF ThreadTyped, RowsGrow, Reopens
    <3>4. /\ n.to <= head /\ n.next <= n.to + 1 /\ n.next > 0 /\ n.queue # {}
          /\ n.queue \subseteq {i \in Blocks : script[i].contract = c /\ i < n.next}
      BY <1>1, <1>2, <1>3, <2>2 DEF ThreadTyped, Working
    <3> HIDE DEF e
    <3>5. QED BY <1>1, <2>2, <3>1, <3>2, <3>3, <3>4 DEF ThreadTyped, Working
  <2>4. QED BY <1>1, <1>6, <1>8, <2>1, <2>3, TypeParts, OneTyped
<1>9. QED BY <1>1, <1>7, <1>8

LEMMA ReopenTyped ==
    ASSUME IInv, TypeInv, NEW p \in Pollers, NEW c \in Watched, ReopenPool(p, c)
    PROVE  TypeInv'
<1> DEFINE t == thread[p][c]
           row == [t.poolImage EXCEPT !.status = "active"]
<1>1. /\ UNCHANGED <<script, head, checkpoint, upset, faults>> /\ t.pc = "reopen"
      /\ db' = [db EXCEPT ![PoolKey][t.poolAt] = row] /\ Handled(p, c, "applied")
  BY DEF ReopenPool
<1>2. /\ t.queue # {} /\ t.poolAt \in DOMAIN db[PoolKey] /\ t.poolImage \in PoolRows
  <2>1. ThreadTyped(p, c)
    BY TypeParts
  <2>2. t.queue # {} /\ EventOf(p, c).name = "ContributionReceived"
    BY <1>1, <2>1 DEF ThreadTyped
  <2>3. NeedsPool(EventOf(p, c))
    BY <2>2 DEF NeedsPool, Table, Names
  <2>4. QED BY <1>1, <2>1, <2>2, <2>3 DEF ThreadTyped
<1>3. row \in Values(PoolKey)
  BY <1>2, PoolKeyFacts DEF PoolRows
<1> HIDE DEF row
<1>4. RowsGrow
  BY <1>1, <1>2, <1>3, PoolKeyFacts, RowReplaced
<1>5. QED BY <1>1, <1>2, <1>4, TypeParts, HandledTyped

LEMMA FailSaveTyped ==
    ASSUME IInv, TypeInv, NEW p \in Pollers, NEW c \in Watched, FailSave(p, c)
    PROVE  TypeInv'
<1>1. /\ UNCHANGED <<script, head, checkpoint, db, upset>> /\ Handled(p, c, "failed")
      /\ thread[p][c].pc \in {"save", "reopen"} /\ faults < MaxFaults /\ faults' = faults + 1
  BY DEF FailSave
<1>2. thread[p][c].queue # {}
  BY <1>1, TypeParts DEF ThreadTyped
<1>3. faults' \in 0 .. MaxFaults
  BY <1>1, TypeParts
<1>4. QED BY <1>1, <1>2, <1>3, RowsUnchanged, HandledTyped

LEMMA RecordTyped ==
    ASSUME IInv, TypeInv, NEW k \in Keys, RecordContribution(k)
    PROVE  TypeInv'
<1> DEFINE row == [status |-> "pending-onchain"]
<1>1. /\ k[1] = "contribution" /\ db[k] = <<>> /\ db' = [db EXCEPT ![k] = <<row>>]
      /\ UNCHANGED <<script, head, checkpoint, thread, fate, upset, faults>>
  BY DEF RecordContribution
<1>2. row \in Values(k)
  BY <1>1, ValuesOf DEF ContributionRows
<1>3. Append(db[k], row) = <<row>>
  BY <1>1
<1>4. db' = [db EXCEPT ![k] = Append(@, row)]
  BY <1>1, <1>3 DEF TypeInv, RowsTyped
<1> HIDE DEF row
<1>5. RowsGrow
  BY <1>1, <1>2, <1>4, RowAppended
<1>6. QED BY <1>1, <1>5, TypeParts, TypesKept

LEMMA StepTyped == IInv /\ TypeInv /\ [Next]_vars => TypeInv'
<1> SUFFICES ASSUME IInv, TypeInv, [Next]_vars PROVE TypeInv'
  OBVIOUS
<1>1. ASSUME NEW p \in Pollers, NEW c \in Watched, Step(p, c) PROVE TypeInv'
  BY <1>1, PlaceTyped, LoadTyped, SaveTyped, ReopenTyped DEF Step
<1>2. QED BY <1>1, PlaceTyped, PollsTyped, RecordTyped, FailSaveTyped DEF Next

LEMMA TypeInvImplies == IInv /\ TypeInv => TypeOK
<1> SUFFICES ASSUME IInv, TypeInv PROVE TypeOK
  OBVIOUS
<1>1. ASSUME NEW n \in DOMAIN db[PoolKey]
      PROVE  /\ db[PoolKey][n].currentRound \in Nat \ {0}
             /\ db[PoolKey][n].status \in {"active", "round-closed"}
  <2>1. db[PoolKey] \in Seq(PoolRows)
    BY PoolKeyFacts DEF TypeInv, RowsTyped
  <2>2. db[PoolKey][n] \in PoolRows
    BY <2>1
  <2>3. QED BY <2>2 DEF PoolRows
<1>2. \A p \in Pollers, c \in Watched :
         /\ thread[p][c].pc \in {"done", "begin", "load", "save", "reopen"}
         /\ thread[p][c].next \in 0 .. thread[p][c].to + 1
  BY TypeParts DEF ThreadTyped
<1>3. checkpoint \in [Watched -> 0 .. head] /\ head \in 0 .. Len(script)
  BY ScriptFacts DEF TypeInv, IInv, Shape
<1>4. DOMAIN db = Keys /\ \A k \in Keys : k[1] \in UniqueTables => Len(db[k]) <= 1
  BY DEF TypeInv, RowsTyped
<1>5. QED BY <1>1, <1>2, <1>3, <1>4 DEF TypeOK, TypeInv

-----------------------------------------------------------------------------
(* What an event does to a row that is right *)

LEMMA NamedKeys ==
    ASSUME Shape, NEW i \in Blocks
    PROVE  LET e == script[i]
           IN  /\ e.name \in {"PoolCreated", "RoundClosed"} => Key(e) = PoolKey /\ e.contract = "EqubPool"
               /\ e.name \in {"StreamCreated", "StreamFrozen"} => Key(e) = <<"stream", 0>>
               /\ e.name = "ScoreUpdated" => Key(e) = <<"score", 0>> /\ e.contract = "CreditRegistry"
               /\ e.name \in {"ProposalCreated", "VoteCast", "ProposalExecuted", "ProposalCancelled"} =>
                     Key(e) = <<"proposal", 0>> /\ e.contract = "EqubGovernor"
               /\ e.name \in {"ContributionReceived", "DefaultTriggered"} =>
                     /\ Key(e)[1] = "contribution" /\ Key(e) # PoolKey
                     /\ NeedsPool(e) /\ e.contract = "EqubPool"
<1> DEFINE e == script[i]
<1>1. e.contract \in Contracts /\ e.name \in Names[e.contract]
  BY EventsOfScript
<1> HIDE DEF e
<1>2. /\ Key(e)[1] # "contribution" => Key(e) = <<Key(e)[1], 0>>
      /\ e.contract = Home(Key(e)[1])
      /\ Key(e)[1] = Table(e.name)
      /\ Key(e) = PoolKey <=> Table(e.name) = "pool"
  BY <1>1, KeyOfEvent
<1>3. e.name \in {"PoolCreated", "RoundClosed"} => Key(e) = PoolKey /\ e.contract = "EqubPool"
  BY <1>1, <1>2, TableOf DEF Home
<1>4. e.name \in {"StreamCreated", "StreamFrozen"} => Key(e) = <<"stream", 0>>
  BY <1>1, <1>2, TableOf
<1>5. e.name = "ScoreUpdated" => Key(e) = <<"score", 0>> /\ e.contract = "CreditRegistry"
  BY <1>1, <1>2, TableOf DEF Home
<1>6. e.name \in {"ProposalCreated", "VoteCast", "ProposalExecuted", "ProposalCancelled"} =>
         Key(e) = <<"proposal", 0>> /\ e.contract = "EqubGovernor"
  BY <1>1, <1>2, TableOf DEF Home
<1>7. e.name \in {"ContributionReceived", "DefaultTriggered"} =>
         Key(e)[1] = "contribution" /\ Key(e) # PoolKey /\ NeedsPool(e) /\ e.contract = "EqubPool"
  BY <1>1, <1>2, TableOf DEF Home, NeedsPool
<1>8. QED BY <1>3, <1>4, <1>5, <1>6, <1>7 DEF e

LEMMA RightStays ==
    ASSUME NEW k, NEW r, NEW A, NEW P, NEW h \in Nat, Right(k, r, A, P, h),
           NEW A2 \in SUBSET A, NEW P2 \in SUBSET P, NEW h2 \in Nat, h <= h2
    PROVE  Right(k, r, A2, P2, h2)
<1>1. \A j \in 0 .. h : j \in 0 .. h2
  OBVIOUS
<1>2. \A j \in 1 .. h : j \in 1 .. h2
  OBVIOUS
<1>3. \A names, j : NoneLater(names, j, P) => NoneLater(names, j, P2)
  BY DEF NoneLater
<1>4. PoolRight(r, P, h) => PoolRight(r, P2, h2)
  BY <1>1, <1>3 DEF PoolRight
<1>5. ContributionRight(k, r, A, h) => ContributionRight(k, r, A2, h2)
  BY <1>2 DEF ContributionRight
<1>6. StreamRight(r, A, h) => StreamRight(r, A2, h2)
  BY <1>2 DEF StreamRight
<1>7. ScoreRight(r, P, h) => ScoreRight(r, P2, h2)
  BY <1>2, <1>3 DEF ScoreRight
<1>8. ProposalRight(r, A, h) => ProposalRight(r, A2, h2)
  BY <1>2 DEF ProposalRight
<1>9. QED BY <1>4, <1>5, <1>6, <1>7, <1>8 DEF Right

\* A poll gets to an event after those it has passed.
Reached(i, A, P) ==
    /\ i \in Blocks /\ i \in 1 .. head
    /\ A \subseteq Blocks /\ P \subseteq A
    /\ \A a \in P : script[a].contract = script[i].contract => a <= i

\* Rows that an event is not about, or that it leaves as they are.
LEMMA RightOther ==
    ASSUME Shape, NEW i, NEW A, NEW P, Reached(i, A, P), NEW k \in Keys, NEW r,
           Right(k, r, A, P, head),
           k = Key(script[i]) => script[i].name \notin {"RoundClosed", "DefaultTriggered", "StreamFrozen",
                                     "ScoreUpdated", "ProposalExecuted", "ProposalCancelled"},
           k = Key(script[i]) /\ script[i].name = "ContributionReceived" => r.status # "pending-onchain",
           k = PoolKey /\ script[i].name = "ContributionReceived" => r.status = "active"
    PROVE  Right(k, r, A \cup {i}, P \cup {i}, head)
<1> DEFINE e == script[i]
<1>1. i \in Blocks /\ i \in 1 .. head /\ head \in Nat
  BY DEF Reached, Shape
<1>2. k[1] # "contribution" => k = <<k[1], 0>>
  BY KeyFacts
<1>3. k[1] = "pool" => k = PoolKey
  BY KeyFacts
<1>4. CASE k[1] = "pool"
  <2>1. e.name # "RoundClosed"
    BY <1>1, <1>3, <1>4, NamedKeys
  <2>2. PoolRight(r, P, head)
    BY <1>4 DEF Right
  <2>3. PICK j \in 0 .. head : RoundFrom(r, j) /\ NoneLater({"RoundClosed"}, j, P)
    BY <2>2 DEF PoolRight
  <2>4. NoneLater({"RoundClosed"}, j, P \cup {i})
    BY <2>1, <2>3 DEF NoneLater
  <2>5. PICK m \in 0 .. head : StatusFrom(r, m) /\ NoneLater({"RoundClosed", "ContributionReceived"}, m, P)
    BY <2>2 DEF PoolRight
  <2>6. CASE e.name = "ContributionReceived"
    <3>1. StatusFrom(r, i)
      BY <1>1, <1>3, <1>4, <2>6 DEF StatusFrom
    <3>2. \A a \in P : script[a].name \in {"RoundClosed", "ContributionReceived"} => a <= i
      <4> SUFFICES ASSUME NEW a \in P, script[a].name \in {"RoundClosed", "ContributionReceived"} PROVE a <= i
        OBVIOUS
      <4>1. a \in Blocks
        BY DEF Reached
      <4>2. script[a].contract = script[i].contract
        BY <1>1, <2>6, <4>1, NamedKeys
      <4>3. QED BY <4>2 DEF Reached
    <3>3. NoneLater({"RoundClosed", "ContributionReceived"}, i, P \cup {i})
      BY <1>1, <3>2 DEF NoneLater
    <3>4. QED BY <1>1, <1>4, <2>3, <2>4, <3>1, <3>3 DEF Right, PoolRight
  <2>7. CASE e.name # "ContributionReceived"
    <3>1. NoneLater({"RoundClosed", "ContributionReceived"}, m, P \cup {i})
      BY <2>1, <2>5, <2>7 DEF NoneLater
    <3>2. QED BY <1>4, <2>3, <2>4, <2>5, <3>1 DEF Right, PoolRight
  <2>8. QED BY <2>6, <2>7
<1>5. CASE k[1] = "contribution"
  <2>1. ContributionRight(k, r, A, head)
    BY <1>5 DEF Right
  <2>2. ContributionRight(k, r, A \cup {i}, head)
    BY <2>1 DEF ContributionRight, Wrote
  <2>3. QED BY <1>5, <2>2 DEF Right
<1>6. CASE k[1] = "stream"
  <2>1. e.name # "StreamFrozen"
    BY <1>1, <1>2, <1>6, NamedKeys
  <2>2. QED BY <1>6, <2>1 DEF Right, StreamRight
<1>7. CASE k[1] = "score"
  <2>1. e.name # "ScoreUpdated"
    BY <1>1, <1>2, <1>7, NamedKeys
  <2>2. PICK j \in 1 .. head : /\ script[j].name = "ScoreUpdated" /\ r.score = script[j].arg
                               /\ NoneLater({"ScoreUpdated"}, j, P)
    BY <1>7 DEF Right, ScoreRight
  <2>3. NoneLater({"ScoreUpdated"}, j, P \cup {i})
    BY <2>1, <2>2 DEF NoneLater
  <2>4. QED BY <1>7, <2>2, <2>3 DEF Right, ScoreRight
<1>8. CASE k[1] = "proposal"
  <2>1. e.name \notin {"ProposalExecuted", "ProposalCancelled"}
    BY <1>1, <1>2, <1>8, NamedKeys
  <2>2. QED BY <1>8, <2>1 DEF Right, ProposalRight
<1>9. CASE k[1] \notin {"pool", "contribution", "stream", "score", "proposal"}
  BY <1>9 DEF Right
<1>10. QED BY <1>4, <1>5, <1>6, <1>7, <1>8, <1>9

\* A new row of a key none of whose events was applied.
LEMMA RightFresh ==
    ASSUME Shape, NEW i, NEW A, NEW P, Reached(i, A, P), Inserts(script[i]),
           \A a \in A : /\ Key(script[a]) # Key(script[i])
                        /\ NeedsPool(script[a]) => Key(script[i]) # PoolKey
    PROVE  Right(Key(script[i]), Fresh(script[i]), A \cup {i}, P \cup {i}, head)
<1> DEFINE e == script[i]
           k == Key(e)
           r == Fresh(e)
<1>1. i \in Blocks /\ i \in 1 .. head /\ head \in Nat /\ A \subseteq Blocks /\ P \subseteq A
  BY DEF Reached, Shape
<1>2. e.contract \in Contracts /\ e.name \in Names[e.contract]
  BY <1>1, EventsOfScript
<1>3. k[1] # "contribution" => k = <<k[1], 0>>
  BY <1>2, KeyOfEvent
<1>4. CASE e.name = "PoolCreated"
  <2>1. k = PoolKey /\ k[1] = "pool" /\ r.currentRound = 1 /\ r.status = "active"
    BY <1>1, <1>4, NamedKeys, PoolKeyFacts DEF Fresh
  <2>2. \A a \in P : script[a].name \notin {"RoundClosed", "ContributionReceived"}
    BY <1>1, <2>1, NamedKeys
  <2>3. \A a \in P \cup {i} : script[a].name \notin {"RoundClosed", "ContributionReceived"}
    BY <1>4, <2>2
  <2>4. RoundFrom(r, 0) /\ StatusFrom(r, 0) /\ 0 \in 0 .. head
    BY <1>1, <2>1 DEF RoundFrom, StatusFrom
  <2>5. PoolRight(r, P \cup {i}, head)
    BY <2>3, <2>4 DEF PoolRight, NoneLater
  <2>6. QED BY <2>1, <2>5 DEF Right
<1>5. CASE e.name \in {"ContributionReceived", "DefaultTriggered"}
  <2>1. k[1] = "contribution" /\ r.status = IF e.name = "ContributionReceived" THEN "confirmed" ELSE "defaulted"
    BY <1>1, <1>5, NamedKeys DEF Fresh
  <2>2. \A a \in A : ~ Wrote(a, k, "ContributionReceived") /\ ~ Wrote(a, k, "DefaultTriggered")
    BY DEF Wrote
  <2>3. ContributionRight(k, r, A \cup {i}, head)
    BY <1>1, <1>5, <2>1, <2>2 DEF ContributionRight, Wrote
  <2>4. QED BY <2>1, <2>3 DEF Right
<1>6. CASE e.name = "StreamCreated"
  <2>1. k = <<"stream", 0>> /\ r.frozen = FALSE
    BY <1>1, <1>6, NamedKeys DEF Fresh
  <2>2. \A a \in A \cup {i} : script[a].name # "StreamFrozen"
    BY <1>1, <1>6, <2>1, NamedKeys
  <2>3. StreamRight(r, A \cup {i}, head)
    BY <2>1, <2>2 DEF StreamRight
  <2>4. QED BY <2>1, <2>3 DEF Right
<1>7. CASE e.name = "ScoreUpdated"
  <2>1. k = <<"score", 0>> /\ r.score = e.arg
    BY <1>1, <1>7, NamedKeys DEF Fresh
  <2>2. \A a \in P : script[a].name # "ScoreUpdated"
    BY <1>1, <2>1, NamedKeys
  <2>3. NoneLater({"ScoreUpdated"}, i, P \cup {i})
    BY <1>1, <2>2 DEF NoneLater
  <2>4. ScoreRight(r, P \cup {i}, head)
    BY <1>1, <1>7, <2>1, <2>3 DEF ScoreRight
  <2>5. QED BY <2>1, <2>4 DEF Right
<1>8. CASE e.name = "ProposalCreated"
  <2>1. k = <<"proposal", 0>> /\ r.status = "active"
    BY <1>1, <1>8, NamedKeys DEF Fresh
  <2>2. \A a \in A \cup {i} : script[a].name \notin {"ProposalExecuted", "ProposalCancelled"}
    BY <1>1, <1>8, <2>1, NamedKeys
  <2>3. ProposalRight(r, A \cup {i}, head)
    BY <2>1, <2>2 DEF ProposalRight
  <2>4. QED BY <2>1, <2>3 DEF Right
<1>9. CASE e.name \in {"JoinedPool", "CollateralDeposited"}
  <2>1. k[1] \in {"member", "collateral"}
    BY <1>2, <1>9, TableOf
  <2>2. QED BY <2>1 DEF Right
<1>10. QED BY <1>4, <1>5, <1>6, <1>7, <1>8, <1>9 DEF Inserts

\* The row an event writes over.  Only a contribution announced by the API is
\* confirmed, which no default has been noted on.
LEMMA RightUpdated ==
    ASSUME Shape, NEW i, NEW A, NEW P, Reached(i, A, P), Updates(script[i]),
           NEW r \in Values(Key(script[i])), Right(Key(script[i]), r, A, P, head),
           script[i].name = "ContributionReceived" => r.status = "pending-onchain"
    PROVE  Right(Key(script[i]), Updated(script[i], r), A \cup {i}, P \cup {i}, head)
<1> DEFINE e == script[i]
           k == Key(e)
           u == Updated(e, r)
<1>1. i \in Blocks /\ i \in 1 .. head /\ head \in Nat /\ A \subseteq Blocks /\ P \subseteq A
  BY DEF Reached, Shape
<1>2. e.contract \in Contracts /\ e.name \in Names[e.contract] /\ e.arg \in Nat
  BY <1>1, EventsOfScript
<1>3. \A a \in P : a \in Blocks /\ (script[a].contract = e.contract => a <= i)
  BY <1>1 DEF Reached
<1>4. CASE e.name = "RoundClosed"
  <2>1. /\ k = PoolKey /\ k[1] = "pool" /\ e.contract = "EqubPool"
        /\ u.currentRound = e.arg + 1 /\ u.status = "round-closed"
    BY <1>1, <1>4, NamedKeys, PoolKeyFacts DEF Updated
  <2>2. RoundFrom(u, i) /\ StatusFrom(u, i)
    BY <1>1, <1>4, <2>1 DEF RoundFrom, StatusFrom
  <2>3. \A a \in P : script[a].name \in {"RoundClosed", "ContributionReceived"} => a <= i
    BY <1>3, <2>1, NamedKeys
  <2>4. /\ NoneLater({"RoundClosed", "ContributionReceived"}, i, P \cup {i})
        /\ NoneLater({"RoundClosed"}, i, P \cup {i})
    BY <1>1, <2>3 DEF NoneLater
  <2>5. PoolRight(u, P \cup {i}, head)
    BY <1>1, <2>2, <2>4 DEF PoolRight
  <2>6. QED BY <2>1, <2>5 DEF Right
<1>5. CASE e.name \in {"ContributionReceived", "DefaultTriggered"}
  <2>1. k[1] = "contribution" /\ u.status = IF e.name = "ContributionReceived" THEN "confirmed" ELSE "defaulted"
    BY <1>1, <1>5, NamedKeys DEF Updated
  <2>2. ContributionRight(k, r, A, head)
    BY <2>1 DEF Right
  <2>3. e.name = "ContributionReceived" => \A a \in A : ~ Wrote(a, k, "DefaultTriggered")
    BY <2>2 DEF ContributionRight
  <2>4. ContributionRight(k, u, A \cup {i}, head)
    BY <1>1, <1>5, <2>1, <2>3 DEF ContributionRight, Wrote
  <2>5. QED BY <2>1, <2>4 DEF Right
<1>6. CASE e.name = "StreamFrozen"
  <2>1. k = <<"stream", 0>> /\ k[1] = "stream" /\ r \in StreamRows
    BY <1>1, <1>6, NamedKeys, ValuesOf
  <2>2. u = [r EXCEPT !.frozen = TRUE]
    BY <1>6 DEF Updated
  <2>3. u.frozen = TRUE
    BY <2>1, <2>2 DEF StreamRows
  <2>4. StreamRight(u, A \cup {i}, head)
    BY <1>1, <1>6, <2>3 DEF StreamRight
  <2>5. QED BY <2>1, <2>4 DEF Right
<1>7. CASE e.name = "ScoreUpdated"
  <2>1. k = <<"score", 0>> /\ e.contract = "CreditRegistry" /\ u.score = e.arg
    BY <1>1, <1>7, NamedKeys DEF Updated
  <2>2. \A a \in P : script[a].name = "ScoreUpdated" => a <= i
    BY <1>3, <2>1, NamedKeys
  <2>3. NoneLater({"ScoreUpdated"}, i, P \cup {i})
    BY <1>1, <2>2 DEF NoneLater
  <2>4. ScoreRight(u, P \cup {i}, head)
    BY <1>1, <1>7, <2>1, <2>3 DEF ScoreRight
  <2>5. QED BY <2>1, <2>4 DEF Right
<1>8. CASE e.name \in {"VoteCast", "ProposalExecuted", "ProposalCancelled"}
  <2>1. k = <<"proposal", 0>> /\ k[1] = "proposal" /\ r \in ProposalRows
    BY <1>1, <1>8, NamedKeys, ValuesOf
  <2>2. ProposalRight(r, A, head)
    BY <2>1 DEF Right
  <2>3. \A a, b \in Blocks : script[a].name = "ProposalExecuted" => script[b].name # "ProposalCancelled"
    BY ScriptsAssumption DEF Shape, Blocks
  <2>4. CASE e.name = "VoteCast"
    <3>1. u = IF e.arg = 1 THEN [r EXCEPT !.yes = @ + 1] ELSE [r EXCEPT !.no = @ + 1]
      BY <2>4 DEF Updated
    <3>2. u.status = r.status
      BY <2>1, <3>1 DEF ProposalRows
    <3>3. ProposalRight(u, A \cup {i}, head)
      BY <2>2, <2>4, <3>2 DEF ProposalRight
    <3>4. QED BY <2>1, <3>3 DEF Right
  <2>5. CASE e.name = "ProposalExecuted"
    <3>1. u = [r EXCEPT !.status = "executed"]
      BY <2>5 DEF Updated
    <3>2. u.status = "executed"
      BY <2>1, <3>1 DEF ProposalRows
    <3>3. \A a \in A \cup {i} : script[a].name # "ProposalCancelled"
      BY <1>1, <2>3, <2>5
    <3>4. ProposalRight(u, A \cup {i}, head)
      BY <1>1, <2>5, <3>2, <3>3 DEF ProposalRight
    <3>5. QED BY <2>1, <3>4 DEF Right
  <2>6. CASE e.name = "ProposalCancelled"
    <3>1. u = [r EXCEPT !.status = "cancelled"]
      BY <2>6 DEF Updated
    <3>2. u.status = "cancelled"
      BY <2>1, <3>1 DEF ProposalRows
    <3>3. \A a \in A \cup {i} : script[a].name # "ProposalExecuted"
      BY <1>1, <2>3, <2>6
    <3>4. ProposalRight(u, A \cup {i}, head)
      BY <1>1, <2>6, <3>2, <3>3 DEF ProposalRight
    <3>5. QED BY <2>1, <3>4 DEF Right
  <2>7. QED BY <1>8, <2>4, <2>5, <2>6
<1>9. QED BY <1>4, <1>5, <1>6, <1>7, <1>8 DEF Updates

\* A pool that is active again after the contribution.
LEMMA RightReopened ==
    ASSUME Shape, NEW i, NEW A, NEW P, Reached(i, A, P), script[i].name = "ContributionReceived",
           NEW r \in PoolRows, Right(PoolKey, r, A, P, head)
    PROVE  Right(PoolKey, [r EXCEPT !.status = "active"], A \cup {i}, P \cup {i}, head)
<1> DEFINE u == [r EXCEPT !.status = "active"]
<1>1. i \in Blocks /\ i \in 1 .. head /\ head \in Nat /\ A \subseteq Blocks /\ P \subseteq A
  BY DEF Reached, Shape
<1>2. u.status = "active" /\ u.currentRound = r.currentRound
  BY DEF PoolRows
<1> HIDE DEF u
<1>3. \A a \in P : script[a].name \in {"RoundClosed", "ContributionReceived"} => a <= i
  <2> SUFFICES ASSUME NEW a \in P, script[a].name \in {"RoundClosed", "ContributionReceived"} PROVE a <= i
    OBVIOUS
  <2>1. script[a].contract = script[i].contract
    BY <1>1, NamedKeys
  <2>2. QED BY <2>1 DEF Reached
<1>4. StatusFrom(u, i) /\ NoneLater({"RoundClosed", "ContributionReceived"}, i, P \cup {i})
  <2>1. StatusFrom(u, i)
    BY <1>1, <1>2 DEF StatusFrom
  <2>2. NoneLater({"RoundClosed", "ContributionReceived"}, i, P \cup {i})
    BY <1>1, <1>3 DEF NoneLater
  <2>3. QED BY <2>1, <2>2
<1>5. PoolRight(r, P, head)
  BY PoolKeyFacts DEF Right
<1>6. PICK j \in 0 .. head : RoundFrom(r, j) /\ NoneLater({"RoundClosed"}, j, P)
  BY <1>5 DEF PoolRight
<1>7. RoundFrom(u, j) /\ NoneLater({"RoundClosed"}, j, P \cup {i})
  BY <1>2, <1>6 DEF RoundFrom, NoneLater
<1>8. PoolRight(u, P \cup {i}, head)
  BY <1>1, <1>4, <1>7 DEF PoolRight
<1>9. QED BY <1>8, PoolKeyFacts DEF Right, u

-----------------------------------------------------------------------------
(* Steps of polls that do not overlap *)

LEMMA AppliedFacts == Applied \subseteq Blocks /\ Passed \subseteq Applied
BY DEF Applied, Passed

LEMMA RightNext ==
    ASSUME UNCHANGED script, NEW k, Right(k, db'[k][1], Applied', Passed', head')
    PROVE  Right(k, Row(k), Applied, Passed, head)'
<1> DEFINE A == Applied'
           P == Passed'
<1>1. Right(k, db'[k][1], A, P, head')
  OBVIOUS
<1> HIDE DEF A, P
<1>2. /\ k[1] = "pool" => PoolRight(db'[k][1], P, head')
      /\ k[1] = "contribution" => ContributionRight(k, db'[k][1], A, head')
      /\ k[1] = "stream" => StreamRight(db'[k][1], A, head')
      /\ k[1] = "score" => ScoreRight(db'[k][1], P, head')
      /\ k[1] = "proposal" => ProposalRight(db'[k][1], A, head')
  BY <1>1 DEF Right
<1>3. k[1] = "pool" => PoolRight(Row(k), Passed, head)'
  BY <1>2 DEF PoolRight, RoundFrom, StatusFrom, NoneLater, Row, P
<1>4. k[1] = "contribution" => ContributionRight(k, Row(k), Applied, head)'
  BY <1>2 DEF ContributionRight, Wrote, Row, A
<1>5. k[1] = "stream" => StreamRight(Row(k), Applied, head)'
  BY <1>2 DEF StreamRight, Row, A
<1>6. k[1] = "score" => ScoreRight(Row(k), Passed, head)'
  BY <1>2 DEF ScoreRight, NoneLater, Row, P
<1>7. k[1] = "proposal" => ProposalRight(Row(k), Applied, head)'
  BY <1>2 DEF ProposalRight, Row, A
<1>8. QED BY <1>3, <1>4, <1>5, <1>6, <1>7 DEF Right

\* Rows stay right when nothing is written and no event applied.
LEMMA QuietRows ==
    ASSUME IInv, TypeInv, Steady, UNCHANGED <<script, db>>, head' \in Nat, head <= head',
           Applied' \subseteq Applied, Passed' \subseteq Passed
    PROVE  RowsExist' /\ RowsRight'
<1>1. Keys' = Keys /\ head \in Nat
  BY DEF Keys, Blocks, IInv, Shape
<1>2. RowsExist'
  BY DEF Steady, RowsExist
<1>3. ASSUME NEW k \in Keys, db'[k] # <<>> PROVE Right(k, Row(k), Applied, Passed, head)'
  <2>1. Right(k, db[k][1], Applied, Passed, head)
    BY <1>3 DEF Steady, RowsRight, Row
  <2>2. Right(k, db'[k][1], Applied', Passed', head')
    BY <1>1, <2>1, RightStays
  <2>3. QED BY <2>2, RightNext
<1>4. \A k \in Keys : Len(db'[k]) <= 1
  BY DEF Steady, RowsRight
<1>5. RowsRight'
  BY <1>1, <1>3, <1>4 DEF RowsRight
<1>6. QED BY <1>2, <1>5

\* One row is written, the others stay right.
LEMMA RowWrittenRight ==
    ASSUME IInv, TypeInv, Steady, UNCHANGED <<script, head>>, NEW k \in Keys,
           db'[k] # <<>>, Len(db'[k]) = 1, \A a \in Keys \ {k} : db'[a] = db[a],
           NEW A, NEW P, Applied' \subseteq A, Passed' \subseteq P,
           Right(k, db'[k][1], A, P, head),
           \A a \in Keys \ {k} : db[a] # <<>> => Right(a, Row(a), A, P, head),
           \A i \in Applied' \ Applied :
              /\ Key(script[i]) = k \/ db[Key(script[i])] # <<>>
              /\ NeedsPool(script[i]) => db[PoolKey] # <<>>
    PROVE  RowsExist' /\ RowsRight'
<1>1. Keys' = Keys /\ Blocks' = Blocks /\ head \in Nat
  BY DEF Keys, Blocks, IInv, Shape
<1>2. \A i \in Applied' : i \in Blocks /\ Key(script[i]) \in Keys
  BY <1>1 DEF Applied, Keys
<1>3. \A i \in Applied' : /\ Key(script[i]) = k \/ db[Key(script[i])] # <<>>
                          /\ NeedsPool(script[i]) => db[PoolKey] # <<>>
  BY DEF Steady, RowsExist
<1>4. RowsExist'
  BY <1>2, <1>3, PoolKeyFacts DEF RowsExist
<1>5. ASSUME NEW a \in Keys, db'[a] # <<>> PROVE Right(a, Row(a), Applied, Passed, head)'
  <2>1. Right(a, db'[a][1], A, P, head)
    BY <1>5 DEF Row
  <2>2. Right(a, db'[a][1], Applied', Passed', head')
    BY <1>1, <2>1, RightStays
  <2>3. QED BY <2>2, RightNext
<1>6. ASSUME NEW a \in Keys PROVE Len(db'[a]) <= 1
  <2>1. CASE a = k
    <3> DEFINE n == Len(db'[a])
    <3>1. n = 1
      BY <2>1
    <3> HIDE DEF n
    <3>2. n <= 1
      BY <3>1
    <3>3. QED BY <3>2 DEF n
  <2>2. CASE a # k
    <3>1. db'[a] = db[a]
      BY <2>2
    <3>2. QED BY <3>1 DEF Steady, RowsRight
  <2>3. QED BY <2>1, <2>2
<1>7. RowsRight'
  BY <1>1, <1>5, <1>6 DEF RowsRight
<1>8. QED BY <1>4, <1>7

\* The event a poll is at comes after all that were passed.
LEMMA ReachedNow ==
    ASSUME IInv, TypeInv, Steady, NEW p \in Pollers, NEW c \in Watched,
           Working(thread[p][c]), thread[p][c].queue # {}
    PROVE  Reached(Current(p, c), Applied, Passed)
<1> DEFINE i == Current(p, c)
           t == thread[p][c]
<1>1. i \in Blocks /\ i \in 1 .. head /\ i \in t.queue /\ script[i].contract = c
  BY QueueFacts
<1>2. ASSUME NEW a \in Passed, script[a].contract = c PROVE a <= i
  <2>1. a \in Applied /\ Behind(a) /\ a \in Blocks
    BY <1>2, AppliedFacts DEF Passed
  <2>2. a \in Nat /\ i \in Nat /\ checkpoint[c] \in Nat
    BY <1>1, <2>1, EventFacts DEF IInv, Shape
  <2>3. InOrder(p, c)
    BY DEF Steady
  <2>4. CASE a <= checkpoint[c]
    BY <1>1, <2>2, <2>3, <2>4 DEF InOrder
  <2>5. CASE \E q \in Pollers : /\ Working(thread[q][c])
                                /\ a < thread[q][c].next /\ a \notin thread[q][c].queue
    <3>1. a < t.next /\ a \notin t.queue
      BY <2>5 DEF Steady, Alone, Working
    <3>2. QED BY <1>1, <1>2, <2>1, <2>2, <2>3, <3>1 DEF InOrder
  <2>6. QED BY <1>2, <2>1, <2>4, <2>5 DEF Behind
<1>3. QED BY <1>1, <1>2, AppliedFacts DEF Reached

\* Threads a step leaves alone read on in order.
LEMMA OtherInOrder ==
    ASSUME UNCHANGED script, NEW q \in Pollers, NEW d \in Watched, InOrder(q, d),
           thread'[q][d] = thread[q][d], checkpoint'[d] = checkpoint[d],
           \A a \in Applied' : script[a].contract = d => a \in Applied
    PROVE  InOrder(q, d)'
BY DEF InOrder

\* A poll writes only rows of the contract it works on, which no one else reads.
LEMMA OtherReads ==
    ASSUME IInv, TypeInv, Steady, UNCHANGED script, NEW p \in Pollers, NEW c \in Watched,
           thread[p][c].pc # "done", \A k \in Keys : Home(k[1]) # c => db'[k] = db[k],
           NEW q \in Pollers, NEW d \in Watched, ~(q = p /\ d = c), thread'[q][d] = thread[q][d]
    PROVE  Current1(q, d)'
<1>1. CASE q # p
  <2>1. thread[q][d].pc = "done"
    BY <1>1 DEF Steady, Alone
  <2>2. QED BY <2>1 DEF Current1
<1>2. CASE q = p /\ d # c /\ thread[q][d].pc \in {"save", "reopen"}
  <2> DEFINE e == EventOf(q, d)
  <2>1. thread[q][d].queue # {}
    BY <1>2, TypeParts DEF ThreadTyped
  <2>2. e.contract = d /\ e.contract = Home(Key(e)[1]) /\ Key(e) \in Keys
        /\ e.contract \in Contracts /\ e.name \in Names[e.contract]
    BY <2>1, QueueFacts, KeyOfEvent
  <2>3. db'[Key(e)] = db[Key(e)]
    BY <1>2, <2>2
  <2>4. e.name = "ContributionReceived" => db'[PoolKey] = db[PoolKey]
    <3>1. SUFFICES ASSUME e.name = "ContributionReceived" PROVE db'[PoolKey] = db[PoolKey]
      OBVIOUS
    <3>2. d = "EqubPool"
      BY <2>2, <3>1, TableOf DEF Home
    <3>3. Home(PoolKey[1]) = "EqubPool"
      BY PoolKeyFacts DEF Home
    <3>4. QED BY <1>2, <3>2, <3>3, PoolKeyFacts
  <2>5. Current(q, d)' = Current(q, d)
    BY DEF Current
  <2>6. EventOf(q, d)' = e
    BY <2>5 DEF EventOf
  <2>7. Current1(q, d)
    BY DEF Steady
  <2> HIDE DEF e
  <2>8. QED BY <2>3, <2>4, <2>6, <2>7 DEF Current1, Row, e
<1>3. CASE thread[q][d].pc \notin {"save", "reopen"}
  BY <1>3 DEF Current1
<1>4. QED BY <1>1, <1>2, <1>3

-----------------------------------------------------------------------------
(* Where a poll is, in the order of the chain *)

\* One thread of the poll under way moves; the others are as they were.
LEMMA OthersSteady ==
    ASSUME IInv, TypeInv, Steady, UNCHANGED script, NEW p \in Pollers, NEW c \in Watched, NEW t,
           thread' = [thread EXCEPT ![p][c] = t], thread[p][c].pc # "done",
           \A d \in Watched \ {c} : checkpoint'[d] = checkpoint[d],
           \A a \in Applied' : script[a].contract # c => a \in Applied,
           \A k \in Keys : Home(k[1]) # c => db'[k] = db[k],
           thread'[p][c] = t => InOrder(p, c)' /\ Current1(p, c)'
    PROVE  Alone' /\ \A q \in Pollers, d \in Watched' : InOrder(q, d)' /\ Current1(q, d)'
<1>1. thread = [q \in Pollers |-> [d \in Watched |-> thread[q][d]]] /\ Watched' = Watched
  BY DEF IInv, Shape, Watched, Blocks
<1>2. \A q \in Pollers, d \in Watched : thread'[q][d] = IF q = p /\ d = c THEN t ELSE thread[q][d]
  BY <1>1
<1>3. \A q \in Pollers, d \in Watched : q # p => thread[q][d].pc = "done" /\ thread'[q][d] = thread[q][d]
  BY <1>2 DEF Steady, Alone
<1>4. Alone'
  BY <1>1, <1>3 DEF Alone
<1>5. ASSUME NEW q \in Pollers, NEW d \in Watched PROVE InOrder(q, d)' /\ Current1(q, d)'
  <2>1. CASE q = p /\ d = c
    BY <1>2, <2>1
  <2>2. CASE q # p
    BY <1>3, <2>2 DEF InOrder, Current1, Working
  <2>3. CASE q = p /\ d # c
    <3>1. thread'[q][d] = thread[q][d] /\ checkpoint'[d] = checkpoint[d]
      BY <1>2, <2>3
    <3>2. InOrder(q, d)
      BY DEF Steady
    <3>3. \A a \in Applied' : script[a].contract = d => a \in Applied
      BY <2>3
    <3>4. InOrder(q, d)'
      BY <3>1, <3>2, <3>3, OtherInOrder
    <3>5. Current1(q, d)'
      BY <2>3, <3>1, OtherReads
    <3>6. QED BY <3>4, <3>5
  <2>4. QED BY <2>1, <2>2, <2>3
<1>6. QED BY <1>1, <1>4, <1>5

\* What is behind is behind one of the two.
LEMMA BehindOf ==
    ASSUME NEW i, NEW p \in Pollers, Working(thread[p][script[i].contract]),
           i < thread[p][script[i].contract].next, i \notin thread[p][script[i].contract].queue
    PROVE  Behind(i)
BY DEF Behind

\* A handler has returned: its event is the only one that is passed.
LEMMA HandledSteady ==
    ASSUME IInv, TypeInv, Steady, NEW p \in Pollers, NEW c \in Watched,
           NEW outcome \in {"applied", "dropped", "failed"},
           Working(thread[p][c]), thread[p][c].queue # {}, Handled(p, c, outcome),
           UNCHANGED <<script, head, checkpoint>>,
           \A k \in Keys : Home(k[1]) # c => db'[k] = db[k]
    PROVE  /\ Alone' /\ \A q \in Pollers, d \in Watched' : InOrder(q, d)' /\ Current1(q, d)'
           /\ Applied' \subseteq Applied \cup {Current(p, c)}
           /\ Passed' \subseteq Passed \cup {Current(p, c)}
           /\ outcome # "applied" => Applied' \subseteq Applied /\ Passed' \subseteq Passed
<1> DEFINE cur == Current(p, c)
           t == thread[p][c]
           n == At("load", t.to, t.next, t.queue \ {cur})
<1>1. thread' = [thread EXCEPT ![p][c] = n] /\ fate' = [fate EXCEPT ![cur] = outcome]
  BY DEF Handled
<1>2. n.pc = "load" /\ n.next = t.next /\ n.queue = t.queue \ {cur}
  BY DEF At
<1>3. /\ cur \in Blocks /\ cur \in t.queue /\ cur < t.next /\ cur \in Nat
      /\ \A j \in t.queue : j \in Nat /\ cur <= j
      /\ script[cur].contract = c
  BY QueueFacts
<1>4. fate = [i \in Blocks |-> fate[i]] /\ Blocks' = Blocks /\ Watched' = Watched
      /\ thread = [q \in Pollers |-> [d \in Watched |-> thread[q][d]]]
  BY DEF IInv, Shape, Blocks, Watched
<1> HIDE DEF n, cur
<1>5. \A q \in Pollers, d \in Watched : thread'[q][d] = IF q = p /\ d = c THEN n ELSE thread[q][d]
  BY <1>1, <1>4
<1>6. \A i \in Applied' : i \in Applied \/ (i = cur /\ outcome = "applied")
  BY <1>1, <1>4 DEF Applied
<1>7. outcome # "applied" => cur \notin Applied'
  BY <1>1, <1>3, <1>4 DEF Applied
<1>8. ASSUME NEW i \in Applied', Behind(i)', i # cur PROVE Behind(i)
  <2> DEFINE d == script[i].contract
  <2>1. i \in Blocks /\ d \in Watched
    BY <1>4 DEF Applied, Watched
  <2>2. CASE i <= checkpoint[d]
    BY <2>2 DEF Behind
  <2>3. ASSUME NEW q \in Pollers, Working(thread'[q][d]), i < thread'[q][d].next, i \notin thread'[q][d].queue
        PROVE  Behind(i)
    <3>1. CASE q = p /\ d = c
      <4>1. i < t.next /\ i \notin t.queue
        BY <1>2, <1>5, <1>8, <2>3, <3>1
      <4>2. QED BY <3>1, <4>1 DEF Behind
    <3>2. CASE ~(q = p /\ d = c)
      BY <1>5, <2>1, <2>3, <3>2 DEF Behind
    <3>3. QED BY <3>1, <3>2
  <2>4. i <= checkpoint'[d] \/ \E q \in Pollers : /\ Working(thread'[q][d])
                                                  /\ i < thread'[q][d].next /\ i \notin thread'[q][d].queue
    BY <1>8 DEF Behind
  <2>5. QED BY <2>2, <2>3, <2>4
<1>9. \A i \in Passed' : i \in Passed \/ (i = cur /\ outcome = "applied")
  BY <1>6, <1>7, <1>8 DEF Passed
<1>10. ASSUME thread'[p][c] = n PROVE InOrder(p, c)' /\ Current1(p, c)'
  <2>1. InOrder(p, c)
    BY DEF Steady
  <2>2. \A i \in n.queue : checkpoint'[c] < i
    BY <1>2, <2>1 DEF InOrder
  <2>3. ASSUME NEW i \in Applied', script[i].contract = c, i < n.next, i \notin n.queue, NEW j \in n.queue
        PROVE  i < j
    <3>1. CASE i = cur
      BY <1>2, <1>3, <3>1
    <3>2. CASE i # cur
      <4>1. i \in Applied /\ i < t.next /\ i \notin t.queue /\ j \in t.queue
        BY <1>2, <1>6, <2>3, <3>2
      <4>2. QED BY <2>1, <2>3, <4>1 DEF InOrder
    <3>3. QED BY <3>1, <3>2
  <2>4. InOrder(p, c)'
    BY <1>2, <1>10, <2>1, <2>2, <2>3 DEF InOrder
  <2>5. Current1(p, c)'
    BY <1>2, <1>10 DEF Current1
  <2>6. QED BY <2>4, <2>5
<1>11. \A a \in Applied' : script[a].contract # c => a \in Applied
  BY <1>3, <1>6
<1>12. thread[p][c].pc # "done" /\ \A d \in Watched \ {c} : checkpoint'[d] = checkpoint[d]
  BY DEF Working
<1>13. Alone' /\ \A q \in Pollers, d \in Watched' : InOrder(q, d)' /\ Current1(q, d)'
  BY <1>1, <1>10, <1>11, <1>12, OthersSteady
<1>14. QED BY <1>6, <1>9, <1>13 DEF cur

-----------------------------------------------------------------------------
(* Steps that write no row *)

LEMMA QuietSteady ==
    ASSUME IInv, TypeInv, Steady, UNCHANGED <<script, db>>, head' \in Nat, head <= head',
           Applied' \subseteq Applied, \A i \in Applied' : Behind(i)' => Behind(i),
           Alone', \A q \in Pollers, d \in Watched' : InOrder(q, d)' /\ Current1(q, d)'
    PROVE  Steady'
<1>1. Passed' \subseteq Passed
  BY DEF Passed
<1>2. RowsExist' /\ RowsRight'
  BY <1>1, QuietRows
<1>3. QED BY <1>2 DEF Steady

LEMMA SameFate == ASSUME UNCHANGED <<script, fate>> PROVE Applied' = Applied
BY DEF Applied, Blocks

\* What a thread of one contract leaves behind is behind it.
LEMMA BehindThen ==
    ASSUME UNCHANGED script, IInv, NEW p \in Pollers, NEW c \in Watched, NEW n,
           thread' = [thread EXCEPT ![p][c] = n],
           \A d \in Watched \ {c} : checkpoint'[d] = checkpoint[d],
           NEW i \in Blocks, Behind(i)',
           script[i].contract = c /\ i <= checkpoint'[c] => Behind(i),
           script[i].contract = c /\ Working(n) /\ i < n.next /\ i \notin n.queue => Behind(i)
    PROVE  Behind(i)
<1> DEFINE d == script[i].contract
<1>1. thread = [q \in Pollers |-> [a \in Watched |-> thread[q][a]]] /\ d \in Watched
  BY DEF IInv, Shape, Watched
<1>2. \A q \in Pollers, a \in Watched : thread'[q][a] = IF q = p /\ a = c THEN n ELSE thread[q][a]
  BY <1>1
<1>3. i <= checkpoint'[d] \/ \E q \in Pollers : /\ Working(thread'[q][d])
                                                /\ i < thread'[q][d].next /\ i \notin thread'[q][d].queue
  BY DEF Behind
<1>4. CASE i <= checkpoint'[d]
  BY <1>1, <1>4 DEF Behind
<1>5. ASSUME NEW q \in Pollers, Working(thread'[q][d]), i < thread'[q][d].next, i \notin thread'[q][d].queue
      PROVE  Behind(i)
  <2>1. CASE q = p /\ d = c
    BY <1>1, <1>2, <1>5, <2>1
  <2>2. CASE ~(q = p /\ d = c)
    <3>1. thread'[q][d] = thread[q][d]
      BY <1>1, <1>2, <2>2
    <3>2. Working(thread[q][d]) /\ i < thread[q][d].next /\ i \notin thread[q][d].queue
      BY <1>5, <3>1
    <3>3. QED BY <3>2, BehindOf
  <2>3. QED BY <2>1, <2>2
<1>6. QED BY <1>3, <1>4, <1>5

LEMMA ReadCheckpointSteady ==
    ASSUME IInv, TypeInv, Steady, NEW p \in Pollers, NEW c \in Watched, ReadCheckpoint(p, c)
    PROVE  Steady'
<1> DEFINE t == thread[p][c]
           n == IF checkpoint[c] >= t.to THEN Done ELSE [t EXCEPT !.pc = "load", !.next = checkpoint[c] + 1]
<1>1. /\ thread' = [thread EXCEPT ![p][c] = n] /\ t.pc = "begin"
      /\ UNCHANGED <<script, head, checkpoint, db, fate>>
  BY DEF ReadCheckpoint
<1>2. DOMAIN t = Fields /\ checkpoint[c] \in Nat /\ t.queue = {} /\ head \in Nat
  BY <1>1, TypeParts DEF ThreadTyped, IInv, Shape
<1>3. Done.pc = "done"
  BY DEF Done, At
<1>4. \/ n.pc = "done"
      \/ n.pc = "load" /\ n.next = checkpoint[c] + 1 /\ n.queue = {}
  BY <1>2, <1>3 DEF Fields
<1> HIDE DEF n
<1>5. ASSUME thread'[p][c] = n PROVE InOrder(p, c)' /\ Current1(p, c)'
  <2>1. Current1(p, c)'
    BY <1>4, <1>5 DEF Current1
  <2>2. InOrder(p, c)'
    BY <1>1, <1>2, <1>4, <1>5 DEF InOrder, Working
  <2>3. QED BY <2>1, <2>2
<1>6. Applied' = Applied
  BY <1>1, SameFate
<1>7. Alone' /\ \A q \in Pollers, d \in Watched' : InOrder(q, d)' /\ Current1(q, d)'
  BY <1>1, <1>5, <1>6, OthersSteady
<1>8. ASSUME NEW i \in Applied', Behind(i)' PROVE Behind(i)
  <2>1. i \in Blocks /\ i \in Nat
    BY <1>6, <1>8, AppliedFacts, EventFacts DEF IInv
  <2>2. script[i].contract = c /\ i <= checkpoint[c] => Behind(i)
    BY DEF Behind
  <2>3. script[i].contract = c /\ Working(n) /\ i < n.next /\ i \notin n.queue => Behind(i)
    BY <1>2, <1>4, <2>1, <2>2 DEF Working
  <2>4. QED BY <1>1, <1>8, <2>1, <2>2, <2>3, BehindThen
<1>9. QED BY <1>1, <1>2, <1>6, <1>7, <1>8, QuietSteady

LEMMA QuerySteady ==
    ASSUME IInv, TypeInv, Steady, NEW p \in Pollers, NEW c \in Watched, Query(p, c)
    PROVE  Steady'
<1> DEFINE t == thread[p][c]
           first == t.next
           last == ChunkEnd(p, c)
<1>1. PICK failing \in SUBSET {script[i].name : i \in first .. last} :
        /\ thread' = [thread EXCEPT ![p][c].queue = Collected(c, Names[c] \ failing, first, last),
                                    ![p][c].next = last + 1]
        /\ fate' = [i \in Blocks |-> IF i \in first .. last /\ script[i].contract = c /\ script[i].name \in failing
                                     THEN "failed" ELSE fate[i]]
  BY DEF Query
<1>2. UNCHANGED <<script, head, checkpoint, db>> /\ t.pc = "load" /\ t.queue = {} /\ first <= t.to
  BY DEF Query
<1>3. /\ DOMAIN t = Fields /\ t.to \in Nat /\ first \in Nat /\ head \in Nat /\ checkpoint[c] \in Nat
      /\ thread = [q \in Pollers |-> [d \in Watched |-> thread[q][d]]]
  BY TypeParts DEF IInv, Shape
<1>4. last \in Nat /\ first <= last
  BY <1>2, <1>3, IndexerAssumption DEF ChunkEnd
<1> DEFINE n == [[t EXCEPT !.queue = Collected(c, Names[c] \ failing, first, last)] EXCEPT !.next = last + 1]
<1>5. thread' = [thread EXCEPT ![p][c] = n]
  BY <1>1, <1>3
<1>6. n.pc = "load" /\ n.next = last + 1 /\ n.queue = Collected(c, Names[c] \ failing, first, last)
  BY <1>2, <1>3 DEF Fields
<1> HIDE DEF n, last
<1>7. checkpoint[c] < first
  BY <1>2 DEF Steady, InOrder, Working
<1>8. ASSUME NEW i \in n.queue PROVE i \in Nat /\ first <= i
  BY <1>3, <1>4, <1>6 DEF Collected
\* An applied event of the contract before the next chunk is before this one.
<1>9. ASSUME NEW i \in Applied' PROVE i \in Applied /\ i \in Blocks /\ i \in Nat
  <2>1. i \in Blocks /\ fate'[i] = "applied"
    BY <1>2 DEF Applied, Blocks
  <2>2. fate[i] = "applied"
    BY <1>1, <2>1
  <2>3. QED BY <2>1, <2>2, EventFacts DEF Applied, IInv
<1>10. ASSUME NEW i \in Applied', script[i].contract = c, i < n.next, i \notin n.queue PROVE i < first
  <2>1. i \in Blocks /\ i \in Nat /\ script[i].name \in Names[c] /\ fate'[i] = "applied"
    BY <1>2, <1>9, <1>10, EventFacts DEF IInv, Applied
  <2>2. SUFFICES ASSUME first <= i PROVE FALSE
    BY <1>3, <2>1
  <2>3. i \in first .. last
    BY <1>3, <1>4, <1>6, <1>10, <2>1, <2>2
  <2>4. CASE script[i].name \in failing
    BY <1>1, <1>10, <2>1, <2>3, <2>4
  <2>5. CASE script[i].name \notin failing
    BY <1>6, <1>10, <2>1, <2>3, <2>5 DEF Collected
  <2>6. QED BY <2>4, <2>5
<1>11. ASSUME thread'[p][c] = n PROVE InOrder(p, c)' /\ Current1(p, c)'
  <2>1. Current1(p, c)'
    BY <1>6, <1>11 DEF Current1
  <2>2. \A i \in n.queue : checkpoint'[c] < i
    BY <1>2, <1>3, <1>7, <1>8
  <2>3. checkpoint'[c] < n.next
    BY <1>2, <1>3, <1>4, <1>6, <1>7
  <2>4. \A i \in Applied' : (script'[i].contract = c /\ i < n.next /\ i \notin n.queue) => \A j \in n.queue : i < j
    BY <1>2, <1>3, <1>8, <1>9, <1>10
  <2>5. InOrder(p, c)'
    BY <1>11, <2>2, <2>3, <2>4 DEF InOrder
  <2>6. QED BY <2>1, <2>5
<1>12. Alone' /\ \A q \in Pollers, d \in Watched' : InOrder(q, d)' /\ Current1(q, d)'
  BY <1>2, <1>5, <1>9, <1>11, OthersSteady
<1>13. ASSUME NEW i \in Applied', Behind(i)' PROVE Behind(i)
  <2>1. script[i].contract = c /\ i <= checkpoint[c] => Behind(i)
    BY DEF Behind
  <2>2. script[i].contract = c /\ i < first => Behind(i)
    BY <1>2, BehindOf DEF Working
  <2>3. QED BY <1>2, <1>5, <1>9, <1>10, <1>13, <2>1, <2>2, BehindThen
<1>14. Applied' \subseteq Applied
  BY <1>9
<1>15. QED BY <1>2, <1>3, <1>12, <1>13, <1>14, QuietSteady

LEMMA EndSteady ==
    ASSUME IInv, TypeInv, Steady, NEW p \in Pollers, NEW c \in Watched, Finish(p, c) \/ FailCheckpoint(p, c)
    PROVE  Steady'
<1> DEFINE t == thread[p][c]
<1>1. /\ thread' = [thread EXCEPT ![p][c] = Done] /\ t.pc # "done"
      /\ UNCHANGED <<script, head, db, fate>> /\ Done.pc = "done"
  BY DEF Finish, FailCheckpoint, Done, At
<1>2. \/ checkpoint' = checkpoint
      \/ checkpoint' = [checkpoint EXCEPT ![c] = t.to] /\ t.pc = "load" /\ t.queue = {} /\ t.next > t.to
  BY DEF Finish, FailCheckpoint
<1>3. t.to \in Nat /\ t.next \in Nat /\ head \in Nat /\ checkpoint \in [Watched -> Nat]
  BY TypeParts DEF IInv, Shape
<1>4. Applied' = Applied /\ Applied \subseteq Blocks
  BY <1>1, SameFate, AppliedFacts
<1>5. ASSUME thread'[p][c] = Done PROVE InOrder(p, c)' /\ Current1(p, c)'
  BY <1>1, <1>5 DEF InOrder, Current1, Working
<1>6. \A d \in Watched \ {c} : checkpoint'[d] = checkpoint[d]
  BY <1>2, <1>3
<1>7. Alone' /\ \A q \in Pollers, d \in Watched' : InOrder(q, d)' /\ Current1(q, d)'
  BY <1>1, <1>4, <1>5, <1>6, OthersSteady
<1>8. ASSUME NEW i \in Applied', Behind(i)' PROVE Behind(i)
  <2>1. i \in Blocks /\ i \in Nat
    BY <1>4, EventFacts DEF IInv
  <2>2. ASSUME script[i].contract = c, i <= checkpoint'[c] PROVE Behind(i)
    <3>1. CASE checkpoint' = checkpoint
      BY <2>2, <3>1 DEF Behind
    <3>2. CASE checkpoint' = [checkpoint EXCEPT ![c] = t.to] /\ t.pc = "load" /\ t.queue = {} /\ t.next > t.to
      <4>1. i < t.next /\ i \notin t.queue /\ Working(t)
        BY <1>3, <2>1, <2>2, <3>2 DEF Working
      <4>2. QED BY <2>2, <4>1, BehindOf
    <3>3. QED BY <1>2, <3>1, <3>2
  <2>3. ~Working(Done)
    BY <1>1 DEF Working
  <2>4. QED BY <1>1, <1>6, <1>8, <2>1, <2>2, <2>3, BehindThen
<1>9. QED BY <1>1, <1>3, <1>4, <1>7, <1>8, QuietSteady

LEMMA MineSteady == ASSUME IInv, TypeInv, Steady, Mine PROVE Steady'
<1>1. UNCHANGED <<script, checkpoint, db, thread, fate>> /\ head' = head + 1
  BY DEF Mine
<1>2. head \in Nat /\ head' \in Nat /\ head <= head'
  BY <1>1, TypeParts
<1>3. Applied' = Applied /\ Watched' = Watched
  BY <1>1, SameFate DEF Watched, Blocks
<1>4. Alone' /\ \A q \in Pollers, d \in Watched : InOrder(q, d)' /\ Current1(q, d)'
  <2>1. \A q \in Pollers, d \in Watched : Current(q, d)' = Current(q, d)
    BY <1>1 DEF Current
  <2>2. \A q \in Pollers, d \in Watched : EventOf(q, d)' = EventOf(q, d)
    BY <1>1, <2>1 DEF EventOf
  <2>3. \A q \in Pollers, d \in Watched : InOrder(q, d)' /\ Current1(q, d)'
    BY <1>1, <1>3, <2>2 DEF Steady, InOrder, Current1, Row
  <2>4. QED BY <1>1, <1>3, <2>3 DEF Steady, Alone
<1>5. \A i \in Applied' : Behind(i)' => Behind(i)
  BY <1>1 DEF Behind
<1>6. QED BY <1>1, <1>2, <1>3, <1>4, <1>5, QuietSteady

\* Polls that start when none is under way, or die, or go back to the start.
LEMMA PollsSteady ==
    ASSUME IInv, TypeInv, Steady,
           Restart \/ Reindex \/ \E p \in Pollers : StartPoll(p) /\ Idle
    PROVE  Steady'
<1>1. UNCHANGED <<script, head, db, fate>>
  BY DEF Restart, Reindex, StartPoll
<1>2. head \in Nat /\ Watched' = Watched /\ Applied' = Applied /\ Applied \subseteq Blocks
  BY <1>1, TypeParts, SameFate, AppliedFacts DEF Watched, Blocks
<1>3. CASE Reindex
  <2>1. UNCHANGED thread /\ checkpoint' = [c \in Watched |-> 0]
    BY <1>3 DEF Reindex
  <2>2. \A q \in Pollers, d \in Watched : EventOf(q, d)' = EventOf(q, d)
    BY <1>1, <2>1 DEF EventOf, Current
  <2>3. \A q \in Pollers, d \in Watched : Current1(q, d)'
    BY <1>1, <2>1, <2>2 DEF Steady, Current1, Row
  <2>4. ASSUME NEW q \in Pollers, NEW d \in Watched PROVE InOrder(q, d)'
    <3>1. /\ thread[q][d].next \in Nat /\ \A i \in thread[q][d].queue : i \in Nat \ {0}
          /\ Working(thread[q][d]) => thread[q][d].next > 0
      BY TypeParts, EventFacts DEF IInv, ThreadTyped
    <3>2. InOrder(q, d)
      BY DEF Steady
    <3>3. QED BY <1>1, <1>2, <2>1, <3>1, <3>2 DEF InOrder
  <2>5. Alone'
    BY <1>2, <2>1 DEF Steady, Alone
  <2>6. \A i \in Applied' : Behind(i)' => Behind(i)
    <3>1. SUFFICES ASSUME NEW i \in Applied, Behind(i)' PROVE Behind(i)
      BY <1>2
    <3>2. i \in Nat \ {0} /\ script[i].contract \in Watched
      BY <1>2, EventFacts DEF IInv
    <3>3. ~(i <= checkpoint'[script[i].contract])
      BY <2>1, <3>2
    <3>4. QED BY <1>1, <2>1, <3>1, <3>3 DEF Behind
  <2>7. QED BY <1>1, <1>2, <2>3, <2>4, <2>5, <2>6, QuietSteady
<1>4. ASSUME UNCHANGED checkpoint, \A q \in Pollers, d \in Watched : thread'[q][d].pc \in {"done", "begin"},
             Alone'
      PROVE  Steady'
  <2>1. \A q \in Pollers, d \in Watched : InOrder(q, d)' /\ Current1(q, d)'
    BY <1>4 DEF InOrder, Current1, Working
  <2>2. \A i \in Applied' : Behind(i)' => Behind(i)
    <3>1. SUFFICES ASSUME NEW i \in Applied, Behind(i)' PROVE Behind(i)
      BY <1>2
    <3>2. script[i].contract \in Watched
      BY <1>2, EventFacts DEF IInv
    <3>3. QED BY <1>1, <1>4, <3>1, <3>2 DEF Behind, Working
  <2>3. QED BY <1>1, <1>2, <1>4, <2>1, <2>2, QuietSteady
<1>5. CASE Restart
  <2>1. \A q \in Pollers, d \in Watched : thread'[q][d] = Done
    BY <1>5 DEF Restart
  <2>2. Done.pc = "done"
    BY DEF Done, At
  <2>3. Alone'
    BY <1>2, <2>1, <2>2 DEF Alone
  <2>4. UNCHANGED checkpoint
    BY <1>5 DEF Restart
  <2>5. QED BY <1>4, <2>1, <2>2, <2>3, <2>4
<1>6. ASSUME NEW p \in Pollers, StartPoll(p), Idle PROVE Steady'
  <2> DEFINE b == At("begin", head, 0, {})
  <2>1. b.pc = "begin"
    BY DEF At
  <2> HIDE DEF b
  <2>2. thread' = [thread EXCEPT ![p] = [c \in Watched |-> b]] /\ UNCHANGED checkpoint
    BY <1>6 DEF StartPoll, b
  <2>3. thread = [q \in Pollers |-> [d \in Watched |-> thread[q][d]]]
    BY DEF IInv, Shape
  <2>4. \A q \in Pollers, d \in Watched : thread'[q][d] = IF q = p THEN b ELSE thread[q][d]
    BY <2>2, <2>3
  <2>5. \A q \in Pollers, d \in Watched : thread[q][d].pc = "done"
    BY <1>6 DEF Idle, Active
  <2>6. Alone'
    BY <1>2, <2>4, <2>5 DEF Alone
  <2>7. QED BY <1>4, <2>1, <2>2, <2>4, <2>5, <2>6
<1>7. QED BY <1>3, <1>5, <1>6

-----------------------------------------------------------------------------
(* Steps of a handler *)

\* Rows of the event a poll is at, and of its pool, belong to its contract.
LEMMA OwnRows ==
    ASSUME IInv, TypeInv, NEW p \in Pollers, NEW c \in Watched, thread[p][c].queue # {}
    PROVE  /\ Key(EventOf(p, c)) \in Keys /\ Home(Key(EventOf(p, c))[1]) = c
           /\ EventOf(p, c).name = "ContributionReceived" =>
                 /\ NeedsPool(EventOf(p, c)) = TRUE /\ Key(EventOf(p, c))[1] = "contribution"
                 /\ Key(EventOf(p, c)) # PoolKey /\ Home(PoolKey[1]) = c
<1> DEFINE i == Current(p, c)
           e == EventOf(p, c)
<1>1. /\ i \in Blocks /\ e = script[i] /\ e.contract = c /\ e.contract \in Contracts
      /\ e.name \in Names[e.contract] /\ Key(e) \in Keys
  BY QueueFacts
<1>2. e.contract = Home(Key(e)[1])
  BY <1>1, KeyOfEvent
<1>3. e.name = "ContributionReceived" =>
         /\ NeedsPool(e) /\ Key(e)[1] = "contribution" /\ Key(e) # PoolKey /\ e.contract = "EqubPool"
  BY <1>1, NamedKeys DEF IInv
<1>4. Home(PoolKey[1]) = "EqubPool"
  BY PoolKeyFacts DEF Home
<1>5. NeedsPool(e) \in BOOLEAN
  BY DEF NeedsPool
<1>6. QED BY <1>1, <1>2, <1>3, <1>4, <1>5

\* A steady key has one row, or none.
LEMMA OneRow ==
    ASSUME IInv, TypeInv, Steady, NEW k \in Keys
    PROVE  /\ db[k] \in Seq(Values(k)) /\ Len(db[k]) <= 1
           /\ 0 \notin DOMAIN db[k]
           /\ db[k] # <<>> => Len(db[k]) = 1 /\ Row(k) \in Values(k)
           /\ \A n \in DOMAIN db[k] : n = 1 /\ db[k] # <<>> /\ db[k][n] = Row(k)
<1> DEFINE V == Values(k)
           s == db[k]
<1>1. s \in Seq(V) /\ Len(s) <= 1
  BY DEF TypeInv, RowsTyped, Steady, RowsRight
<1> HIDE DEF V, s
<1>2. Len(s) \in Nat /\ DOMAIN s = 1 .. Len(s)
  BY <1>1
<1>3. 0 \notin DOMAIN s
  BY <1>2
<1>4. s # <<>> => Len(s) = 1 /\ s[1] \in V
  BY <1>1, <1>2
<1>5. \A n \in DOMAIN s : n = 1 /\ s # <<>> /\ s[n] = s[1]
  BY <1>1, <1>2
<1>6. QED BY <1>1, <1>3, <1>4, <1>5 DEF V, s, Row

LEMMA FailSaveSteady ==
    ASSUME IInv, TypeInv, Steady, NEW p \in Pollers, NEW c \in Watched, FailSave(p, c)
    PROVE  Steady'
<1>1. /\ thread[p][c].pc \in {"save", "reopen"} /\ Handled(p, c, "failed")
      /\ UNCHANGED <<script, head, checkpoint, db>>
  BY DEF FailSave
<1>2. thread[p][c].queue # {} /\ Working(thread[p][c])
  BY <1>1, TypeParts DEF ThreadTyped, Working
<1>3. /\ Alone' /\ \A q \in Pollers, d \in Watched' : InOrder(q, d)' /\ Current1(q, d)'
      /\ Applied' \subseteq Applied /\ Passed' \subseteq Passed
  BY <1>1, <1>2, HandledSteady
<1>4. head \in Nat
  BY TypeParts
<1>5. RowsExist' /\ RowsRight'
  BY <1>1, <1>3, <1>4, QuietRows
<1>6. QED BY <1>3, <1>5 DEF Steady

LEMMA LoadSteady ==
    ASSUME IInv, TypeInv, Steady, NEW p \in Pollers, NEW c \in Watched, Load(p, c)
    PROVE  Steady'
<1> DEFINE t == thread[p][c]
           cur == Current(p, c)
           e == EventOf(p, c)
           k == Key(e)
<1>1. /\ UNCHANGED <<script, head, checkpoint, db>> /\ t.pc = "load" /\ t.queue # {}
      /\ e = script[cur] /\ Working(t) /\ head \in Nat
  BY TypeParts DEF Load, EventOf, Working
<1>2. PICK at \in Rows(k), poolAt \in (IF NeedsPool(e) THEN Rows(PoolKey) ELSE {0}) :
        \/ /\ Return(e, at, poolAt) # "goes on"
           /\ Handled(p, c, Return(e, at, poolAt))
        \/ /\ Return(e, at, poolAt) = "goes on"
           /\ thread' = [thread EXCEPT ![p][c] = [@ EXCEPT
                  !.pc = IF Kept(e, at) THEN "reopen" ELSE "save",
                  !.at = at, !.image = Image(k, at),
                  !.poolAt = poolAt, !.poolImage = Image(PoolKey, poolAt)]]
           /\ UNCHANGED fate
  BY DEF Load, EventOf
<1>3. /\ cur \in Blocks /\ e.contract \in Contracts /\ e.name \in Names[e.contract] /\ k \in Keys
      /\ e.name = "ContributionReceived" => NeedsPool(e) /\ k # PoolKey
  <2>1. cur \in Blocks /\ e.contract \in Contracts /\ e.name \in Names[e.contract] /\ k \in Keys
    BY <1>1, QueueFacts
  <2>2. e.name = "ContributionReceived" => NeedsPool(e) /\ k # PoolKey
    BY <1>1, OwnRows
  <2>3. QED BY <2>1, <2>2
<1>4. /\ at = 0 => db[k] = <<>>
      /\ at # 0 => at = 1 /\ db[k] # <<>> /\ db[k][at] = Row(k) /\ Image(k, at) = Row(k)
  <2>1. at = 0 => db[k] = <<>>
    BY <1>3, OneRow DEF Rows
  <2>2. at # 0 => at = 1 /\ db[k] # <<>> /\ db[k][at] = Row(k)
    BY <1>3, OneRow DEF Rows
  <2>3. QED BY <2>1, <2>2 DEF Image
<1>5. NeedsPool(e) /\ poolAt # 0 =>
         poolAt = 1 /\ db[PoolKey] # <<>> /\ Image(PoolKey, poolAt) = Row(PoolKey) /\ Row(PoolKey) \in PoolRows
  BY PoolKeyFacts, OneRow DEF Rows, Image
<1> HIDE DEF e, k
<1>6. CASE Return(e, at, poolAt) \in {"dropped", "failed"} /\ Handled(p, c, Return(e, at, poolAt))
  <2>1. /\ Alone' /\ \A q \in Pollers, d \in Watched' : InOrder(q, d)' /\ Current1(q, d)'
        /\ Applied' \subseteq Applied /\ Passed' \subseteq Passed
    BY <1>1, <1>6, HandledSteady
  <2>2. RowsExist' /\ RowsRight'
    BY <1>1, <2>1, QuietRows
  <2>3. QED BY <2>1, <2>2 DEF Steady
<1>7. CASE Return(e, at, poolAt) = "applied" /\ Handled(p, c, "applied")
  <2>1. ~Missing(e, at, poolAt) /\ Kept(e, at) /\ ~Reopens(e, Image(PoolKey, poolAt))
    BY <1>7 DEF Return
  <2>2. at # 0 /\ Keeps(e, Row(k)) /\ db[k] # <<>>
    BY <1>4, <2>1 DEF Kept, k
  <2>3. NeedsPool(e) => db[PoolKey] # <<>> /\ Image(PoolKey, poolAt) = Row(PoolKey) /\ Row(PoolKey) \in PoolRows
    BY <1>5, <2>1 DEF Missing
  <2>4. e.name = "ContributionReceived" => Row(k).status # "pending-onchain" /\ Row(PoolKey).status = "active"
    BY <1>3, <2>1, <2>2, <2>3 DEF Keeps, Reopens, PoolRows
  <2>5. e.name \notin {"RoundClosed", "DefaultTriggered", "StreamFrozen",
                       "ScoreUpdated", "ProposalExecuted", "ProposalCancelled"}
    BY <2>2 DEF Keeps
  <2>6. Reached(cur, Applied, Passed) /\ Shape
    BY <1>1, ReachedNow DEF IInv
  <2>7. /\ Alone' /\ \A q \in Pollers, d \in Watched' : InOrder(q, d)' /\ Current1(q, d)'
        /\ Applied' \subseteq Applied \cup {cur} /\ Passed' \subseteq Passed \cup {cur}
    BY <1>1, <1>7, HandledSteady
  <2> DEFINE A == Applied \cup {cur}
             P == Passed \cup {cur}
  <2>8. ASSUME NEW a \in Keys, db[a] # <<>> PROVE Right(a, Row(a), A, P, head)
    <3>1. Right(a, Row(a), Applied, Passed, head)
      BY <2>8 DEF Steady, RowsRight
    <3>2. k = Key(script[cur])
      BY <1>1 DEF k
    <3> DEFINE r == Row(a)
    <3>3. /\ a = k /\ e.name = "ContributionReceived" => r.status # "pending-onchain"
          /\ a = PoolKey /\ e.name = "ContributionReceived" => r.status = "active"
      BY <2>4
    <3> HIDE DEF r, cur
    <3>4. Right(a, r, Applied \cup {cur}, Passed \cup {cur}, head)
      BY <1>1, <2>5, <2>6, <3>1, <3>2, <3>3, RightOther DEF r
    <3>5. QED BY <3>4 DEF r
  <2>9. Len(db'[k]) = 1 /\ db'[k] # <<>>
    BY <1>1, <1>3, <2>2, OneRow
  <2>10. ASSUME NEW i \in Applied' \ Applied
         PROVE  /\ Key(script[i]) = k \/ db[Key(script[i])] # <<>>
                /\ NeedsPool(script[i]) => db[PoolKey] # <<>>
    <3>1. i = cur
      BY <2>7
    <3>2. QED BY <1>1, <2>3, <3>1 DEF k
  <2>11. Right(k, db'[k][1], A, P, head)
    BY <1>1, <1>3, <2>2, <2>8 DEF Row
  <2>12. \A a \in Keys \ {k} : db'[a] = db[a] /\ (db[a] # <<>> => Right(a, Row(a), A, P, head))
    BY <1>1, <2>8
  <2> HIDE DEF A, P
  <2>13. Applied' \subseteq A /\ Passed' \subseteq P
    BY <2>7 DEF A, P
  <2>14. RowsExist' /\ RowsRight'
    BY <1>1, <1>3, <2>9, <2>10, <2>11, <2>12, <2>13, RowWrittenRight
  <2>15. QED BY <2>7, <2>14 DEF Steady
<1>8. CASE /\ Return(e, at, poolAt) = "goes on"
           /\ thread' = [thread EXCEPT ![p][c] = [@ EXCEPT
                  !.pc = IF Kept(e, at) THEN "reopen" ELSE "save",
                  !.at = at, !.image = Image(k, at),
                  !.poolAt = poolAt, !.poolImage = Image(PoolKey, poolAt)]]
           /\ UNCHANGED fate
  <2> DEFINE n == [t EXCEPT !.pc = IF Kept(e, at) THEN "reopen" ELSE "save",
                            !.at = at, !.image = Image(k, at),
                            !.poolAt = poolAt, !.poolImage = Image(PoolKey, poolAt)]
  <2>1. thread' = [thread EXCEPT ![p][c] = n]
    BY <1>8
  <2>2. /\ n.pc = (IF Kept(e, at) THEN "reopen" ELSE "save")
        /\ n.next = t.next /\ n.queue = t.queue
        /\ n.at = at /\ n.image = Image(k, at)
        /\ n.poolAt = poolAt /\ n.poolImage = Image(PoolKey, poolAt)
    BY TypeParts DEF Fields
  <2> HIDE DEF n
  <2>3. ~Missing(e, at, poolAt) /\ ~(Kept(e, at) /\ ~Reopens(e, Image(PoolKey, poolAt)))
    BY <1>8 DEF Return
  <2>4. e.name = "ContributionReceived" => n.poolAt = 1 /\ n.poolImage = Row(PoolKey)
    BY <1>3, <1>5, <2>2, <2>3 DEF Missing
  <2>5. Kept(e, at) => /\ e.name = "ContributionReceived" /\ db[k] # <<>>
                       /\ Row(k).status # "pending-onchain"
    BY <1>4, <2>3 DEF Kept, Keeps, Reopens, k
  <2>6. ~Kept(e, at) /\ at # 0 /\ e.name = "ContributionReceived" => Row(k).status = "pending-onchain"
    BY <1>4 DEF Kept, Keeps, k
  <2>7. Applied' = Applied /\ Applied \subseteq Blocks /\ \A i \in Applied : i \in Nat
    BY <1>1, <1>8, SameFate, AppliedFacts, EventFacts DEF IInv
  <2>8. ASSUME thread'[p][c] = n PROVE InOrder(p, c)' /\ Current1(p, c)'
    <3>1. InOrder(p, c)
      BY DEF Steady
    <3>2. InOrder(p, c)'
      BY <1>1, <2>2, <2>7, <2>8, <3>1 DEF InOrder
    <3>3. Current(p, c)' = cur
      BY <2>2, <2>8 DEF Current
    <3>4. EventOf(p, c)' = e
      BY <1>1, <3>3 DEF EventOf
    <3>5. db' = db
      BY <1>1
    <3>6. /\ n.pc = "save" => ~Kept(e, at)
          /\ n.pc = "reopen" => Kept(e, at)
      BY <2>2
    <3>7. Key(e) = k
      BY DEF k
    <3>8. /\ n.pc = "save" /\ n.at = 0 => db[k] = <<>>
          /\ n.pc = "save" /\ n.at # 0 => n.at = 1 /\ db[k] # <<>> /\ n.image = Row(k)
          /\ n.pc = "save" /\ n.at # 0 /\ e.name = "ContributionReceived" => n.image.status = "pending-onchain"
          /\ n.pc = "reopen" => db[k] # <<>> /\ Row(k).status # "pending-onchain"
      BY <1>4, <2>2, <2>5, <2>6, <3>6
    <3>9. Current1(p, c)'
      BY <2>4, <2>8, <3>4, <3>5, <3>7, <3>8 DEF Current1, Row
    <3>10. QED BY <3>2, <3>9
  <2>9. Alone' /\ \A q \in Pollers, d \in Watched' : InOrder(q, d)' /\ Current1(q, d)'
    BY <1>1, <2>1, <2>7, <2>8, OthersSteady
  <2>10. ASSUME NEW i \in Applied', Behind(i)' PROVE Behind(i)
    <3>1. script[i].contract = c /\ i <= checkpoint[c] => Behind(i)
      BY DEF Behind
    <3>2. script[i].contract = c /\ i < n.next /\ i \notin n.queue => Behind(i)
      BY <1>1, <2>2, BehindOf
    <3>3. i \in Blocks
      BY <2>7, <2>10
    <3>4. QED BY <1>1, <2>1, <2>10, <3>1, <3>2, <3>3, BehindThen
  <2>11. QED BY <1>1, <2>7, <2>9, <2>10, QuietSteady
<1>9. Return(e, at, poolAt) \in {"applied", "dropped", "failed", "goes on"}
  BY DEF Return
<1>10. QED BY <1>2, <1>6, <1>7, <1>8, <1>9

\* A row written over the only one.
LEMMA OneReplaced ==
    ASSUME NEW V, NEW s \in Seq(V), Len(s) = 1, NEW row \in V
    PROVE  /\ [s EXCEPT ![1] = row] # <<>> /\ Len([s EXCEPT ![1] = row]) = 1
           /\ [s EXCEPT ![1] = row][1] = row
<1> DEFINE u == [s EXCEPT ![1] = row]
<1>1. u \in Seq(V) /\ Len(u) = 1 /\ u[1] = row
  OBVIOUS
<1> HIDE DEF u
<1>2. u # <<>>
  BY <1>1
<1>3. QED BY <1>1, <1>2 DEF u

\* What a save that is not refused does to the row of its event.
LEMMA RowSaved ==
    ASSUME IInv, TypeInv, Steady, NEW p \in Pollers, NEW c \in Watched, Save(p, c),
           LET t == thread[p][c]  k == Key(EventOf(p, c))
           IN  ~(t.at = 0 /\ k[1] \in UniqueTables /\ db[k] # <<>>)
    PROVE  LET e == EventOf(p, c)
               k == Key(e)
           IN  /\ \A a \in Keys \ {k} : db'[a] = db[a]
               /\ db'[k] # <<>> /\ Len(db'[k]) = 1
               /\ Right(k, db'[k][1], Applied \cup {Current(p, c)}, Passed \cup {Current(p, c)}, head)
               /\ e.name = "ContributionReceived" => db'[k][1].status = "confirmed"
               /\ \/ db[k] = <<>> /\ Inserts(e) /\ db'[k][1] = Fresh(e)
                  \/ db[k] # <<>> /\ Updates(e) /\ db'[k][1] = Updated(e, Row(k))
<1> DEFINE t == thread[p][c]
           cur == Current(p, c)
           e == EventOf(p, c)
           k == Key(e)
<1>1. t.pc = "save" /\ ThreadTyped(p, c) /\ Current1(p, c)
  BY TypeParts DEF Save, Steady
<1>2. t.queue # {} /\ Working(t)
  BY <1>1 DEF ThreadTyped, Working
<1>3. /\ cur \in Blocks /\ e = script[cur] /\ k \in Keys
      /\ e.contract \in Contracts /\ e.name \in Names[e.contract] /\ e.arg \in Nat
  BY <1>2, QueueFacts
<1>4. /\ t.at = 0 => db' = [db EXCEPT ![k] = Append(@, Fresh(e))]
      /\ t.at # 0 => db' = [db EXCEPT ![k][t.at] = Updated(e, t.image)]
  BY DEF Save, EventOf
<1>5. \/ t.at = 0 /\ Inserts(e)
      \/ t.at \in DOMAIN db[k] /\ t.image \in Values(k) /\ Updates(e)
  BY <1>1 DEF ThreadTyped
<1>6. /\ t.at = 0 => db[k] = <<>> \/ k[1] = "contribution"
      /\ t.at # 0 => t.at = 1 /\ db[k] # <<>> /\ t.image = Row(k)
      /\ t.at # 0 /\ e.name = "ContributionReceived" => t.image.status = "pending-onchain"
  BY <1>1 DEF Current1
<1>7. Reached(cur, Applied, Passed) /\ Shape
  BY <1>2, ReachedNow DEF IInv
<1>8. db = [a \in Keys |-> db[a]]
  BY DEF TypeInv, RowsTyped
<1>9. CASE t.at = 0
  <2>1. db[k] = <<>>
    BY <1>6, <1>9 DEF UniqueTables
  <2>2. Inserts(e)
    BY <1>3, <1>5, <1>9, OneRow
  <2>3. ASSUME NEW a \in Applied
        PROVE  Key(script[a]) # k /\ (NeedsPool(script[a]) => k # PoolKey)
    BY <2>1 DEF Steady, RowsExist
  <2>4. Right(k, Fresh(e), Applied \cup {cur}, Passed \cup {cur}, head)
    <3>1. Inserts(script[cur]) /\ k = Key(script[cur]) /\ e = script[cur]
      BY <1>3, <2>2
    <3> HIDE DEF k, e, cur
    <3>2. \A a \in Applied : /\ Key(script[a]) # Key(script[cur])
                             /\ NeedsPool(script[a]) => Key(script[cur]) # PoolKey
      BY <2>3, <3>1
    <3>3. Right(Key(script[cur]), Fresh(script[cur]), Applied \cup {cur}, Passed \cup {cur}, head)
      BY <1>7, <3>1, <3>2, RightFresh
    <3>4. QED BY <3>1, <3>3
  <2>5. e.name = "ContributionReceived" => Fresh(e).status = "confirmed"
    BY DEF Fresh
  <2> DEFINE row == Fresh(e)
  <2> HIDE DEF row, e, k, cur
  <2>6. db' = [db EXCEPT ![k] = Append(@, row)]
    BY <1>4, <1>9 DEF row
  <2>7. db'[k] = <<row>> /\ \A a \in Keys \ {k} : db'[a] = db[a]
    BY <1>3, <1>8, <2>1, <2>6
  <2>8. db'[k] # <<>> /\ Len(db'[k]) = 1 /\ db'[k][1] = row
    BY <2>7
  <2>9. QED BY <2>1, <2>2, <2>4, <2>5, <2>7, <2>8 DEF row, e, k, cur
<1>10. CASE t.at # 0
  <2>1. t.at = 1 /\ db[k] # <<>> /\ t.image = Row(k) /\ 1 \in DOMAIN db[k]
    BY <1>5, <1>6, <1>10
  <2>2. Updates(e) /\ Row(k) \in Values(k) /\ Len(db[k]) = 1
    <3>1. 0 \notin DOMAIN db[k] /\ Len(db[k]) = 1 /\ Row(k) \in Values(k)
      BY <1>3, <2>1, OneRow
    <3>2. QED BY <1>5, <1>10, <3>1
  <2>3. Right(k, Row(k), Applied, Passed, head)
    BY <1>3, <2>1 DEF Steady, RowsRight
  <2>4. e.name = "ContributionReceived" => Row(k).status = "pending-onchain"
    BY <1>6, <1>10, <2>1
  <2>5. Right(k, Updated(e, Row(k)), Applied \cup {cur}, Passed \cup {cur}, head)
    <3> DEFINE r == Row(k)
    <3>1. /\ k = Key(script[cur]) /\ e = script[cur] /\ r \in Values(k) /\ Updates(script[cur])
          /\ Right(k, r, Applied, Passed, head)
          /\ e.name = "ContributionReceived" => r.status = "pending-onchain"
      BY <1>3, <2>2, <2>3, <2>4
    <3> HIDE DEF k, e, cur, r
    <3>2. /\ r \in Values(Key(script[cur])) /\ Right(Key(script[cur]), r, Applied, Passed, head)
          /\ script[cur].name = "ContributionReceived" => r.status = "pending-onchain"
      BY <3>1
    <3>3. Right(Key(script[cur]), Updated(script[cur], r), Applied \cup {cur}, Passed \cup {cur}, head)
      BY <1>7, <3>1, <3>2, RightUpdated
    <3>4. QED BY <3>1, <3>3 DEF r
  <2>6. e.name = "ContributionReceived" => Updated(e, Row(k)).status = "confirmed"
    BY DEF Updated
  <2> DEFINE row == Updated(e, Row(k))
             s == db[k]
  <2>7. db' = [db EXCEPT ![k][1] = row] /\ s \in Seq(Values(k)) /\ Len(s) = 1
    BY <1>3, <1>4, <1>10, <2>1, <2>2, OneRow
  <2> HIDE DEF row
  <2>8. db'[k] = [s EXCEPT ![1] = row] /\ \A a \in Keys \ {k} : db'[a] = db[a]
    BY <1>3, <1>8, <2>7
  <2> HIDE DEF s, k, e, cur
  <2>9. [s EXCEPT ![1] = row] # <<>> /\ Len([s EXCEPT ![1] = row]) = 1 /\ [s EXCEPT ![1] = row][1] = row
    <3> DEFINE V == Values(k)
    <3>1. s \in Seq(V) /\ row \in V /\ Len(s) = 1
      BY <1>3, <2>2, <2>7, UpdatedTyped DEF row, k, e
    <3> HIDE DEF V
    <3>2. QED BY <3>1, OneReplaced
  <2>10. QED BY <2>1, <2>2, <2>5, <2>6, <2>8, <2>9 DEF row, e, k, cur
<1>11. QED BY <1>9, <1>10

LEMMA SaveSteady ==
    ASSUME IInv, TypeInv, Steady, NEW p \in Pollers, NEW c \in Watched, Save(p, c)
    PROVE  Steady'
<1> DEFINE t == thread[p][c]
           cur == Current(p, c)
           e == EventOf(p, c)
           k == Key(e)
           refused == t.at = 0 /\ k[1] \in UniqueTables /\ db[k] # <<>>
<1>1. /\ UNCHANGED <<script, head, checkpoint>> /\ t.pc = "save" /\ head \in Nat
      /\ refused => UNCHANGED db /\ Handled(p, c, "failed")
      /\ ~refused => \/ NeedsPool(e) /\ Reopens(e, t.poolImage)
                        /\ thread' = [thread EXCEPT ![p][c].pc = "reopen"] /\ UNCHANGED fate
                     \/ ~(NeedsPool(e) /\ Reopens(e, t.poolImage)) /\ Handled(p, c, "applied")
  BY TypeParts DEF Save, EventOf
<1>2. t.queue # {} /\ Working(t)
  BY <1>1, TypeParts DEF ThreadTyped, Working
<1>3. CASE refused
  <2>1. /\ Alone' /\ \A q \in Pollers, d \in Watched' : InOrder(q, d)' /\ Current1(q, d)'
        /\ Applied' \subseteq Applied /\ Passed' \subseteq Passed
    BY <1>1, <1>2, <1>3, HandledSteady
  <2>2. RowsExist' /\ RowsRight'
    BY <1>1, <1>3, <2>1, QuietRows
  <2>3. QED BY <2>1, <2>2 DEF Steady
<1>4. ASSUME ~refused PROVE Steady'
  <2>1. /\ \A a \in Keys \ {k} : db'[a] = db[a]
        /\ db'[k] # <<>> /\ Len(db'[k]) = 1
        /\ Right(k, db'[k][1], Applied \cup {cur}, Passed \cup {cur}, head)
        /\ e.name = "ContributionReceived" => db'[k][1].status = "confirmed"
    BY <1>4, RowSaved
  <2>2. /\ cur \in Blocks /\ e = script[cur] /\ k \in Keys /\ Home(k[1]) = c
        /\ e.contract \in Contracts /\ e.name \in Names[e.contract]
        /\ e.name = "ContributionReceived" => NeedsPool(e) /\ k[1] = "contribution" /\ k # PoolKey
    <3>1. /\ cur \in Blocks /\ e = script[cur] /\ k \in Keys
          /\ e.contract \in Contracts /\ e.name \in Names[e.contract]
      BY <1>2, QueueFacts
    <3>2. /\ Home(k[1]) = c
          /\ e.name = "ContributionReceived" => NeedsPool(e) /\ k[1] = "contribution" /\ k # PoolKey
      BY <1>2, OwnRows
    <3>3. QED BY <3>1, <3>2
  <2>3. \A a \in Keys : Home(a[1]) # c => db'[a] = db[a]
    BY <2>1, <2>2
  <2>4. Current1(p, c) /\ ThreadTyped(p, c) /\ InOrder(p, c)
    BY TypeParts DEF Steady
  <2>5. e.name = "ContributionReceived" => t.poolAt = 1 /\ t.poolImage = Row(PoolKey) /\ t.poolImage \in PoolRows
    BY <1>1, <2>2, <2>4 DEF Current1, ThreadTyped
  <2>6. NeedsPool(e) => db[PoolKey] # <<>>
    <3>1. NeedsPool(e) => t.poolAt \in DOMAIN db[PoolKey]
      BY <1>1, <2>4 DEF ThreadTyped
    <3>2. QED BY <3>1, PoolKeyFacts, OneRow
  <2>7. Reached(cur, Applied, Passed) /\ Shape
    BY <1>2, ReachedNow DEF IInv
  <2>8. CASE ~(NeedsPool(e) /\ Reopens(e, t.poolImage)) /\ Handled(p, c, "applied")
    <3>1. /\ Alone' /\ \A q \in Pollers, d \in Watched' : InOrder(q, d)' /\ Current1(q, d)'
          /\ Applied' \subseteq Applied \cup {cur} /\ Passed' \subseteq Passed \cup {cur}
      BY <1>1, <1>2, <2>3, <2>8, HandledSteady
    <3>2. e.name = "ContributionReceived" => Row(PoolKey).status = "active"
      BY <2>2, <2>5, <2>8 DEF Reopens, PoolRows
    <3> DEFINE A == Applied \cup {cur}
               P == Passed \cup {cur}
    <3>3. ASSUME NEW a \in Keys \ {k}, db[a] # <<>> PROVE Right(a, Row(a), A, P, head)
      <4> DEFINE r == Row(a)
      <4>1. Right(a, r, Applied, Passed, head)
        BY <3>3 DEF Steady, RowsRight
      <4>2. a # Key(script[cur])
        BY <2>2, <3>3
      <4>3. a = PoolKey /\ script[cur].name = "ContributionReceived" => r.status = "active"
        BY <2>2, <3>2
      <4> HIDE DEF r, cur
      <4>4. Right(a, r, Applied \cup {cur}, Passed \cup {cur}, head)
        BY <2>7, <4>1, <4>2, <4>3, RightOther
      <4>5. QED BY <4>4 DEF r
    <3>4. ASSUME NEW i \in Applied' \ Applied
          PROVE  /\ Key(script[i]) = k \/ db[Key(script[i])] # <<>>
                 /\ NeedsPool(script[i]) => db[PoolKey] # <<>>
      <4>1. i = cur
        BY <3>1
      <4>2. QED BY <2>2, <2>6, <4>1
    <3>5. Applied' \subseteq A /\ Passed' \subseteq P /\ Right(k, db'[k][1], A, P, head)
      BY <2>1, <3>1
    <3> HIDE DEF A, P, k
    <3>6. RowsExist' /\ RowsRight'
      BY <1>1, <2>1, <2>2, <3>3, <3>4, <3>5, RowWrittenRight
    <3>7. QED BY <3>1, <3>6 DEF Steady
  <2>9. CASE /\ NeedsPool(e) /\ Reopens(e, t.poolImage)
             /\ thread' = [thread EXCEPT ![p][c].pc = "reopen"] /\ UNCHANGED fate
    <3> DEFINE n == [t EXCEPT !.pc = "reopen"]
    <3>1. thread' = [thread EXCEPT ![p][c] = n] /\ e.name = "ContributionReceived"
      BY <2>9 DEF Reopens
    <3>2. /\ n.pc = "reopen" /\ n.next = t.next /\ n.queue = t.queue
          /\ n.poolAt = t.poolAt /\ n.poolImage = t.poolImage
      BY TypeParts DEF Fields
    <3> HIDE DEF n
    <3>3. Applied' = Applied /\ Applied \subseteq Blocks /\ \A i \in Applied : i \in Nat
      BY <1>1, <2>9, SameFate, AppliedFacts, EventFacts DEF IInv
    <3>4. ASSUME thread'[p][c] = n PROVE InOrder(p, c)' /\ Current1(p, c)'
      <4>1. InOrder(p, c)'
        BY <1>1, <1>2, <2>4, <3>2, <3>3, <3>4 DEF InOrder
      <4>2. Current(p, c)' = cur
        BY <3>2, <3>4 DEF Current
      <4>3. EventOf(p, c)' = e
        BY <1>1, <2>2, <4>2 DEF EventOf
      <4>4. db'[PoolKey] = db[PoolKey]
        BY <2>1, <2>2, <3>1, PoolKeyFacts
      <4>5. db'[k] # <<>> /\ db'[k][1].status # "pending-onchain"
        BY <2>1, <3>1
      <4>6. n.poolAt = 1 /\ n.poolImage = db'[PoolKey][1]
        BY <2>5, <3>1, <3>2, <4>4 DEF Row
      <4>7. Current1(p, c)'
        BY <3>2, <3>4, <4>3, <4>5, <4>6 DEF Current1, Row
      <4>8. QED BY <4>1, <4>7
    <3>5. t.pc # "done"
      BY <1>1
    <3>6. Alone' /\ \A q \in Pollers, d \in Watched' : InOrder(q, d)' /\ Current1(q, d)'
      BY <1>1, <2>3, <3>1, <3>3, <3>4, <3>5, OthersSteady
    <3>7. ASSUME NEW i \in Applied', Behind(i)' PROVE Behind(i)
      <4>1. script[i].contract = c /\ i <= checkpoint[c] => Behind(i)
        BY DEF Behind
      <4>2. script[i].contract = c /\ i < n.next /\ i \notin n.queue => Behind(i)
        BY <1>2, <3>2, BehindOf
      <4>3. i \in Blocks
        BY <3>3, <3>7
      <4>4. QED BY <1>1, <3>1, <3>7, <4>1, <4>2, <4>3, BehindThen
    <3> DEFINE A == Applied
               P == Passed
               r == db'[k][1]
    <3>8. Passed' \subseteq P /\ Applied' \subseteq A
      BY <3>3, <3>7 DEF Passed
    <3>9. Right(k, r, A, P, head)
      <4>1. Right(k, r, Applied \cup {cur}, Passed \cup {cur}, head)
        BY <2>1
      <4> DEFINE A1 == Applied \cup {cur}
                 P1 == Passed \cup {cur}
      <4>2. Right(k, r, A1, P1, head) /\ A \in SUBSET A1 /\ P \in SUBSET P1 /\ head <= head
        BY <1>1, <4>1
      <4> HIDE DEF r, A, P, A1, P1, k
      <4>3. QED BY <1>1, <4>2, RightStays
    <3>10. \A a \in Keys \ {k} : db[a] # <<>> => Right(a, Row(a), A, P, head)
      BY DEF Steady, RowsRight
    <3>11. \A i \in Applied' \ Applied : FALSE
      BY <3>3
    <3> HIDE DEF A, P, k
    <3>12. Right(k, db'[k][1], A, P, head)
      BY <3>9
    <3>13. RowsExist' /\ RowsRight'
      BY <1>1, <2>1, <2>2, <3>8, <3>10, <3>11, <3>12, RowWrittenRight
    <3>14. QED BY <3>6, <3>13 DEF Steady
  <2>10. QED BY <1>1, <1>4, <2>8, <2>9
<1>5. QED BY <1>3, <1>4

LEMMA ReopenSteady ==
    ASSUME IInv, TypeInv, Steady, NEW p \in Pollers, NEW c \in Watched, ReopenPool(p, c)
    PROVE  Steady'
<1> DEFINE t == thread[p][c]
           cur == Current(p, c)
           e == EventOf(p, c)
           k == Key(e)
           row == [Row(PoolKey) EXCEPT !.status = "active"]
<1>1. /\ UNCHANGED <<script, head, checkpoint>> /\ t.pc = "reopen" /\ head \in Nat
      /\ db' = [db EXCEPT ![PoolKey][t.poolAt] = [t.poolImage EXCEPT !.status = "active"]]
      /\ Handled(p, c, "applied")
  BY TypeParts DEF ReopenPool
<1>2. t.queue # {} /\ Working(t) /\ e.name = "ContributionReceived"
  BY <1>1, TypeParts DEF ThreadTyped, Working
<1>3. cur \in Blocks /\ e = script[cur] /\ k \in Keys
  BY <1>2, QueueFacts
<1>4. NeedsPool(e) /\ k # PoolKey /\ Home(PoolKey[1]) = c
  BY <1>2, OwnRows
<1>5. /\ t.poolAt = 1 /\ t.poolImage = Row(PoolKey)
      /\ db[k] # <<>> /\ Row(k).status # "pending-onchain"
  <2>1. Current1(p, c)
    BY DEF Steady
  <2>2. QED BY <1>1, <1>2, <2>1 DEF Current1
<1>6. db[PoolKey] # <<>> /\ Len(db[PoolKey]) = 1 /\ Row(PoolKey) \in PoolRows /\ db[PoolKey] \in Seq(PoolRows)
  <2>1. t.poolAt \in DOMAIN db[PoolKey]
    BY <1>1, <1>4, TypeParts DEF ThreadTyped
  <2>2. QED BY <2>1, PoolKeyFacts, OneRow
<1>7. Reached(cur, Applied, Passed) /\ Shape
  BY <1>2, ReachedNow DEF IInv
<1>8. row \in PoolRows
  BY <1>6 DEF PoolRows
<1>9. Right(PoolKey, row, Applied \cup {cur}, Passed \cup {cur}, head)
  <2>1. Right(PoolKey, Row(PoolKey), Applied, Passed, head)
    BY <1>6, PoolKeyFacts DEF Steady, RowsRight
  <2> DEFINE r == Row(PoolKey)
  <2>2. r \in PoolRows /\ Right(PoolKey, r, Applied, Passed, head) /\ script[cur].name = "ContributionReceived"
    BY <1>2, <1>3, <1>6, <2>1
  <2> HIDE DEF r, cur
  <2>3. Right(PoolKey, [r EXCEPT !.status = "active"], Applied \cup {cur}, Passed \cup {cur}, head)
    BY <1>7, <2>2, RightReopened
  <2>4. QED BY <2>3 DEF r
<1> HIDE DEF row
<1>10. db = [a \in Keys |-> db[a]] /\ db' = [db EXCEPT ![PoolKey][1] = row]
  BY <1>1, <1>5 DEF TypeInv, RowsTyped, row
<1>11. /\ \A a \in Keys \ {PoolKey} : db'[a] = db[a]
       /\ db'[PoolKey] # <<>> /\ Len(db'[PoolKey]) = 1 /\ db'[PoolKey][1] = row
  <2> DEFINE s == db[PoolKey]
  <2>1. db'[PoolKey] = [s EXCEPT ![1] = row] /\ \A a \in Keys \ {PoolKey} : db'[a] = db[a]
    BY <1>10, PoolKeyFacts
  <2>2. s \in Seq(PoolRows) /\ Len(s) = 1
    BY <1>6
  <2> HIDE DEF s
  <2>3. QED BY <1>8, <2>1, <2>2, OneReplaced
<1>12. \A a \in Keys : Home(a[1]) # c => db'[a] = db[a]
  BY <1>4, <1>11
<1>13. /\ Alone' /\ \A q \in Pollers, d \in Watched' : InOrder(q, d)' /\ Current1(q, d)'
       /\ Applied' \subseteq Applied \cup {cur} /\ Passed' \subseteq Passed \cup {cur}
  BY <1>1, <1>2, <1>12, HandledSteady
<1> DEFINE A == Applied \cup {cur}
           P == Passed \cup {cur}
<1>14. ASSUME NEW a \in Keys \ {PoolKey}, db[a] # <<>> PROVE Right(a, Row(a), A, P, head)
  <2> DEFINE r == Row(a)
  <2>1. Right(a, r, Applied, Passed, head)
    BY <1>14 DEF Steady, RowsRight
  <2>2. /\ a = Key(script[cur]) => r.status # "pending-onchain"
        /\ script[cur].name = "ContributionReceived" /\ a # PoolKey
    BY <1>2, <1>3, <1>5
  <2> HIDE DEF r, cur
  <2>3. Right(a, r, Applied \cup {cur}, Passed \cup {cur}, head)
    BY <1>7, <2>1, <2>2, RightOther
  <2>4. QED BY <2>3 DEF r
<1>15. ASSUME NEW i \in Applied' \ Applied
       PROVE  /\ Key(script[i]) = PoolKey \/ db[Key(script[i])] # <<>>
              /\ NeedsPool(script[i]) => db[PoolKey] # <<>>
  <2>1. i = cur
    BY <1>13
  <2>2. QED BY <1>3, <1>5, <1>6, <2>1
<1>16. Applied' \subseteq A /\ Passed' \subseteq P /\ Right(PoolKey, db'[PoolKey][1], A, P, head)
  BY <1>9, <1>11, <1>13
<1> HIDE DEF A, P
<1>17. RowsExist' /\ RowsRight'
  BY <1>1, <1>11, <1>14, <1>15, <1>16, PoolKeyFacts, RowWrittenRight
<1>18. QED BY <1>13, <1>17 DEF Steady

LEMMA RecordSteady ==
    ASSUME IInv, TypeInv, Steady, NEW k \in Keys, RecordContribution(k)
    PROVE  Steady'
<1> DEFINE row == [status |-> "pending-onchain"]
<1>1. /\ k[1] = "contribution" /\ db[k] = <<>> /\ db' = [db EXCEPT ![k] = <<row>>]
      /\ UNCHANGED <<script, head, checkpoint, thread, fate>> /\ head \in Nat
      /\ db = [a \in Keys |-> db[a]]
  BY TypeParts DEF RecordContribution, TypeInv, RowsTyped
<1> DEFINE s == <<row>>
<1>2. s # <<>> /\ Len(s) = 1 /\ s[1].status = "pending-onchain"
  OBVIOUS
<1> HIDE DEF s
<1>3. /\ db'[k] = s /\ \A a \in Keys \ {k} : db'[a] = db[a]
  BY <1>1 DEF s
<1>4. Applied' = Applied /\ Watched' = Watched
  BY <1>1, SameFate DEF Watched, Blocks
<1>5. Passed' = Passed
  BY <1>1, <1>4 DEF Passed, Behind
<1>6. k # PoolKey /\ db'[PoolKey] = db[PoolKey]
  BY <1>1, <1>3, PoolKeyFacts
<1>7. ASSUME NEW q \in Pollers, NEW d \in Watched PROVE InOrder(q, d)' /\ Current1(q, d)'
  <2>1. InOrder(q, d) /\ Current1(q, d)
    BY DEF Steady
  <2>2. EventOf(q, d)' = EventOf(q, d)
    BY <1>1 DEF EventOf, Current
  <2>3. InOrder(q, d)'
    BY <1>1, <1>4, <2>1 DEF InOrder
  <2> DEFINE a == Key(EventOf(q, d))
  <2>4. thread[q][d].pc \in {"save", "reopen"} => a \in Keys
    <3>1. thread[q][d].pc \in {"save", "reopen"} => thread[q][d].queue # {}
      BY TypeParts DEF ThreadTyped
    <3>2. QED BY <3>1, OwnRows
  <2>5. thread[q][d].pc \in {"save", "reopen"} /\ db[a] # <<>> => db'[a] = db[a]
    BY <1>1, <1>3, <2>4
  <2>6. thread[q][d].pc \in {"save", "reopen"} /\ a[1] # "contribution" => db'[a] = db[a]
    BY <1>1, <1>3, <2>4
  <2> HIDE DEF a
  <2>7. Current1(q, d)'
    BY <1>1, <1>6, <2>1, <2>2, <2>5, <2>6 DEF Current1, Row, a
  <2>8. QED BY <2>3, <2>7
<1>8. Alone'
  BY <1>1, <1>4 DEF Steady, Alone
<1>9. \A i \in Applied : Key(script[i]) # k
  BY <1>1 DEF Steady, RowsExist
<1> DEFINE A == Applied
           P == Passed
<1>10. Right(k, s[1], A, P, head)
  BY <1>1, <1>2, <1>9 DEF Right, ContributionRight, Wrote
<1>11. \A a \in Keys \ {k} : db[a] # <<>> => Right(a, Row(a), A, P, head)
  BY DEF Steady, RowsRight
<1>12. Applied' \subseteq A /\ Passed' \subseteq P /\ Applied' \ Applied = {}
  BY <1>4, <1>5
<1> HIDE DEF A, P
<1>13. RowsExist' /\ RowsRight'
  BY <1>1, <1>2, <1>3, <1>10, <1>11, <1>12, RowWrittenRight
<1>14. QED BY <1>4, <1>7, <1>8, <1>13 DEF Steady

LEMMA InitSteady == Init => SteadyInv
<1> SUFFICES ASSUME Init PROVE Steady
  BY DEF SteadyInv
<1>1. Done.pc = "done"
  BY DEF Done, At
<1>2. \A p \in Pollers, c \in Watched : thread[p][c].pc = "done"
  BY <1>1 DEF Init
<1>3. Applied = {} /\ Passed = {}
  BY DEF Init, Applied, Passed
<1>4. \A k \in Keys : db[k] = <<>>
  BY DEF Init
<1>5. QED BY <1>2, <1>3, <1>4 DEF Steady, Alone, InOrder, Current1, Working, RowsExist, RowsRight

LEMMA StepSteady == IInv /\ TypeInv /\ SteadyInv /\ [Next]_vars => SteadyInv'
<1> SUFFICES ASSUME IInv, TypeInv, SteadyInv, [Next]_vars, "overlap" \notin upset' PROVE Steady'
  BY DEF SteadyInv
<1>1. upset \subseteq upset'
  <2>1. ASSUME NEW p \in Pollers, NEW c \in Watched, Step(p, c) \/ FailSave(p, c) \/ FailCheckpoint(p, c)
        PROVE  upset \subseteq upset'
    <3>1. upset' = upset \/ upset' = upset \cup {"interrupted"}
      BY <2>1 DEF Step, ReadCheckpoint, Query, Finish, Load, Save, ReopenPool, FailSave, FailCheckpoint
    <3>2. QED BY <3>1
  <2>2. ASSUME NEW p \in Pollers, StartPoll(p) PROVE upset \subseteq upset'
    BY <2>2 DEF StartPoll
  <2>3. CASE Mine \/ Restart \/ Reindex \/ UNCHANGED vars
    BY <2>3 DEF Mine, Restart, Reindex, vars
  <2>4. ASSUME NEW k \in Keys, RecordContribution(k) PROVE upset \subseteq upset'
    BY <2>4 DEF RecordContribution
  <2>5. QED BY <2>1, <2>2, <2>3, <2>4 DEF Next
<1>2. Steady
  BY <1>1 DEF SteadyInv
<1>3. CASE Mine
  BY <1>2, <1>3, MineSteady
<1>4. CASE Restart \/ Reindex
  BY <1>2, <1>4, PollsSteady
<1>5. ASSUME NEW k \in Keys, RecordContribution(k) PROVE Steady'
  BY <1>2, <1>5, RecordSteady
<1>6. ASSUME NEW p \in Pollers, StartPoll(p) PROVE Steady'
  <2>1. Idle
    BY <1>6 DEF StartPoll
  <2>2. QED BY <1>2, <1>6, <2>1, PollsSteady
<1>7. ASSUME NEW p \in Pollers, NEW c \in Watched, Step(p, c) PROVE Steady'
  BY <1>2, <1>7, ReadCheckpointSteady, QuerySteady, EndSteady, LoadSteady, SaveSteady, ReopenSteady DEF Step
<1>8. ASSUME NEW p \in Pollers, NEW c \in Watched, FailSave(p, c) \/ FailCheckpoint(p, c) PROVE Steady'
  BY <1>2, <1>8, FailSaveSteady, EndSteady
<1>9. CASE UNCHANGED vars
  <2>1. UNCHANGED <<script, head, checkpoint, db, thread, fate>>
    BY <1>9 DEF vars
  <2>2. Watched' = Watched /\ Applied' = Applied /\ head \in Nat
    BY <2>1, SameFate, TypeParts DEF Watched, Blocks
  <2>3. \A q \in Pollers, d \in Watched : EventOf(q, d)' = EventOf(q, d)
    BY <2>1 DEF EventOf, Current
  <2>4. \A q \in Pollers, d \in Watched : InOrder(q, d)' /\ Current1(q, d)'
    BY <1>2, <2>1, <2>2, <2>3 DEF Steady, InOrder, Current1, Row
  <2>5. Alone' /\ \A i \in Applied' : Behind(i)' => Behind(i)
    BY <1>2, <2>1, <2>2 DEF Steady, Alone, Behind
  <2>6. \A q \in Pollers, d \in Watched' : InOrder(q, d)' /\ Current1(q, d)'
    BY <2>2, <2>4
  <2>7. UNCHANGED <<script, db>> /\ head' \in Nat /\ head <= head' /\ Applied' \subseteq Applied
    BY <2>1, <2>2
  <2>8. QED BY <1>2, <2>5, <2>6, <2>7, QuietSteady
<1>10. QED BY <1>3, <1>4, <1>5, <1>6, <1>7, <1>8, <1>9 DEF Next

-----------------------------------------------------------------------------
(* Settled rows *)

LEMMA LastIs ==
    ASSUME NEW S, S \subseteq Nat, NEW j \in S, \A i \in S : i <= j
    PROVE  LastOf(S) = j
<1>1. \A m \in S : (\A i \in S : i <= m) => m = j
  OBVIOUS
<1>2. QED BY <1>1 DEF LastOf

\* The events of a settled key were applied and are passed.
LEMMA SettledFacts ==
    ASSUME IInv, TypeInv, SteadyInv, NEW k \in Keys, Settled(k)
    PROVE  /\ Steady
           /\ \A i \in 1 .. head : i \in Blocks /\ i \in Nat
           /\ \A i \in 1 .. head : Concerns(script[i], k) => i \in Applied /\ i \in Passed
           /\ Len(db[k]) = 1 /\ Row(k) \in Values(k)
           /\ Right(k, Row(k), Applied, Passed, head)
           /\ \E i \in 1 .. head : Concerns(script[i], k)
<1>1. Steady
  BY DEF Settled, SteadyInv
<1>2. \A i \in 1 .. head : i \in Blocks /\ i \in Nat
  BY TypeParts, ScriptFacts DEF IInv
<1>3. ASSUME NEW i \in 1 .. head, Concerns(script[i], k) PROVE i \in Applied /\ i \in Passed
  <2>1. i \in Applied
    BY <1>2, <1>3 DEF Settled, Visible, Applied
  <2>2. i <= checkpoint[script[i].contract]
    BY <1>2, TypeParts DEF Settled, Watched
  <2>3. QED BY <2>1, <2>2 DEF Passed, Behind
<1>4. PICK i \in 1 .. head : Concerns(script[i], k)
  BY DEF Settled, Visible
<1>5. db[k] # <<>>
  <2>1. i \in Applied
    BY <1>3, <1>4
  <2>2. script[i].name = "ContributionReceived" => NeedsPool(script[i])
    BY <1>2, NamedKeys DEF IInv
  <2>3. QED BY <1>1, <1>4, <2>1, <2>2 DEF Steady, RowsExist, Concerns
<1>6. QED BY <1>1, <1>2, <1>3, <1>4, <1>5, OneRow DEF Steady, RowsRight

LEMMA PoolAgrees ==
    ASSUME IInv, TypeInv, SteadyInv, Settled(PoolKey)
    PROVE  Row(PoolKey) = [currentRound |-> RoundOnChain, status |-> IF Reopened THEN "active" ELSE "round-closed"]
<1> DEFINE r == Row(PoolKey)
           Closed == Emitted("RoundClosed")
           Paid == Emitted("ContributionReceived")
<1>1. /\ PoolKey \in Keys /\ r \in PoolRows /\ PoolRight(r, Passed, head)
      /\ \A i \in 1 .. head : i \in Blocks /\ i \in Nat
      /\ \A i \in 1 .. head : Concerns(script[i], PoolKey) => i \in Applied /\ i \in Passed
  BY PoolKeyFacts, SettledFacts DEF Right
<1>2. ASSUME NEW i \in Closed \cup Paid PROVE i \in Passed /\ i \in Nat \ {0} /\ i <= head
  <2>1. i \in 1 .. head /\ script[i].name \in {"RoundClosed", "ContributionReceived"} /\ head \in Nat
    BY TypeParts DEF Emitted
  <2>2. Concerns(script[i], PoolKey)
    BY <1>1, <2>1, NamedKeys DEF Concerns, IInv
  <2>3. QED BY <1>1, <2>1, <2>2
<1>3. /\ \A i \in Closed : script[i].name = "RoundClosed"
      /\ \A i \in Paid : script[i].name = "ContributionReceived"
      /\ \A i \in 1 .. head : /\ script[i].name = "RoundClosed" => i \in Closed
                              /\ script[i].name = "ContributionReceived" => i \in Paid
  BY DEF Emitted
<1>4. head \in Nat
  BY TypeParts
<1>5. r.currentRound = RoundOnChain
  <2>1. PICK j \in 0 .. head : RoundFrom(r, j) /\ NoneLater({"RoundClosed"}, j, Passed)
    BY <1>1 DEF PoolRight
  <2>2. \A i \in Closed : i <= j
    BY <1>2, <1>3, <2>1 DEF NoneLater
  <2>3. CASE j = 0
    <3>1. Closed = {}
      BY <1>2, <2>2, <2>3
    <3>2. QED BY <2>1, <2>3, <3>1 DEF RoundFrom, RoundOnChain
  <2>4. CASE j # 0
    <3>1. j \in Closed /\ r.currentRound = script[j].arg + 1
      BY <1>3, <1>4, <2>1, <2>4 DEF RoundFrom
    <3>2. Closed \subseteq Nat
      BY <1>2
    <3> HIDE DEF Closed
    <3>3. LastOf(Closed) = j
      BY <2>2, <3>1, <3>2, LastIs
    <3>4. QED BY <3>1, <3>3 DEF RoundOnChain, Closed
  <2>5. QED BY <2>3, <2>4
<1>6. r.status = IF Reopened THEN "active" ELSE "round-closed"
  <2>1. PICK j \in 0 .. head : StatusFrom(r, j) /\ NoneLater({"RoundClosed", "ContributionReceived"}, j, Passed)
    BY <1>1 DEF PoolRight
  <2>2. \A i \in Closed \cup Paid : i <= j
    BY <1>2, <1>3, <2>1 DEF NoneLater
  <2>3. CASE j = 0 /\ r.status = "active"
    <3>1. Closed = {}
      BY <1>2, <2>2, <2>3
    <3>2. QED BY <2>3, <3>1 DEF Reopened
  <2>4. CASE j > 0 /\ script[j].name = "RoundClosed" /\ r.status = "round-closed"
    <3>1. j \in Closed
      BY <1>3, <1>4, <2>1, <2>4
    <3>2. \A i \in Paid : ~(j < i)
      BY <1>2, <1>4, <2>1, <2>2
    <3>3. QED BY <2>4, <3>1, <3>2 DEF Reopened
  <2>5. CASE j > 0 /\ script[j].name = "ContributionReceived" /\ r.status = "active"
    <3>1. j \in Paid
      BY <1>3, <1>4, <2>1, <2>5
    <3>2. \A i \in Closed : i < j
      BY <1>2, <1>3, <1>4, <2>1, <2>2, <2>5
    <3>3. Reopened
      BY <3>1, <3>2 DEF Reopened
    <3>4. QED BY <2>5, <3>3
  <2>6. QED BY <2>1, <2>3, <2>4, <2>5 DEF StatusFrom
<1>7. QED BY <1>1, <1>5, <1>6 DEF PoolRows

LEMMA ContributionAgrees ==
    ASSUME IInv, TypeInv, SteadyInv, NEW k \in Keys, k[1] = "contribution", Settled(k)
    PROVE  Row(k).status = IF Defaulted(k) THEN "defaulted" ELSE "confirmed"
<1> DEFINE r == Row(k)
<1>1. /\ r \in ContributionRows /\ ContributionRight(k, r, Applied, head)
      /\ \A i \in 1 .. head : i \in Blocks /\ i \in Nat
      /\ \A i \in 1 .. head : Concerns(script[i], k) => i \in Applied
  BY SettledFacts, ValuesOf DEF Right
<1>2. CASE Defaulted(k)
  <2>1. PICK i \in 1 .. head : script[i].name = "DefaultTriggered" /\ Key(script[i]) = k
    BY <1>2 DEF Defaulted, Emitted
  <2>2. i \in Applied
    BY <1>1, <2>1 DEF Concerns
  <2>3. QED BY <1>1, <1>2, <2>1, <2>2 DEF ContributionRight, Wrote
<1>3. CASE ~Defaulted(k)
  <2>1. r.status # "defaulted"
    BY <1>1, <1>3 DEF ContributionRight, Wrote, Defaulted, Emitted
  <2>2. PICK i \in 1 .. head : Concerns(script[i], k)
    BY SettledFacts
  <2>3. Key(script[i]) = k /\ i \in Applied /\ i \in Blocks
    BY <1>1, <2>2, PoolKeyFacts DEF Concerns
  <2>4. script[i].name \in {"ContributionReceived", "DefaultTriggered"}
    <3> DEFINE e == script[i]
    <3>1. e.contract \in Contracts /\ e.name \in Names[e.contract] /\ Key(e)[1] = "contribution"
      BY <2>3, EventsOfScript DEF IInv
    <3> HIDE DEF e
    <3>2. Table(e.name) = "contribution"
      BY <3>1, KeyOfEvent
    <3>3. e.name \in {"ContributionReceived", "DefaultTriggered"}
      BY <3>1, <3>2, EventTables DEF Contracts
    <3>4. QED BY <3>3 DEF e
  <2>5. script[i].name = "ContributionReceived"
    BY <1>3, <2>3, <2>4 DEF Defaulted, Emitted
  <2>6. r.status # "pending-onchain"
    BY <1>1, <2>3, <2>5 DEF ContributionRight, Wrote
  <2>7. QED BY <1>1, <1>3, <2>1, <2>6 DEF ContributionRows
<1>4. QED BY <1>2, <1>3

LEMMA RegistryAgrees ==
    ASSUME IInv, TypeInv, SteadyInv, NEW k \in Keys, Settled(k)
    PROVE  /\ k[1] = "stream" => Row(k).frozen = (Emitted("StreamFrozen") # {})
           /\ k[1] = "score" => Row(k).score = script[LastOf(Emitted("ScoreUpdated"))].arg
           /\ k[1] = "proposal" => Row(k).status = StatusOnChain
<1> DEFINE r == Row(k)
<1>1. /\ r \in Values(k) /\ Right(k, r, Applied, Passed, head) /\ Shape
      /\ \A i \in 1 .. head : i \in Blocks /\ i \in Nat
      /\ \A i \in 1 .. head : Concerns(script[i], k) => i \in Applied /\ i \in Passed
  BY SettledFacts DEF IInv
<1>2. k[1] # "contribution" => k = <<k[1], 0>>
  BY <1>1, KeyFacts
<1>3. ASSUME k[1] = "stream" PROVE r.frozen = (Emitted("StreamFrozen") # {})
  <2>1. r \in StreamRows /\ StreamRight(r, Applied, head)
    BY <1>1, <1>3, ValuesOf DEF Right
  <2>2. \A i \in 1 .. head : script[i].name = "StreamFrozen" => i \in Applied
    BY <1>1, <1>2, <1>3, NamedKeys DEF Concerns
  <2>3. CASE Emitted("StreamFrozen") = {}
    BY <2>1, <2>3 DEF StreamRight, StreamRows, Emitted
  <2>4. CASE Emitted("StreamFrozen") # {}
    <3>1. PICK i \in 1 .. head : script[i].name = "StreamFrozen"
      BY <2>4 DEF Emitted
    <3>2. r.frozen = TRUE
      BY <2>1, <2>2, <3>1 DEF StreamRight, StreamRows
    <3>3. QED BY <1>3, <2>4, <3>2
  <2>5. QED BY <1>3, <2>3, <2>4
<1>4. ASSUME k[1] = "score" PROVE r.score = script[LastOf(Emitted("ScoreUpdated"))].arg
  <2>1. PICK j \in 1 .. head : /\ script[j].name = "ScoreUpdated" /\ r.score = script[j].arg
                               /\ NoneLater({"ScoreUpdated"}, j, Passed)
    BY <1>1, <1>4 DEF Right, ScoreRight
  <2> DEFINE S == Emitted("ScoreUpdated")
  <2>2. \A i \in 1 .. head : script[i].name = "ScoreUpdated" => i \in Passed
    BY <1>1, <1>2, <1>4, NamedKeys DEF Concerns
  <2>3. j \in S /\ \A i \in S : i <= j /\ i \in Nat
    BY <1>1, <2>1, <2>2 DEF Emitted, NoneLater
  <2> HIDE DEF S
  <2>4. LastOf(S) = j
    BY <2>3, LastIs
  <2>5. QED BY <1>4, <2>1, <2>4 DEF S
<1>5. ASSUME k[1] = "proposal" PROVE r.status = StatusOnChain
  <2>1. r \in ProposalRows /\ ProposalRight(r, Applied, head)
    BY <1>1, <1>5, ValuesOf DEF Right
  <2>2. \A i \in 1 .. head : script[i].name \in {"ProposalExecuted", "ProposalCancelled"} => i \in Applied
    BY <1>1, <1>2, <1>5, NamedKeys DEF Concerns
  <2>3. /\ Emitted("ProposalExecuted") # {} <=> r.status = "executed"
        /\ Emitted("ProposalCancelled") # {} <=> r.status = "cancelled"
    BY <2>1, <2>2 DEF ProposalRight, Emitted
  <2>4. r.status = StatusOnChain
    BY <2>1, <2>3 DEF StatusOnChain, ProposalRows
  <2>5. QED BY <1>5, <2>4
<1>6. QED BY <1>3, <1>4, <1>5

LEMMA SteadyAgrees == IInv /\ TypeInv /\ SteadyInv => SettledRowsAgree
<1> SUFFICES ASSUME IInv, TypeInv, SteadyInv, NEW k \in Keys, Settled(k) PROVE Len(db[k]) = 1 /\ Agrees(k)
  BY DEF SettledRowsAgree
<1>1. Len(db[k]) = 1
  BY SettledFacts
<1>2. /\ k[1] = "pool" =>
            Row(k) = [currentRound |-> RoundOnChain, status |-> IF Reopened THEN "active" ELSE "round-closed"]
      /\ k[1] = "contribution" => Row(k).status = IF Defaulted(k) THEN "defaulted" ELSE "confirmed"
  <2>1. k[1] = "pool" => k = PoolKey
    BY KeyFacts DEF IInv
  <2>2. QED BY <2>1, PoolAgrees, ContributionAgrees
<1>3. Agrees(k)
  BY <1>2, RegistryAgrees DEF Agrees
<1>4. QED BY <1>1, <1>3

\* The database keeps its shape: no row has a value its column cannot hold, a
\* unique index leaves one row a key, and no checkpoint is beyond the chain,
\* whatever fails, overlaps or starts over (every handler, indexer.service.ts).
THEOREM RowsKeepTheirShape == Spec => []TypeOK
<1>1. IInv /\ TypeInv => TypeOK
  BY TypeInvImplies
<1>2. QED BY <1>1, InitIInv, StepIInv, InitTyped, StepTyped, PTL DEF Spec

\* A settled row is the only one of its key and says what the chain says, for
\* any logs and after any restarts, failures and re-indexings, as long as no
\* two polls overlapped (the handlers of indexer.service.ts).
THEOREM SettledRowsSayTheChain == Spec => []SettledRowsAgree
<1>1. IInv /\ TypeInv /\ SteadyInv => SettledRowsAgree
  BY SteadyAgrees
<1>2. QED BY <1>1, InitIInv, StepIInv, InitTyped, StepTyped, InitSteady, StepSteady, PTL DEF Spec

-----------------------------------------------------------------------------
(* Votes, as long as nothing starts over: an event is met once *)

ProposalKey == <<"proposal", 0>>
VotesFor == {i \in Applied : script[i].name = "VoteCast" /\ script[i].arg = 1}
VotesAgainst == {i \in Applied : script[i].name = "VoteCast" /\ script[i].arg # 1}

\* What was met is behind, and the votes counted are those applied.
MetBehind == \A i \in Blocks : fate[i] # "waiting" => Behind(i)
Counted == (ProposalKey \in Keys /\ db[ProposalKey] # <<>>) =>
              /\ Row(ProposalKey).yes = Cardinality(VotesFor)
              /\ Row(ProposalKey).no = Cardinality(VotesAgainst)
Once == MetBehind /\ Counted

OnceInv == upset = {} => Once

LEMMA VotesFinite == ASSUME Shape PROVE IsFiniteSet(VotesFor) /\ IsFiniteSet(VotesAgainst)
<1>1. Len(script) \in Nat /\ VotesFor \subseteq 1 .. Len(script) /\ VotesAgainst \subseteq 1 .. Len(script)
  BY ScriptFacts, AppliedFacts DEF VotesFor, VotesAgainst
<1>2. IsFiniteSet(1 .. Len(script))
  BY <1>1, FS_Interval
<1>3. QED BY <1>1, <1>2, FS_Subset

\* An event in the queue of a poll has not been met.
LEMMA CurrentWaits ==
    ASSUME IInv, TypeInv, Steady, MetBehind, NEW p \in Pollers, NEW c \in Watched,
           Working(thread[p][c]), thread[p][c].queue # {}
    PROVE  Current(p, c) \notin Applied
<1> DEFINE i == Current(p, c)
<1>1. i \in Blocks /\ i \in thread[p][c].queue /\ script[i].contract = c /\ i \in Nat
  BY QueueFacts
<1>2. checkpoint[c] < i /\ checkpoint[c] \in Nat
  BY <1>1 DEF Steady, InOrder, IInv, Shape
<1>3. \A q \in Pollers : Working(thread[q][c]) => q = p
  BY DEF Steady, Alone, Working
<1>4. ~Behind(i)
  BY <1>1, <1>2, <1>3 DEF Behind
<1>5. QED BY <1>1, <1>4 DEF MetBehind, Applied

\* What one thread leaves alone stays behind.
LEMMA BehindStill ==
    ASSUME UNCHANGED script, IInv, NEW p \in Pollers, NEW c \in Watched, NEW n,
           thread' = [thread EXCEPT ![p][c] = n],
           \A d \in Watched \ {c} : checkpoint'[d] = checkpoint[d],
           NEW i \in Blocks, Behind(i),
           script[i].contract = c /\ i <= checkpoint[c] => Behind(i)',
           (script[i].contract = c /\ Working(thread[p][c])
              /\ i < thread[p][c].next /\ i \notin thread[p][c].queue) => Behind(i)'
    PROVE  Behind(i)'
<1> DEFINE d == script[i].contract
<1>1. thread = [q \in Pollers |-> [a \in Watched |-> thread[q][a]]] /\ d \in Watched
  BY DEF IInv, Shape, Watched
<1>2. \A q \in Pollers, a \in Watched : thread'[q][a] = IF q = p /\ a = c THEN n ELSE thread[q][a]
  BY <1>1
<1>3. i <= checkpoint[d] \/ \E q \in Pollers : /\ Working(thread[q][d])
                                               /\ i < thread[q][d].next /\ i \notin thread[q][d].queue
  BY DEF Behind
<1>4. CASE i <= checkpoint[d]
  <2>1. CASE d = c
    BY <1>4, <2>1
  <2>2. CASE d # c
    BY <1>1, <1>4, <2>2 DEF Behind
  <2>3. QED BY <2>1, <2>2
<1>5. ASSUME NEW q \in Pollers, Working(thread[q][d]), i < thread[q][d].next, i \notin thread[q][d].queue
      PROVE  Behind(i)'
  <2>1. CASE q = p /\ d = c
    BY <1>5, <2>1
  <2>2. CASE ~(q = p /\ d = c)
    <3>1. thread'[q][d] = thread[q][d]
      BY <1>1, <1>2, <2>2
    <3>2. Working(thread'[q][d]) /\ i < thread'[q][d].next /\ i \notin thread'[q][d].queue
      BY <1>5, <3>1
    <3>3. QED BY <3>2 DEF Behind
  <2>3. QED BY <2>1, <2>2
<1>6. QED BY <1>3, <1>4, <1>5

LEMMA BehindNow ==
    ASSUME UNCHANGED script, NEW i, NEW p \in Pollers, NEW c, script[i].contract = c,
           Working(thread'[p][c]), i < thread'[p][c].next, i \notin thread'[p][c].queue
    PROVE  Behind(i)'
BY DEF Behind

\* Nothing is counted when no event is applied and the proposal stays.
LEMMA CountKept ==
    ASSUME UNCHANGED script, Applied' = Applied, Counted,
           ProposalKey \in Keys => db'[ProposalKey] = db[ProposalKey]
    PROVE  Counted'
<1>1. VotesFor' = VotesFor /\ VotesAgainst' = VotesAgainst /\ Keys' = Keys
  BY DEF VotesFor, VotesAgainst, Keys, Blocks
<1>2. QED BY <1>1 DEF Counted, Row

\* A handler has returned: its event was met for the first time.
LEMMA HandledOnce ==
    ASSUME IInv, TypeInv, Steady, Once, NEW p \in Pollers, NEW c \in Watched,
           NEW outcome \in {"applied", "dropped", "failed"},
           Working(thread[p][c]), thread[p][c].queue # {}, Handled(p, c, outcome),
           UNCHANGED <<script, checkpoint>>
    PROVE  /\ MetBehind'
           /\ outcome # "applied" => Applied' = Applied
           /\ outcome = "applied" => Applied' = Applied \cup {Current(p, c)}
           /\ Current(p, c) \notin Applied
<1> DEFINE cur == Current(p, c)
           t == thread[p][c]
           n == At("load", t.to, t.next, t.queue \ {cur})
<1>1. thread' = [thread EXCEPT ![p][c] = n] /\ fate' = [fate EXCEPT ![cur] = outcome]
  BY DEF Handled
<1>2. n.pc = "load" /\ n.next = t.next /\ n.queue = t.queue \ {cur} /\ Working(n)
  BY DEF At, Working
<1>3. /\ cur \in Blocks /\ cur < t.next /\ script[cur].contract = c
      /\ cur \notin Applied
  BY QueueFacts, CurrentWaits DEF Once
<1>4. fate = [i \in Blocks |-> fate[i]] /\ Blocks' = Blocks
      /\ thread = [q \in Pollers |-> [d \in Watched |-> thread[q][d]]]
  BY DEF IInv, Shape, Blocks
<1> HIDE DEF n, cur
<1>5. thread'[p][c] = n
  BY <1>1, <1>4
<1>6. ASSUME NEW i \in Blocks, fate'[i] # "waiting" PROVE Behind(i)'
  <2>1. CASE i = cur
    BY <1>2, <1>3, <1>5, <2>1, BehindNow
  <2>2. CASE i # cur
    <3>1. Behind(i)
      BY <1>1, <1>4, <1>6, <2>2 DEF Once, MetBehind
    <3>2. script[i].contract = c /\ i <= checkpoint[c] => Behind(i)'
      BY DEF Behind
    <3>3. script[i].contract = c /\ i < t.next /\ i \notin t.queue => Behind(i)'
      BY <1>2, <1>5, BehindNow
    <3>4. \A d \in Watched \ {c} : checkpoint'[d] = checkpoint[d]
      OBVIOUS
    <3>5. QED BY <1>1, <3>1, <3>2, <3>3, <3>4, BehindStill
  <2>3. QED BY <2>1, <2>2
<1>7. MetBehind'
  BY <1>4, <1>6 DEF MetBehind
<1>8. outcome # "applied" => Applied' = Applied
  BY <1>1, <1>3, <1>4 DEF Applied
<1>9. outcome = "applied" => Applied' = Applied \cup {cur}
  BY <1>1, <1>3, <1>4 DEF Applied
<1>10. QED BY <1>3, <1>7, <1>8, <1>9 DEF cur

\* An event that is no vote is applied.
LEMMA CountOther ==
    ASSUME UNCHANGED script, Counted, NEW i, Applied' = Applied \cup {i}, script[i].name # "VoteCast",
           ProposalKey \in Keys =>
              \/ db'[ProposalKey] = db[ProposalKey]
              \/ db[ProposalKey] # <<>> /\ Row(ProposalKey)'.yes = Row(ProposalKey).yes
                                        /\ Row(ProposalKey)'.no = Row(ProposalKey).no
    PROVE  Counted'
<1>1. VotesFor' = VotesFor /\ VotesAgainst' = VotesAgainst /\ Keys' = Keys
  BY DEF VotesFor, VotesAgainst, Keys, Blocks
<1>2. QED BY <1>1 DEF Counted, Row

\* Steps that write no row and apply nothing.
LEMMA QuietOnce ==
    ASSUME Once, UNCHANGED <<script, db>>, Applied' = Applied,
           \A i \in Blocks : fate'[i] # "waiting" => Behind(i)'
    PROVE  Once'
<1>1. Counted'
  BY CountKept DEF Once
<1>2. QED BY <1>1 DEF Once, MetBehind, Blocks

LEMMA PlaceOnce ==
    ASSUME IInv, TypeInv, Steady, Once, NEW p \in Pollers, NEW c \in Watched,
           ReadCheckpoint(p, c) \/ Finish(p, c)
    PROVE  Once'
<1> DEFINE t == thread[p][c]
           n == IF Finish(p, c) THEN Done
                ELSE IF checkpoint[c] >= t.to THEN Done ELSE [t EXCEPT !.pc = "load", !.next = checkpoint[c] + 1]
<1>1. UNCHANGED <<script, db, fate>> /\ thread' = [thread EXCEPT ![p][c] = n]
  <2>1. CASE Finish(p, c)
    BY <2>1 DEF Finish
  <2>2. CASE ~Finish(p, c)
    BY <2>2 DEF ReadCheckpoint
  <2>3. QED BY <2>1, <2>2
<1>2. \/ t.pc = "begin" /\ checkpoint' = checkpoint
      \/ checkpoint' = [checkpoint EXCEPT ![c] = t.to] /\ t.pc = "load" /\ t.queue = {}
  BY DEF ReadCheckpoint, Finish
<1>3. /\ checkpoint \in [Watched -> Nat] /\ t.to \in Nat /\ t.next \in Nat /\ t.next <= t.to + 1
      /\ t.pc = "load" => checkpoint[c] < t.next
  BY TypeParts DEF ThreadTyped, Steady, InOrder, Working, IInv, Shape
<1> HIDE DEF n
<1>4. ASSUME NEW i \in Blocks, fate'[i] # "waiting" PROVE Behind(i)'
  <2>1. Behind(i) /\ i \in Nat
    BY <1>1, <1>4, EventFacts DEF Once, MetBehind, IInv
  <2>2. script[i].contract = c /\ i <= checkpoint[c] => Behind(i)'
    <3>1. SUFFICES ASSUME script[i].contract = c, i <= checkpoint[c] PROVE i <= checkpoint'[c]
      BY <1>1 DEF Behind
    <3>2. QED BY <1>2, <1>3, <2>1, <3>1
  <2>3. (script[i].contract = c /\ Working(t) /\ i < t.next /\ i \notin t.queue) => Behind(i)'
    <3>1. SUFFICES ASSUME script[i].contract = c, Working(t), i < t.next PROVE i <= checkpoint'[c]
      BY <1>1 DEF Behind
    <3>2. QED BY <1>2, <1>3, <2>1, <3>1 DEF Working
  <2>4. \A d \in Watched \ {c} : checkpoint'[d] = checkpoint[d]
    BY <1>2, <1>3
  <2>5. QED BY <1>1, <2>1, <2>2, <2>3, <2>4, BehindStill
<1>5. QED BY <1>1, <1>4, SameFate, QuietOnce

LEMMA QueryOnce ==
    ASSUME IInv, TypeInv, Steady, Once, NEW p \in Pollers, NEW c \in Watched, Query(p, c)
    PROVE  Once'
<1> DEFINE t == thread[p][c]
           first == t.next
           last == ChunkEnd(p, c)
<1>1. PICK failing \in SUBSET {script[i].name : i \in first .. last} :
        /\ thread' = [thread EXCEPT ![p][c].queue = Collected(c, Names[c] \ failing, first, last),
                                    ![p][c].next = last + 1]
        /\ fate' = [i \in Blocks |-> IF i \in first .. last /\ script[i].contract = c /\ script[i].name \in failing
                                     THEN "failed" ELSE fate[i]]
  BY DEF Query
<1>2. UNCHANGED <<script, checkpoint, db>> /\ t.pc = "load" /\ t.queue = {} /\ first <= t.to
  BY DEF Query
<1>3. /\ DOMAIN t = Fields /\ t.to \in Nat /\ first \in Nat /\ checkpoint[c] \in Nat
      /\ thread = [q \in Pollers |-> [d \in Watched |-> thread[q][d]]]
      /\ fate = [i \in Blocks |-> fate[i]]
  BY TypeParts DEF IInv, Shape
<1>4. last \in Nat /\ first <= last
  BY <1>2, <1>3, IndexerAssumption DEF ChunkEnd
<1> DEFINE n == [[t EXCEPT !.queue = Collected(c, Names[c] \ failing, first, last)] EXCEPT !.next = last + 1]
<1>5. thread' = [thread EXCEPT ![p][c] = n]
  BY <1>1, <1>3
<1>6. /\ n.pc = "load" /\ n.next = last + 1 /\ n.queue = Collected(c, Names[c] \ failing, first, last)
      /\ Working(n)
  BY <1>2, <1>3 DEF Fields, Working
<1> HIDE DEF n, last
<1>7. thread'[p][c] = n
  BY <1>3, <1>5
\* No event of the contract from the next chunk on is behind yet.
<1>8. ASSUME NEW i \in Blocks, script[i].contract = c, first <= i PROVE ~Behind(i)
  <2>1. i \in Nat
    BY EventFacts DEF IInv
  <2>2. checkpoint[c] < first
    BY <1>2 DEF Steady, InOrder, Working
  <2>3. \A q \in Pollers : Working(thread[q][c]) => q = p
    BY <1>2 DEF Steady, Alone, Working
  <2>4. QED BY <1>3, <1>8, <2>1, <2>2, <2>3 DEF Behind
<1>9. ASSUME NEW i \in Blocks, script[i].contract = c, i < n.next, i \notin n.queue PROVE Behind(i)'
  BY <1>2, <1>6, <1>7, <1>9, BehindNow
<1>10. ASSUME NEW i \in Blocks, fate'[i] # "waiting" PROVE Behind(i)'
  <2>1. i \in Nat
    BY EventFacts DEF IInv
  <2>2. CASE i \in first .. last /\ script[i].contract = c /\ script[i].name \in failing
    <3>1. i < n.next /\ i \notin n.queue
      BY <1>4, <1>6, <2>1, <2>2 DEF Collected
    <3>2. QED BY <1>9, <2>2, <3>1
  <2>3. CASE ~(i \in first .. last /\ script[i].contract = c /\ script[i].name \in failing)
    <3>1. Behind(i)
      BY <1>1, <1>10, <2>3 DEF Once, MetBehind
    <3>2. script[i].contract = c /\ i <= checkpoint[c] => Behind(i)'
      BY <1>2 DEF Behind
    <3>3. (script[i].contract = c /\ Working(t) /\ i < t.next /\ i \notin t.queue) => Behind(i)'
      <4>1. SUFFICES ASSUME script[i].contract = c, i < first PROVE i < n.next /\ i \notin n.queue
        BY <1>9
      <4>2. QED BY <1>3, <1>4, <1>6, <2>1, <4>1 DEF Collected
    <3>4. \A d \in Watched \ {c} : checkpoint'[d] = checkpoint[d]
      BY <1>2
    <3>5. QED BY <1>2, <1>5, <3>1, <3>2, <3>3, <3>4, BehindStill
  <2>4. QED BY <2>2, <2>3
<1>11. Applied' = Applied
  <2>1. ASSUME NEW i \in Blocks PROVE fate'[i] = "applied" <=> fate[i] = "applied"
    <3>1. CASE i \in first .. last /\ script[i].contract = c /\ script[i].name \in failing
      <4>1. fate[i] = "waiting" /\ fate'[i] = "failed"
        BY <1>1, <1>3, <1>4, <1>8, <3>1 DEF Once, MetBehind
      <4>2. QED BY <4>1
    <3>2. CASE ~(i \in first .. last /\ script[i].contract = c /\ script[i].name \in failing)
      BY <1>1, <3>2
    <3>3. QED BY <3>1, <3>2
  <2>2. Blocks' = Blocks
    BY <1>2 DEF Blocks
  <2>3. QED BY <2>1, <2>2 DEF Applied
<1>12. QED BY <1>2, <1>10, <1>11, QuietOnce

LEMMA LoadOnce ==
    ASSUME IInv, TypeInv, Steady, Once, NEW p \in Pollers, NEW c \in Watched, Load(p, c)
    PROVE  Once'
<1> DEFINE t == thread[p][c]
           cur == Current(p, c)
           e == EventOf(p, c)
           k == Key(e)
<1>1. /\ UNCHANGED <<script, checkpoint, db>> /\ t.pc = "load" /\ t.queue # {}
      /\ e = script[cur] /\ Working(t)
  BY DEF Load, EventOf, Working
<1>2. PICK at \in Rows(k), poolAt \in (IF NeedsPool(e) THEN Rows(PoolKey) ELSE {0}) :
        \/ /\ Return(e, at, poolAt) # "goes on"
           /\ Handled(p, c, Return(e, at, poolAt))
        \/ /\ thread' = [thread EXCEPT ![p][c] = [@ EXCEPT
                  !.pc = IF Kept(e, at) THEN "reopen" ELSE "save",
                  !.at = at, !.image = Image(k, at),
                  !.poolAt = poolAt, !.poolImage = Image(PoolKey, poolAt)]]
           /\ UNCHANGED fate
  BY DEF Load, EventOf
<1>3. CASE Return(e, at, poolAt) # "goes on" /\ Handled(p, c, Return(e, at, poolAt))
  <2> DEFINE outcome == Return(e, at, poolAt)
  <2>1. outcome \in {"applied", "dropped", "failed"}
    BY <1>3 DEF Return
  <2>2. outcome = "applied" => e.name # "VoteCast"
    BY DEF Return, Kept, Keeps
  <2>3. Handled(p, c, outcome)
    BY <1>3
  <2> HIDE DEF outcome, e, cur
  <2>4. /\ MetBehind'
        /\ outcome # "applied" => Applied' = Applied
        /\ outcome = "applied" => Applied' = Applied \cup {cur}
    BY <1>1, <2>1, <2>3, HandledOnce DEF cur
  <2>5. Counted'
    <3>1. CASE outcome # "applied"
      BY <1>1, <2>4, <3>1, CountKept DEF Once
    <3>2. CASE outcome = "applied"
      BY <1>1, <2>2, <2>4, <3>2, CountOther DEF Once
    <3>3. QED BY <3>1, <3>2
  <2>6. QED BY <2>4, <2>5 DEF Once
<1>4. CASE /\ thread' = [thread EXCEPT ![p][c] = [@ EXCEPT
                  !.pc = IF Kept(e, at) THEN "reopen" ELSE "save",
                  !.at = at, !.image = Image(k, at),
                  !.poolAt = poolAt, !.poolImage = Image(PoolKey, poolAt)]]
           /\ UNCHANGED fate
  <2> DEFINE n == [t EXCEPT !.pc = IF Kept(e, at) THEN "reopen" ELSE "save",
                            !.at = at, !.image = Image(k, at),
                            !.poolAt = poolAt, !.poolImage = Image(PoolKey, poolAt)]
  <2>1. thread' = [thread EXCEPT ![p][c] = n]
    BY <1>4
  <2>2. n.pc \in {"reopen", "save"} /\ n.next = t.next /\ n.queue = t.queue /\ Working(n)
    BY TypeParts DEF Fields, Working
  <2> HIDE DEF n
  <2>3. thread'[p][c] = n
    BY <2>1 DEF IInv, Shape
  <2>4. ASSUME NEW i \in Blocks, fate'[i] # "waiting" PROVE Behind(i)'
    <3>1. Behind(i)
      BY <1>4, <2>4 DEF Once, MetBehind
    <3>2. script[i].contract = c /\ i <= checkpoint[c] => Behind(i)'
      BY <1>1 DEF Behind
    <3>3. (script[i].contract = c /\ Working(t) /\ i < t.next /\ i \notin t.queue) => Behind(i)'
      BY <1>1, <2>2, <2>3, BehindNow
    <3>4. \A d \in Watched \ {c} : checkpoint'[d] = checkpoint[d]
      BY <1>1
    <3>5. QED BY <1>1, <2>1, <3>1, <3>2, <3>3, <3>4, BehindStill
  <2>5. Applied' = Applied
    BY <1>1, <1>4, SameFate
  <2>6. QED BY <1>1, <2>4, <2>5, QuietOnce
<1>5. QED BY <1>2, <1>3, <1>4

\* A row is written with the votes of the events applied.
LEMMA CountSaved ==
    ASSUME IInv, TypeInv, Steady, Once, NEW p \in Pollers, NEW c \in Watched, Save(p, c),
           Handled(p, c, "applied"), thread[p][c].queue # {},
           LET t == thread[p][c]  k == Key(EventOf(p, c))
           IN  ~(t.at = 0 /\ k[1] \in UniqueTables /\ db[k] # <<>>)
    PROVE  Counted'
<1> DEFINE cur == Current(p, c)
           e == EventOf(p, c)
           k == Key(e)
<1>1. /\ \A a \in Keys \ {k} : db'[a] = db[a]
      /\ db'[k] # <<>>
      /\ \/ db[k] = <<>> /\ Inserts(e) /\ db'[k][1] = Fresh(e)
         \/ db[k] # <<>> /\ Updates(e) /\ db'[k][1] = Updated(e, Row(k))
  BY RowSaved
<1>2. UNCHANGED <<script, checkpoint>> /\ Working(thread[p][c])
  BY DEF Save, Working
<1>3. Applied' = Applied \cup {cur} /\ cur \notin Applied
  BY <1>2, HandledOnce
<1>4. cur \in Blocks /\ e = script[cur] /\ k \in Keys /\ Shape
  BY QueueFacts DEF IInv
<1>5. CASE k # ProposalKey
  <2>1. e.name # "VoteCast"
    BY <1>4, <1>5, NamedKeys DEF ProposalKey
  <2>2. ProposalKey \in Keys => db'[ProposalKey] = db[ProposalKey]
    BY <1>1, <1>5
  <2> HIDE DEF e, k, cur
  <2>3. QED BY <1>2, <1>3, <1>4, <2>1, <2>2, CountOther DEF Once
<1>6. CASE k = ProposalKey
  <2>1. ProposalKey[1] = "proposal"
    BY DEF ProposalKey
  <2>2. e.name \in {"ProposalCreated", "VoteCast", "ProposalExecuted", "ProposalCancelled"}
    <3>1. e.contract \in Contracts /\ e.name \in Names[e.contract]
      BY <1>4, EventsOfScript
    <3>2. Home(k[1]) = e.contract
      BY <3>1, KeyOfEvent
    <3>3. e.contract = "EqubGovernor"
      BY <1>6, <2>1, <3>2 DEF Home
    <3> HIDE DEF e, k
    <3>4. QED BY <3>1, <3>3 DEF Names
  <2>3. IsFiniteSet(VotesFor) /\ IsFiniteSet(VotesAgainst)
    BY <1>4, VotesFinite
  <2>4. Keys' = Keys /\ Blocks' = Blocks
    BY <1>2 DEF Keys, Blocks
  <2> HIDE DEF e, k, cur
  <2>5. CASE db[k] = <<>> /\ Inserts(e) /\ db'[k][1] = Fresh(e)
    <3>1. e.name = "ProposalCreated"
      BY <2>2, <2>5 DEF Inserts
    <3>2. Row(ProposalKey)'.yes = 0 /\ Row(ProposalKey)'.no = 0
      BY <1>6, <2>5, <3>1 DEF Fresh, Row
    <3>3. \A i \in Applied : script[i].name # "VoteCast"
      <4> SUFFICES ASSUME NEW i \in Applied, script[i].name = "VoteCast" PROVE FALSE
        OBVIOUS
      <4>1. Key(script[i]) = ProposalKey
        BY <1>4, AppliedFacts, NamedKeys DEF ProposalKey
      <4>2. QED BY <1>6, <2>5, <4>1 DEF Steady, RowsExist
    <3>4. VotesFor' = {} /\ VotesAgainst' = {}
      BY <1>2, <1>3, <1>4, <3>1, <3>3 DEF VotesFor, VotesAgainst
    <3>5. QED BY <3>2, <3>4, FS_EmptySet DEF Counted
  <2>6. CASE db[k] # <<>> /\ Updates(e) /\ db'[k][1] = Updated(e, Row(k))
    <3> DEFINE r == Row(ProposalKey)
    <3>1. r \in ProposalRows /\ r.yes = Cardinality(VotesFor) /\ r.no = Cardinality(VotesAgainst)
      BY <1>4, <1>6, <2>1, <2>6, OneRow, ValuesOf DEF Once, Counted
    <3>2. r.yes \in Nat /\ r.no \in Nat /\ DOMAIN r = {"yes", "no", "status"}
      BY <3>1 DEF ProposalRows
    <3>3. Row(ProposalKey)' = Updated(e, r)
      BY <1>6, <2>6 DEF Row
    <3> HIDE DEF r
    <3>4. CASE e.name = "VoteCast" /\ e.arg = 1
      <4>1. Row(ProposalKey)'.yes = r.yes + 1 /\ Row(ProposalKey)'.no = r.no
        BY <3>2, <3>3, <3>4 DEF Updated
      <4>2. VotesFor' = VotesFor \cup {cur} /\ VotesAgainst' = VotesAgainst /\ cur \notin VotesFor
        BY <1>2, <1>3, <1>4, <3>4 DEF VotesFor, VotesAgainst
      <4>3. Cardinality(VotesFor \cup {cur}) = Cardinality(VotesFor) + 1
        BY <2>3, <4>2, FS_AddElement
      <4>4. QED BY <3>1, <4>1, <4>2, <4>3 DEF Counted
    <3>5. CASE e.name = "VoteCast" /\ e.arg # 1
      <4>1. Row(ProposalKey)'.yes = r.yes /\ Row(ProposalKey)'.no = r.no + 1
        BY <3>2, <3>3, <3>5 DEF Updated
      <4>2. VotesFor' = VotesFor /\ VotesAgainst' = VotesAgainst \cup {cur} /\ cur \notin VotesAgainst
        BY <1>2, <1>3, <1>4, <3>5 DEF VotesFor, VotesAgainst
      <4>3. Cardinality(VotesAgainst \cup {cur}) = Cardinality(VotesAgainst) + 1
        BY <2>3, <4>2, FS_AddElement
      <4>4. QED BY <3>1, <4>1, <4>2, <4>3 DEF Counted
    <3>6. CASE e.name # "VoteCast"
      <4>1. e.name \in {"ProposalExecuted", "ProposalCancelled"}
        BY <2>2, <2>6, <3>6 DEF Updates
      <4>2. Row(ProposalKey)'.yes = r.yes /\ Row(ProposalKey)'.no = r.no
        BY <3>2, <3>3, <4>1 DEF Updated
      <4>3. VotesFor' = VotesFor /\ VotesAgainst' = VotesAgainst
        BY <1>2, <1>3, <1>4, <3>6 DEF VotesFor, VotesAgainst
      <4>4. QED BY <3>1, <4>2, <4>3 DEF Counted
    <3>7. QED BY <3>4, <3>5, <3>6
  <2>7. QED BY <1>1, <2>5, <2>6 DEF k, e
<1>7. QED BY <1>5, <1>6

LEMMA SaveOnce ==
    ASSUME IInv, TypeInv, Steady, Once, NEW p \in Pollers, NEW c \in Watched, Save(p, c)
    PROVE  Once'
<1> DEFINE t == thread[p][c]
           e == EventOf(p, c)
           k == Key(e)
           refused == t.at = 0 /\ k[1] \in UniqueTables /\ db[k] # <<>>
<1>1. /\ UNCHANGED <<script, checkpoint>> /\ t.pc = "save"
      /\ refused => UNCHANGED db /\ Handled(p, c, "failed")
      /\ ~refused => \/ Reopens(e, t.poolImage)
                        /\ thread' = [thread EXCEPT ![p][c].pc = "reopen"] /\ UNCHANGED fate
                     \/ Handled(p, c, "applied")
  BY DEF Save, EventOf
<1>2. t.queue # {} /\ Working(t)
  BY <1>1, TypeParts DEF ThreadTyped, Working
<1>3. CASE refused
  <2>1. MetBehind' /\ Applied' = Applied
    BY <1>1, <1>2, <1>3, HandledOnce
  <2>2. Counted'
    BY <1>1, <1>3, <2>1, CountKept DEF Once
  <2>3. QED BY <2>1, <2>2 DEF Once
<1>4. CASE ~refused /\ Handled(p, c, "applied")
  <2>1. MetBehind'
    BY <1>1, <1>2, <1>4, HandledOnce
  <2>2. Counted'
    BY <1>2, <1>4, CountSaved
  <2>3. QED BY <2>1, <2>2 DEF Once
<1>5. CASE /\ ~refused /\ Reopens(e, t.poolImage)
           /\ thread' = [thread EXCEPT ![p][c].pc = "reopen"] /\ UNCHANGED fate
  <2> DEFINE n == [t EXCEPT !.pc = "reopen"]
  <2>1. thread' = [thread EXCEPT ![p][c] = n] /\ e.name = "ContributionReceived"
    BY <1>5 DEF Reopens
  <2>2. n.next = t.next /\ n.queue = t.queue /\ Working(n)
    BY TypeParts DEF Fields, Working
  <2> HIDE DEF n
  <2>3. thread'[p][c] = n
    BY <2>1 DEF IInv, Shape
  <2>4. ASSUME NEW i \in Blocks, fate'[i] # "waiting" PROVE Behind(i)'
    <3>1. Behind(i)
      BY <1>5, <2>4 DEF Once, MetBehind
    <3>2. script[i].contract = c /\ i <= checkpoint[c] => Behind(i)'
      BY <1>1 DEF Behind
    <3>3. (script[i].contract = c /\ Working(t) /\ i < t.next /\ i \notin t.queue) => Behind(i)'
      BY <1>1, <2>2, <2>3, BehindNow
    <3>4. \A d \in Watched \ {c} : checkpoint'[d] = checkpoint[d]
      BY <1>1
    <3>5. QED BY <1>1, <2>1, <3>1, <3>2, <3>3, <3>4, BehindStill
  <2>5. Applied' = Applied /\ Blocks' = Blocks
    BY <1>1, <1>5, SameFate DEF Blocks
  <2>6. ProposalKey \in Keys => db'[ProposalKey] = db[ProposalKey]
    <3>1. k[1] = "contribution" /\ \A a \in Keys \ {k} : db'[a] = db[a]
      BY <1>2, <1>5, <2>1, OwnRows, RowSaved
    <3>2. k # ProposalKey
      BY <3>1 DEF ProposalKey
    <3>3. QED BY <3>1, <3>2
  <2>7. Counted'
    BY <1>1, <2>5, <2>6, CountKept DEF Once
  <2>8. QED BY <2>4, <2>5, <2>7 DEF Once, MetBehind
<1>6. QED BY <1>1, <1>3, <1>4, <1>5

LEMMA ReopenOnce ==
    ASSUME IInv, TypeInv, Steady, Once, NEW p \in Pollers, NEW c \in Watched,
           ReopenPool(p, c) \/ FailSave(p, c)
    PROVE  Once'
<1>1. /\ UNCHANGED <<script, checkpoint>> /\ thread[p][c].pc \in {"save", "reopen"}
      /\ ReopenPool(p, c) => thread[p][c].pc = "reopen" /\ Handled(p, c, "applied")
      /\ ~ReopenPool(p, c) => Handled(p, c, "failed") /\ UNCHANGED db
  BY DEF ReopenPool, FailSave
<1>2. /\ thread[p][c].queue # {} /\ Working(thread[p][c])
      /\ thread[p][c].pc = "reopen" => EventOf(p, c).name = "ContributionReceived"
  BY <1>1, TypeParts DEF ThreadTyped, Working
<1>3. CASE ~ReopenPool(p, c)
  <2>1. MetBehind' /\ Applied' = Applied
    BY <1>1, <1>2, <1>3, HandledOnce
  <2>2. Counted'
    BY <1>1, <1>3, <2>1, CountKept DEF Once
  <2>3. QED BY <2>1, <2>2 DEF Once
<1>4. CASE ReopenPool(p, c)
  <2> DEFINE cur == Current(p, c)
  <2>1. MetBehind' /\ Applied' = Applied \cup {cur}
    BY <1>1, <1>2, <1>4, HandledOnce
  <2>2. script[cur].name # "VoteCast"
    BY <1>1, <1>2, <1>4 DEF EventOf
  <2>3. ProposalKey # PoolKey
    BY DEF ProposalKey, PoolKey
  <2>4. ProposalKey \in Keys => db'[ProposalKey] = db[ProposalKey]
    BY <1>4, <2>3 DEF ReopenPool, TypeInv, RowsTyped
  <2> HIDE DEF cur
  <2>5. Counted'
    BY <1>1, <2>1, <2>2, <2>4, CountOther DEF Once
  <2>6. QED BY <2>1, <2>5 DEF Once
<1>5. QED BY <1>3, <1>4

LEMMA StillOnce ==
    ASSUME IInv, TypeInv, Steady, Once,
           Mine \/ UNCHANGED vars \/ (\E k \in Keys : RecordContribution(k))
           \/ (\E p \in Pollers : StartPoll(p) /\ Idle)
    PROVE  Once'
<1>1. UNCHANGED <<script, checkpoint, fate>>
  BY DEF Mine, vars, RecordContribution, StartPoll
<1>2. Applied' = Applied /\ Blocks' = Blocks
  BY <1>1, SameFate DEF Blocks
<1>3. ProposalKey \in Keys => db'[ProposalKey] = db[ProposalKey]
  <2>1. ASSUME NEW k \in Keys, RecordContribution(k) PROVE ProposalKey \in Keys => db'[ProposalKey] = db[ProposalKey]
    <3>1. k # ProposalKey
      BY <2>1 DEF RecordContribution, ProposalKey
    <3>2. QED BY <2>1, <3>1 DEF RecordContribution, TypeInv, RowsTyped
  <2>2. CASE Mine \/ UNCHANGED vars \/ \E p \in Pollers : StartPoll(p)
    BY <2>2 DEF Mine, vars, StartPoll
  <2>3. QED BY <2>1, <2>2
<1>4. Counted'
  BY <1>1, <1>2, <1>3, CountKept DEF Once
<1>5. ASSUME NEW i \in Blocks, fate'[i] # "waiting" PROVE Behind(i)'
  <2>1. Behind(i)
    BY <1>1, <1>5 DEF Once, MetBehind
  <2>2. CASE Mine \/ UNCHANGED vars \/ \E k \in Keys : RecordContribution(k)
    <3>1. UNCHANGED thread
      BY <2>2 DEF Mine, vars, RecordContribution
    <3>2. QED BY <1>1, <2>1, <3>1 DEF Behind
  <2>3. CASE Idle
    <3>1. script[i].contract \in Watched
      BY EventFacts DEF IInv
    <3>2. \A q \in Pollers : ~Working(thread[q][script[i].contract])
      BY <2>3, <3>1 DEF Idle, Active, Working
    <3>3. QED BY <1>1, <2>1, <3>2 DEF Behind
  <2>4. QED BY <2>2, <2>3
<1>6. QED BY <1>2, <1>4, <1>5 DEF Once, MetBehind

LEMMA InitOnce == Init => OnceInv
<1> SUFFICES ASSUME Init PROVE Once
  BY DEF OnceInv
<1>1. \A i \in Blocks : fate[i] = "waiting"
  BY DEF Init
<1>2. \A k \in Keys : db[k] = <<>>
  BY DEF Init
<1>3. QED BY <1>1, <1>2 DEF Once, MetBehind, Counted

LEMMA StepOnce == IInv /\ TypeInv /\ SteadyInv /\ OnceInv /\ [Next]_vars => OnceInv'
<1> SUFFICES ASSUME IInv, TypeInv, SteadyInv, OnceInv, [Next]_vars, upset' = {} PROVE Once'
  BY DEF OnceInv
<1>1. \/ Mine \/ UNCHANGED vars \/ (\E k \in Keys : RecordContribution(k))
      \/ \E p \in Pollers : StartPoll(p) /\ Idle
      \/ \E p \in Pollers, c \in Watched : Step(p, c) \/ FailSave(p, c)
  <2>1. ~Restart /\ ~Reindex /\ \A p \in Pollers, c \in Watched : ~FailCheckpoint(p, c)
    BY DEF Restart, Reindex, FailCheckpoint
  <2>2. \A p \in Pollers : StartPoll(p) => Idle
    BY DEF StartPoll
  <2>3. QED BY <2>1, <2>2 DEF Next
<1>2. upset = {}
  <2>1. ASSUME NEW p \in Pollers, NEW c \in Watched, Step(p, c) \/ FailSave(p, c) PROVE upset = {}
    BY <2>1 DEF Step, ReadCheckpoint, Query, Finish, Load, Save, ReopenPool, FailSave
  <2>2. ASSUME NEW p \in Pollers, StartPoll(p) PROVE upset = {}
    BY <2>2 DEF StartPoll
  <2>3. CASE Mine \/ UNCHANGED vars \/ \E k \in Keys : RecordContribution(k)
    BY <2>3 DEF Mine, vars, RecordContribution
  <2>4. QED BY <1>1, <2>1, <2>2, <2>3
<1>3. Steady /\ Once
  BY <1>2 DEF SteadyInv, OnceInv
<1>4. ASSUME NEW p \in Pollers, NEW c \in Watched, Step(p, c) \/ FailSave(p, c) PROVE Once'
  BY <1>3, <1>4, PlaceOnce, QueryOnce, LoadOnce, SaveOnce, ReopenOnce DEF Step
<1>5. QED BY <1>1, <1>3, <1>4, StillOnce

LEMMA OnceAgrees == IInv /\ TypeInv /\ SteadyInv /\ OnceInv => VotesCountedOnce
<1> DEFINE votes(support) == Cardinality({i \in Emitted("VoteCast") : script[i].arg = support})
<1> SUFFICES ASSUME IInv, TypeInv, SteadyInv, OnceInv, upset = {}, ProposalKey \in Keys, Settled(ProposalKey)
             PROVE  Row(ProposalKey).yes = votes(1) /\ Row(ProposalKey).no = votes(0)
  BY DEF VotesCountedOnce, VotesAgree, ProposalKey
<1>1. /\ Len(db[ProposalKey]) = 1
      /\ \A i \in 1 .. head : i \in Blocks /\ i \in Nat
      /\ \A i \in 1 .. head : Concerns(script[i], ProposalKey) => i \in Applied
  BY SettledFacts
<1>2. Row(ProposalKey).yes = Cardinality(VotesFor) /\ Row(ProposalKey).no = Cardinality(VotesAgainst)
  <2>1. Len(<<>>) = 0
    OBVIOUS
  <2>2. db[ProposalKey] # <<>>
    BY <1>1, <2>1
  <2>3. QED BY <2>2 DEF OnceInv, Once, Counted
<1>3. ASSUME NEW i \in Emitted("VoteCast") PROVE i \in Applied /\ script[i].name = "VoteCast"
  <2>1. i \in 1 .. head /\ script[i].name = "VoteCast"
    BY DEF Emitted
  <2>2. Key(script[i]) = ProposalKey
    BY <1>1, <2>1, NamedKeys DEF ProposalKey, IInv
  <2>3. QED BY <1>1, <2>1, <2>2 DEF Concerns
<1>4. ASSUME NEW i \in Applied, script[i].name = "VoteCast"
      PROVE  i \in Emitted("VoteCast") /\ script[i].arg \in {0, 1}
  <2>1. i \in Blocks /\ i \in Nat \ {0} /\ script[i].contract \in Watched /\ head \in Nat
    BY <1>4, AppliedFacts, EventFacts, TypeParts DEF IInv
  <2>2. script[i].arg \in {0, 1}
    BY <1>4, <2>1, ScriptsAssumption DEF IInv, Shape, Blocks
  <2>3. Behind(i)
    BY <1>4, <2>1 DEF OnceInv, Once, MetBehind, Applied
  <2>4. i <= head
    <3>1. CASE i <= checkpoint[script[i].contract]
      BY <2>1, <3>1 DEF Settled
    <3>2. \A q \in Pollers : ~Working(thread[q][script[i].contract])
      BY <2>1 DEF Settled, Idle, Active, Working
    <3>3. QED BY <2>3, <3>1, <3>2 DEF Behind
  <2>5. QED BY <1>4, <2>1, <2>2, <2>4 DEF Emitted
<1>5. VotesFor = {i \in Emitted("VoteCast") : script[i].arg = 1}
  BY <1>3, <1>4 DEF VotesFor
<1>6. VotesAgainst = {i \in Emitted("VoteCast") : script[i].arg = 0}
  BY <1>3, <1>4 DEF VotesAgainst
<1>7. QED BY <1>2, <1>5, <1>6

\* The counts of a settled proposal are the votes of the chain, for any logs and
\* whatever query or save failed, as long as no poll died or overlapped another
\* and nothing was indexed again (handleVoteCast adds one each time it runs).
THEOREM VotesAreCountedOnce == Spec => []VotesCountedOnce
<1>1. IInv /\ TypeInv /\ SteadyInv /\ OnceInv => VotesCountedOnce
  BY OnceAgrees
<1>2. QED BY <1>1, InitIInv, StepIInv, InitTyped, StepTyped, InitSteady, StepSteady, InitOnce, StepOnce, PTL DEF Spec
=============================================================================
