------------------------------ MODULE TasksProofs ------------------------------
(***************************************************************************)
(* For any number of threads, frames and variables a frame has one owner,  *)
(* dies with it, and is resumed when what it awaits has its result.        *)
(*                                                                         *)
(* The argument: whoever can touch a variable owns no frame that runs or   *)
(* waits, for such a frame is owned by the coroutine that awaits it or by  *)
(* a thread on whose stack it is.  What a destructor destroys is therefore *)
(* never active.                                                           *)
(***************************************************************************)
EXTENDS Tasks, FiniteSetTheorems, TLAPS

Active == {f \in Frame : state[f] \in {"running", "awaiting"}}

\* Whose variables may have a task: of those of a coroutine that is done only
\* the parameters.
Keeps(h, v) ==
  h \in Frame => \/ state[h] \in {"created", "running", "awaiting"}
                 \/ state[h] = "done" /\ v \in Parameter

\* Handles form a forest of frames that are alive.  The pool's wrappers belong
\* to nobody.
HandleInv ==
  /\ \A h, i \in Holder, v, w \in Variable :
       handle[h][v] # None /\ handle[h][v] = handle[i][w] => h = i /\ v = w
  /\ \A h \in Holder, v \in Variable : handle[h][v] # None =>
       /\ state[handle[h][v]] \notin {"none", "destroyed"}
       /\ handle[h][v] \notin wrapper
       /\ Keeps(h, v)

LeakInv ==
  \A f \in Frame :
    \/ state[f] \in {"none", "destroyed"}
    \/ f \in wrapper \cup overwritten
    \/ \E h \in Holder, v \in Variable : handle[h][v] = f

WrapperInv == \A f \in wrapper : cont[f] = None /\ state[f] \notin {"none", "done"}

\* A coroutine runs if and only if a thread runs it, and one thread only.
RunInv ==
  /\ \A t \in Thread : current[t] # None => state[current[t]] = "running"
  /\ \A t, s \in Thread : current[t] # None /\ current[t] = current[s] => t = s
  /\ \A f \in Frame : state[f] = "running" => \E t \in Thread : current[t] = f

\* A continuation awaits the one active frame it is the continuation of, and
\* owns it.
ContInv ==
  /\ \A g \in Frame : state[g] \in {"none", "created"} => cont[g] = None
  /\ \A g \in Active : cont[g] # None =>
       /\ state[cont[g]] = "awaiting"
       /\ \E v \in Variable : handle[cont[g]][v] = g
       /\ \A g2 \in Active : cont[g2] = cont[g] => g2 = g
  /\ \A f \in Frame : state[f] = "awaiting" => \E g \in Active : cont[g] = f

\* The frames of thread t's stack: the coroutine that runs there, its
\* continuation, the continuation of that, and so on.
ContainsStack(t, C) ==
  /\ current[t] # None => current[t] \in C
  /\ \A g \in C : cont[g] # None => cont[g] \in C
OnStack(t, f) == \A C \in SUBSET Frame : ContainsStack(t, C) => f \in C

\* The owner of an active frame awaits it or has it on its stack.
HolderWaits(h, f) ==
  /\ h \in Frame => state[h] = "awaiting" /\ cont[f] = h
  /\ h \in Thread => OnStack(h, f)
OwnerInv ==
  \A f \in Active \ wrapper :
    \E h \in Holder : HolderWaits(h, f) /\ \E v \in Variable : handle[h][v] = f

IInv ==
  /\ TypeOK /\ HandleInv /\ LeakInv /\ WrapperInv
  /\ RunInv /\ ContInv /\ OwnerInv

-----------------------------------------------------------------------------
(* What a destructor reaches. *)

\* The frames that die with S contain S and what they own, and nothing else.
LEMMA DoomedFacts ==
  ASSUME TypeOK, NEW S \in SUBSET Frame
  PROVE  /\ S \subseteq Doomed(S) /\ Doomed(S) \subseteq Frame
         /\ Closed(Doomed(S))
         /\ \A C \in SUBSET Frame : S \subseteq C /\ Closed(C) => Doomed(S) \subseteq C
         /\ \A f \in Doomed(S) \ S :
              \E g \in Doomed(S), v \in Variable : handle[g][v] = f
<1> DEFINE D == Doomed(S)
<1>1. /\ S \subseteq D /\ D \subseteq Frame
      /\ \A C \in SUBSET Frame : S \subseteq C /\ Closed(C) => D \subseteq C
  BY DEF Doomed
<1>2. Closed(D)
  <2> SUFFICES ASSUME NEW g \in D, NEW v \in Variable, handle[g][v] # None
               PROVE  handle[g][v] \in D
    BY DEF Closed
  <2>1. handle[g][v] \in Frame
    BY <1>1 DEF TypeOK, Holder
  <2>2. ASSUME NEW C \in SUBSET Frame, S \subseteq C, Closed(C)
        PROVE  handle[g][v] \in C
    BY <1>1, <2>2 DEF Closed
  <2> QED
    BY <2>1, <2>2 DEF Doomed
<1>3. ASSUME NEW f \in D \ S, \A g \in D, v \in Variable : handle[g][v] # f
      PROVE  FALSE
  <2>1. Closed(D \ {f})
    BY <1>2, <1>3 DEF Closed
  <2>2. D \subseteq D \ {f}
    BY <1>1, <2>1
  <2> QED
    BY <2>2
<1> QED
  BY <1>1, <1>2, <1>3

\* A frame that neither runs nor waits owns no frame that does; nor does one
\* that runs, or a thread in its own function.
LEMMA OwnsQuiet ==
  ASSUME IInv, NEW h \in Holder, NEW v \in Variable, handle[h][v] # None,
         h \in Frame => state[h] # "awaiting",
         h \in Thread => current[h] = None
  PROVE  /\ handle[h][v] \in Frame \ wrapper
         /\ state[handle[h][v]] \in {"created", "done"}
<1> DEFINE g == handle[h][v]
<1>1. g \in Frame /\ g \notin wrapper /\ state[g] \notin {"none", "destroyed"}
  BY DEF IInv, HandleInv, TypeOK
<1>2. ASSUME g \in Active PROVE FALSE
  <2>1. PICK i \in Holder : HolderWaits(i, g) /\ \E w \in Variable : handle[i][w] = g
    BY <1>1, <1>2 DEF IInv, OwnerInv
  <2>2. i = h
    BY <2>1 DEF IInv, HandleInv
  <2>3. h \in Thread /\ OnStack(h, g) /\ current[h] = None
    BY <2>1, <2>2 DEF HolderWaits, Holder
  <2>4. ContainsStack(h, {})
    BY <2>3 DEF ContainsStack
  <2> QED
    BY <2>3, <2>4 DEF OnStack
<1>3. state[g] \in {"none", "created", "running", "awaiting", "done", "destroyed"}
  BY <1>1 DEF IInv, TypeOK
<1> QED
  BY <1>1, <1>2, <1>3 DEF Active

\* Only frames that do not wait own what dies with S.
LEMMA DoomedQuiet ==
  ASSUME IInv, NEW S \in SUBSET Frame, \A g \in S : state[g] # "awaiting"
  PROVE  \A f \in Doomed(S) \ S : f \notin wrapper /\ state[f] \in {"created", "done"}
<1> DEFINE C == S \cup {f \in Frame : f \notin wrapper /\ state[f] \in {"created", "done"}}
<1>1. Closed(C)
  <2> SUFFICES ASSUME NEW g \in C, NEW v \in Variable, handle[g][v] # None
               PROVE  handle[g][v] \in C
    BY DEF Closed
  <2>1. g \in Frame /\ g \in Holder /\ g \notin Thread /\ state[g] # "awaiting"
    BY TasksAssumption DEF Holder
  <2> QED
    BY <2>1, OwnsQuiet
<1>2. C \in SUBSET Frame /\ S \subseteq C
  OBVIOUS
<1>3. Doomed(S) \subseteq C
  BY <1>1, <1>2, DoomedFacts DEF IInv
<1> QED
  BY <1>3

\* A variable has the handle of a frame that dies if it dies itself or has the
\* handle of a frame in S.
LEMMA DoomedOwners ==
  ASSUME IInv, NEW S \in SUBSET Frame, NEW h \in Holder, NEW v \in Variable,
         handle[h][v] # None
  PROVE  handle[h][v] \in Doomed(S) <=> h \in Doomed(S) \/ handle[h][v] \in S
<1>1. TypeOK
  BY DEF IInv
<1>2. ASSUME handle[h][v] \in Doomed(S), handle[h][v] \notin S PROVE h \in Doomed(S)
  <2>1. PICK g \in Doomed(S), w \in Variable : handle[g][w] = handle[h][v]
    BY <1>1, <1>2, DoomedFacts
  <2>2. g \in Holder
    BY <1>1, DoomedFacts DEF Holder
  <2> QED
    BY <2>1, <2>2 DEF IInv, HandleInv
<1> QED
  BY <1>1, <1>2, DoomedFacts DEF Closed

\* What is left of the handles: those of the frames that live on.
Kept(D, h, v) == IF handle[h][v] \in D THEN None ELSE handle[h][v]

\* A destructor, or several: the frames in D die, and no variable keeps the
\* handle of one.
Dropped(D) ==
  /\ \A h \in Holder, v \in Variable : handle'[h][v] = Kept(D, h, v)
  /\ \A f \in D : state'[f] = "destroyed"

\* The handles form a forest after it if the others lose no live frame.
LEMMA DropKeepsForest ==
  ASSUME IInv, NEW S \in SUBSET Frame, NEW D, D = Doomed(S), Dropped(D),
         \A f \in Frame \ D : \/ state'[f] = state[f]
                              \/ /\ state[f] \in {"running", "awaiting"}
                                 /\ state'[f] = "running"
                              \/ /\ state[f] = "running" /\ state'[f] = "done"
                                 /\ \A v \in Variable \ Parameter :
                                      handle[f][v] # None => handle[f][v] \in D,
         wrapper' = wrapper, overwritten' = overwritten
  PROVE  HandleInv' /\ LeakInv'
<1>1. D \subseteq Frame /\ Closed(D)
  BY DoomedFacts DEF IInv
<1>2. HandleInv'
  <2>1. \A h, i \in Holder, v, w \in Variable :
          handle'[h][v] # None /\ handle'[h][v] = handle'[i][w] => h = i /\ v = w
    BY DEF Dropped, Kept, IInv, HandleInv
  <2>2. ASSUME NEW h \in Holder, NEW v \in Variable, handle'[h][v] # None
        PROVE  /\ state'[handle'[h][v]] \notin {"none", "destroyed"}
               /\ handle'[h][v] \notin wrapper'
               /\ Keeps(h, v)'
    <3>1. handle'[h][v] = handle[h][v] /\ handle[h][v] \notin D /\ handle[h][v] # None
      BY <2>2 DEF Dropped, Kept
    <3>2. handle[h][v] \in Frame
      BY <3>1 DEF IInv, TypeOK
    <3>3. /\ state'[handle'[h][v]] \notin {"none", "destroyed"}
          /\ handle'[h][v] \notin wrapper'
      BY <3>1, <3>2 DEF IInv, HandleInv
    <3>4. ASSUME h \in Frame
          PROVE  \/ state'[h] \in {"created", "running", "awaiting"}
                 \/ state'[h] = "done" /\ v \in Parameter
      <4>1. h \notin D
        BY <1>1, <3>1 DEF Closed
      <4>2. \/ state[h] \in {"created", "running", "awaiting"}
            \/ state[h] = "done" /\ v \in Parameter
        BY <3>1, <3>4 DEF IInv, HandleInv, Keeps
      <4>3. state[h] = "running" /\ state'[h] = "done" =>
              state'[h] = state[h] \/ v \in Parameter
        BY <3>1, <3>4, <4>1
      <4> QED
        BY <3>4, <4>1, <4>2, <4>3
    <3> QED
      BY <3>3, <3>4 DEF Keeps
  <2> QED
    BY <2>1, <2>2 DEF HandleInv
<1>3. LeakInv'
  <2> SUFFICES ASSUME NEW f \in Frame, state'[f] \notin {"none", "destroyed"},
                      f \notin wrapper \cup overwritten
               PROVE  \E h \in Holder, v \in Variable : handle'[h][v] = f
    BY DEF LeakInv
  <2>1. f \notin D /\ state[f] \notin {"none", "destroyed"}
    BY DEF Dropped
  <2>2. PICK h \in Holder, v \in Variable : handle[h][v] = f
    BY <2>1 DEF IInv, LeakInv
  <2> QED
    BY <2>1, <2>2 DEF Dropped, Kept
<1> QED
  BY <1>2, <1>3

\* Whoever runs is a running coroutine, or the function of a thread that runs
\* no coroutine.
LEMMA RunnerFacts ==
  ASSUME IInv, NEW t \in Thread, NEW h \in Holder, Runs(t, h)
  PROVE  /\ h \in Frame => state[h] = "running" /\ current[t] = h
         /\ h \in Thread => h = t /\ current[t] = None
         /\ h \notin wrapper
<1>1. current[t] \in Frame \cup {None} /\ None \notin Thread \cup Frame
  BY TasksAssumption DEF IInv, TypeOK
<1> QED
  BY <1>1, TasksAssumption DEF Runs, Scope, IInv, RunInv

\* Steps that start and end no frame and change no waiting frame's variables.
LEMMA Rearrange ==
  ASSUME IInv, NEW h \in Holder,
         h \in Frame => state[h] # "awaiting",
         h \in Thread => current[h] = None,
         \A i \in Holder, v \in Variable :
           \/ handle'[i][v] = handle[i][v]
           \/ i = h
           \/ i \in Frame /\ state[i] = "none",
         \A f \in Frame : \/ state'[f] = state[f]
                          \/ state[f] = "none" /\ state'[f] = "created",
         wrapper \subseteq wrapper',
         cont' = cont, current' = current
  PROVE  RunInv' /\ ContInv' /\ OwnerInv'
<1>1. Active' = Active
  BY DEF Active
<1>2. RunInv'
  <2>1. \A t \in Thread : current[t] # None => current[t] \in Frame
    BY DEF IInv, TypeOK
  <2> QED
    BY <2>1 DEF IInv, RunInv
<1>3. ContInv'
  <2>1. \A g \in Frame : cont[g] # None => cont[g] \in Frame
    BY DEF IInv, TypeOK
  <2>2. \A g \in Frame : state'[g] \in {"none", "created"} => cont[g] = None
    BY DEF IInv, ContInv
  <2>3. ASSUME NEW g \in Active, cont[g] # None
        PROVE  /\ state'[cont[g]] = "awaiting"
               /\ \E v \in Variable : handle'[cont[g]][v] = g
               /\ \A g2 \in Active : cont[g2] = cont[g] => g2 = g
    <3>1. /\ state[cont[g]] = "awaiting"
          /\ \A g2 \in Active : cont[g2] = cont[g] => g2 = g
      BY <2>3 DEF IInv, ContInv
    <3>2. PICK v \in Variable : handle[cont[g]][v] = g
      BY <2>3 DEF IInv, ContInv
    <3>3. cont[g] \in Frame /\ cont[g] \in Holder
      BY <2>1, <2>3 DEF Active, Holder
    <3>4. handle'[cont[g]][v] = g
      BY <3>1, <3>2, <3>3
    <3> QED
      BY <3>1, <3>3, <3>4
  <2>4. \A f \in Frame : state'[f] = "awaiting" => \E g \in Active : cont[g] = f
    BY DEF IInv, ContInv
  <2> QED
    BY <1>1, <2>2, <2>3, <2>4 DEF ContInv
<1>4. OwnerInv'
  <2> SUFFICES ASSUME NEW g \in Active, g \notin wrapper'
               PROVE  \E i \in Holder : HolderWaits(i, g)' /\ \E v \in Variable : handle'[i][v] = g
    BY <1>1 DEF OwnerInv
  <2>1. PICK i \in Holder : HolderWaits(i, g) /\ \E v \in Variable : handle[i][v] = g
    BY DEF IInv, OwnerInv
  <2>2. PICK v \in Variable : handle[i][v] = g
    BY <2>1
  <2>3. g # None
    BY TasksAssumption DEF Active
  <2>4. HolderWaits(i, g)'
    BY <2>1 DEF HolderWaits, OnStack, ContainsStack
  <2>5. i # h
    <3>1. ASSUME i = h PROVE state[g] \in {"created", "done"}
      BY <2>2, <2>3, <3>1, OwnsQuiet
    <3> QED
      BY <3>1 DEF Active
  <2>6. handle'[i][v] = g
    BY <2>1, <2>2, <2>5 DEF HolderWaits
  <2> QED
    BY <2>4, <2>6
<1> QED
  BY <1>2, <1>3, <1>4

-----------------------------------------------------------------------------
(* The steps of a body that start and end no frame. *)

LEMMA MoveConstructStep ==
  ASSUME IInv, NEW t \in Thread, NEW h \in Holder, NEW d \in Variable,
         NEW s \in Variable, MoveConstruct(t, h, d, s)
  PROVE  IInv'
<1>1. /\ h \in Frame => state[h] = "running" /\ current[t] = h
      /\ h \in Thread => h = t /\ current[t] = None
  BY RunnerFacts DEF MoveConstruct
<1>2. \A i \in Holder, v \in Variable : handle'[i][v] =
        IF i = h /\ v = s THEN None ELSE IF i = h /\ v = d THEN handle[h][s]
        ELSE handle[i][v]
  BY DEF MoveConstruct, Moved, IInv, TypeOK
<1>3. d # s /\ handle[h][d] = None /\ handle[h][s] # None /\ UNCHANGED <<state, promises, current, queue, overwritten>>
  BY DEF MoveConstruct
<1>4. TypeOK'
  BY <1>3 DEF MoveConstruct, Moved, IInv, TypeOK, promises
<1>5. HandleInv'
  <2>1. \A i, j \in Holder, v, w \in Variable :
          handle'[i][v] # None /\ handle'[i][v] = handle'[j][w] => i = j /\ v = w
    BY <1>2, <1>3 DEF IInv, HandleInv
  <2>2. \A i \in Holder, v \in Variable : handle'[i][v] # None =>
          /\ state[handle'[i][v]] \notin {"none", "destroyed"}
          /\ handle'[i][v] \notin wrapper
          /\ Keeps(i, v)
    BY <1>1, <1>2, <1>3 DEF IInv, HandleInv, Keeps
  <2> QED
    BY <1>3, <2>1, <2>2 DEF HandleInv, Keeps, promises
<1>6. LeakInv'
  <2> SUFFICES ASSUME NEW f \in Frame, state[f] \notin {"none", "destroyed"},
                      f \notin wrapper \cup overwritten
               PROVE  \E i \in Holder, v \in Variable : handle'[i][v] = f
    BY <1>3 DEF LeakInv, promises
  <2>1. PICK i \in Holder, v \in Variable : handle[i][v] = f
    BY DEF IInv, LeakInv
  <2>2. f # None
    BY TasksAssumption
  <2> QED
    BY <1>2, <1>3, <2>1, <2>2
<1>7. WrapperInv'
  BY <1>3 DEF WrapperInv, IInv, promises
<1>8. RunInv' /\ ContInv' /\ OwnerInv'
  BY <1>1, <1>2, <1>3, Rearrange DEF promises
<1> QED
  BY <1>4, <1>5, <1>6, <1>7, <1>8 DEF IInv

LEMMA MoveAssignStep ==
  ASSUME IInv, NEW t \in Thread, NEW h \in Holder, NEW d \in Variable,
         NEW s \in Variable, MoveAssign(t, h, d, s)
  PROVE  IInv'
<1>1. /\ h \in Frame => state[h] = "running" /\ current[t] = h
      /\ h \in Thread => h = t /\ current[t] = None
  BY RunnerFacts DEF MoveAssign
<1>2. \A i \in Holder, v \in Variable : handle'[i][v] =
        IF i = h /\ v = s THEN None ELSE IF i = h /\ v = d THEN handle[h][s]
        ELSE handle[i][v]
  BY DEF MoveAssign, IInv, TypeOK
<1>3. /\ overwritten' = overwritten \cup ({handle[h][d]} \ {None})
      /\ UNCHANGED <<state, promises, current, queue>>
  BY DEF MoveAssign
<1>4. TypeOK'
  BY <1>3 DEF MoveAssign, IInv, TypeOK, promises
<1>5. HandleInv'
  <2>1. \A i, j \in Holder, v, w \in Variable :
          handle'[i][v] # None /\ handle'[i][v] = handle'[j][w] => i = j /\ v = w
    BY <1>2 DEF IInv, HandleInv
  <2>2. \A i \in Holder, v \in Variable : handle'[i][v] # None =>
          /\ state[handle'[i][v]] \notin {"none", "destroyed"}
          /\ handle'[i][v] \notin wrapper
          /\ Keeps(i, v)
    BY <1>1, <1>2 DEF IInv, HandleInv, Keeps
  <2> QED
    BY <1>3, <2>1, <2>2 DEF HandleInv, Keeps, promises
<1>6. LeakInv'
  <2> SUFFICES ASSUME NEW f \in Frame, state[f] \notin {"none", "destroyed"},
                      f \notin wrapper \cup overwritten'
               PROVE  \E i \in Holder, v \in Variable : handle'[i][v] = f
    BY <1>3 DEF LeakInv, promises
  <2>1. PICK i \in Holder, v \in Variable : handle[i][v] = f
    BY <1>3 DEF IInv, LeakInv
  <2>2. f # None /\ f # handle[h][d]
    BY <1>3, TasksAssumption
  <2> QED
    BY <1>2, <2>1, <2>2
<1>7. WrapperInv'
  BY <1>3 DEF WrapperInv, IInv, promises
<1>8. RunInv' /\ ContInv' /\ OwnerInv'
  BY <1>1, <1>2, <1>3, Rearrange DEF promises
<1> QED
  BY <1>4, <1>5, <1>6, <1>7, <1>8 DEF IInv

LEMMA TakeStep ==
  ASSUME IInv, NEW t \in Thread, NEW h \in Holder, NEW v \in Variable,
         Take(t, h, v)
  PROVE  IInv'
<1>1. TypeOK'
  BY DEF Take, IInv, TypeOK
<1>2. (HandleInv /\ LeakInv /\ WrapperInv /\ RunInv /\ ContInv /\ OwnerInv)'
  BY DEF Take, IInv, HandleInv, Keeps, LeakInv, WrapperInv, RunInv, ContInv, OwnerInv,
         HolderWaits, OnStack, ContainsStack, Active
<1> QED
  BY <1>1, <1>2 DEF IInv

\* A frame that does not exist yet has no handles, and nobody has its handle.
LEMMA NewFrame ==
  ASSUME IInv, NEW f \in Frame, state[f] = "none"
  PROVE  /\ f \in Holder /\ f \notin Thread /\ f # None /\ cont[f] = None
         /\ f \notin wrapper
         /\ \A v \in Variable : handle[f][v] = None
         /\ \A i \in Holder, v \in Variable : handle[i][v] # f
<1>1. f \in Holder /\ f \notin Thread /\ f # None
  BY TasksAssumption DEF Holder
<1>2. cont[f] = None /\ f \notin wrapper
  BY DEF IInv, ContInv, WrapperInv
<1> QED
  BY <1>1, <1>2 DEF IInv, HandleInv, Keeps

\* A coroutine was called with the task of variable arg, moved into parameter p,
\* or with none.
CalledHandles(h, v, f, arg, p) ==
  /\ handle' \in [Holder -> [Variable -> Frame \cup {None}]]
  /\ \A i \in Holder, w \in Variable : handle'[i][w] =
       IF i = h /\ w = v THEN f
       ELSE IF arg # None /\ i = h /\ w = arg THEN None
       ELSE IF arg # None /\ i = f /\ w = p THEN handle[h][arg]
       ELSE handle[i][w]

LEMMA CalledStep ==
  ASSUME IInv, NEW t \in Thread, NEW h \in Holder, NEW v \in Variable,
         NEW f \in Frame, NEW arg \in Variable \cup {None}, NEW p \in Variable,
         Runs(t, h), state[f] = "none", handle[h][v] = None,
         arg # None => arg \in Variable /\ arg # v /\ handle[h][arg] # None,
         state' = [state EXCEPT ![f] = "created"],
         CalledHandles(h, v, f, arg, p),
         UNCHANGED <<promises, current, queue, overwritten>>
  PROVE  IInv'
<1>1. /\ h \in Frame => state[h] = "running" /\ current[t] = h
      /\ h \in Thread => h = t /\ current[t] = None
      /\ h \notin wrapper
  BY RunnerFacts
<1>2. /\ f \in Holder /\ f \notin Thread /\ f # None /\ cont[f] = None
      /\ f \notin wrapper /\ f # h
      /\ \A w \in Variable : handle[f][w] = None
      /\ \A i \in Holder, w \in Variable : handle[i][w] # f
  BY <1>1, NewFrame
<1>3. /\ state[f] = "none" /\ handle[h][v] = None
      /\ UNCHANGED <<promises, current, queue, overwritten>>
      /\ state' = [state EXCEPT ![f] = "created"]
  OBVIOUS
<1>4. \A i \in Frame : state'[i] = IF i = f THEN "created" ELSE state[i]
  BY <1>3 DEF IInv, TypeOK
<1>6. \A i \in Holder, w \in Variable : handle'[i][w] =
        IF i = h /\ w = v THEN f
        ELSE IF arg # None /\ i = h /\ w = arg THEN None
        ELSE IF arg # None /\ i = f /\ w = p THEN handle[h][arg]
        ELSE handle[i][w]
  BY DEF CalledHandles
<1>7. handle' \in [Holder -> [Variable -> Frame \cup {None}]]
  BY DEF CalledHandles
<1>8. arg # None => arg \in Variable /\ arg # v /\ handle[h][arg] # None
  OBVIOUS
<1>9. TypeOK'
  BY <1>3, <1>7 DEF IInv, TypeOK, promises
<1>10. HandleInv'
  <2>1. \A i, j \in Holder, u, w \in Variable :
          handle'[i][u] # None /\ handle'[i][u] = handle'[j][w] => i = j /\ u = w
    BY <1>2, <1>6, <1>8 DEF IInv, HandleInv
  <2>2. ASSUME NEW i \in Holder, NEW w \in Variable, handle'[i][w] # None
        PROVE  /\ state'[handle'[i][w]] \notin {"none", "destroyed"}
               /\ handle'[i][w] \notin wrapper
               /\ Keeps(i, w)'
    <3>1. \/ handle'[i][w] = f
          \/ handle'[i][w] = handle[i][w]
          \/ arg \in Variable /\ handle'[i][w] = handle[h][arg]
      BY <1>6, <1>8, <2>2
    <3>2. /\ state'[handle'[i][w]] \notin {"none", "destroyed"}
          /\ handle'[i][w] \notin wrapper
      BY <1>2, <1>4, <1>7, <2>2, <3>1 DEF IInv, HandleInv, TypeOK
    <3>3. Keeps(i, w)'
      BY <1>1, <1>2, <1>4, <1>6, <2>2 DEF IInv, HandleInv, Keeps
    <3> QED
      BY <3>2, <3>3
  <2> QED
    BY <1>3, <2>1, <2>2 DEF HandleInv, promises
<1>11. LeakInv'
  <2> SUFFICES ASSUME NEW g \in Frame, state'[g] \notin {"none", "destroyed"},
                      g \notin wrapper \cup overwritten
               PROVE  \E i \in Holder, w \in Variable : handle'[i][w] = g
    BY <1>3 DEF LeakInv, promises
  <2>1. CASE g = f
    BY <1>6, <2>1
  <2>2. CASE g # f
    <3>1. PICK i \in Holder, w \in Variable : handle[i][w] = g
      BY <1>4, <2>2 DEF IInv, LeakInv
    <3>2. g # None
      BY TasksAssumption
    <3> QED
      BY <1>2, <1>3, <1>6, <1>8, <3>1, <3>2
  <2> QED
    BY <2>1, <2>2
<1>12. WrapperInv'
  BY <1>2, <1>3, <1>4 DEF WrapperInv, IInv, TypeOK, promises
<1>13. RunInv' /\ ContInv' /\ OwnerInv'
  BY <1>1, <1>3, <1>4, <1>6, Rearrange DEF promises
<1> QED
  BY <1>9, <1>10, <1>11, <1>12, <1>13 DEF IInv

LEMMA CallStep ==
  ASSUME IInv, NEW t \in Thread, NEW h \in Holder, NEW v \in Variable,
         NEW f \in Frame, Call(t, h, v, f)
  PROVE  IInv'
<1>1. /\ Runs(t, h) /\ state[f] = "none" /\ handle[h][v] = None
      /\ state' = [state EXCEPT ![f] = "created"]
      /\ UNCHANGED <<promises, current, queue, overwritten>>
  BY DEF Call
<1>2. handle' \in [Holder -> [Variable -> Frame \cup {None}]]
  BY DEF Call, IInv, TypeOK
<1>3. \A i \in Holder, w \in Variable : handle'[i][w] =
        IF i = h /\ w = v THEN f ELSE handle[i][w]
  BY DEF Call, IInv, TypeOK
<1> DEFINE arg == None
<1>4. /\ arg \in Variable \cup {None}
      /\ arg # None => arg \in Variable /\ arg # v /\ handle[h][arg] # None
      /\ CalledHandles(h, v, f, arg, v)
  BY <1>2, <1>3 DEF CalledHandles
<1> HIDE DEF arg
<1> QED
  BY <1>1, <1>4, CalledStep

LEMMA CallWithStep ==
  ASSUME IInv, NEW t \in Thread, NEW h \in Holder, NEW v \in Variable,
         NEW f \in Frame, NEW arg \in Variable, NEW p \in Parameter,
         CallWith(t, h, v, f, arg, p)
  PROVE  IInv'
<1>1. /\ Runs(t, h) /\ state[f] = "none" /\ handle[h][v] = None
      /\ arg # v /\ handle[h][arg] # None /\ p \in Variable
      /\ state' = [state EXCEPT ![f] = "created"]
      /\ UNCHANGED <<promises, current, queue, overwritten>>
  BY TasksAssumption DEF CallWith
<1>2. f # h /\ f \in Holder
  BY <1>1, RunnerFacts, NewFrame
<1>3. handle' = [handle EXCEPT ![h][v] = f, ![h][arg] = None,
                              ![f][p] = handle[h][arg]]
  BY DEF CallWith
<1>4. handle' \in [Holder -> [Variable -> Frame \cup {None}]]
  BY <1>1, <1>3 DEF IInv, TypeOK
<1>5. \A i \in Holder, w \in Variable : handle'[i][w] =
        IF i = h /\ w = v THEN f
        ELSE IF i = h /\ w = arg THEN None
        ELSE IF i = f /\ w = p THEN handle[h][arg]
        ELSE handle[i][w]
  BY <1>1, <1>2, <1>3 DEF IInv, TypeOK
<1>6. /\ arg \in Variable \cup {None} /\ p \in Variable
      /\ arg # None => arg \in Variable /\ arg # v /\ handle[h][arg] # None
      /\ CalledHandles(h, v, f, arg, p)
  BY <1>1, <1>4, <1>5, TasksAssumption DEF CalledHandles
<1> QED
  BY <1>1, <1>6, CalledStep

LEMMA SpawnStep ==
  ASSUME IInv, NEW t \in Thread, NEW h \in Holder, NEW v \in Variable,
         NEW f \in Frame, NEW p \in Parameter, Spawn(t, h, v, f, p)
  PROVE  IInv'
<1>1. /\ h \in Frame => state[h] = "running" /\ current[t] = h
      /\ h \in Thread => h = t /\ current[t] = None
  BY RunnerFacts DEF Spawn
<1>2. /\ f \in Holder /\ f \notin Thread /\ f # None /\ cont[f] = None
      /\ f \notin wrapper /\ f # h
      /\ \A w \in Variable : handle[f][w] = None
      /\ \A i \in Holder, w \in Variable : handle[i][w] # f
  BY <1>1, NewFrame DEF Spawn
<1>3. /\ state[f] = "none" /\ handle[h][v] # None
      /\ wrapper' = wrapper \cup {f} /\ queue' = queue \cup {f}
      /\ UNCHANGED <<cont, result, current, overwritten>>
  BY DEF Spawn
<1>4. /\ state' \in [Frame -> {"none", "created", "running", "awaiting", "done", "destroyed"}]
      /\ \A i \in Frame : state'[i] = IF i = f THEN "created" ELSE state[i]
  BY DEF Spawn, IInv, TypeOK
<1>5. \A i \in Holder, w \in Variable : handle'[i][w] =
        IF i = h /\ w = v THEN None
        ELSE IF i = f /\ w = p THEN handle[h][v]
        ELSE handle[i][w]
  BY <1>2, TasksAssumption DEF Spawn, IInv, TypeOK
<1>6. handle' \in [Holder -> [Variable -> Frame \cup {None}]]
  <2> DEFINE Handles == [Variable -> Frame \cup {None}]
             given == [handle[f] EXCEPT ![p] = handle[h][v]]
             left == [handle[h] EXCEPT ![v] = None]
  <2>1. handle \in [Holder -> Handles] /\ handle[h][v] \in Frame \cup {None}
    BY DEF IInv, TypeOK
  <2>2. given \in Handles /\ left \in Handles
    BY <1>2, <2>1
  <2>3. handle' = [handle EXCEPT ![h] = left, ![f] = given]
    BY <1>2, <2>1 DEF Spawn
  <2> HIDE DEF Handles, given, left
  <2>4. handle' \in [Holder -> Handles]
    BY <2>1, <2>2, <2>3
  <2> QED
    BY <2>4 DEF Handles
<1>7. TypeOK'
  <2>1. queue' \subseteq {g \in wrapper' : state'[g] = "created"}
    BY <1>3, <1>4 DEF IInv, TypeOK
  <2>2. wrapper' \subseteq Frame
    BY <1>3 DEF IInv, TypeOK
  <2> QED
    BY <1>3, <1>4, <1>6, <2>1, <2>2 DEF IInv, TypeOK
<1>8. HandleInv'
  <2>1. \A i, j \in Holder, u, w \in Variable :
          handle'[i][u] # None /\ handle'[i][u] = handle'[j][w] => i = j /\ u = w
    BY <1>2, <1>5 DEF IInv, HandleInv
  <2>2. ASSUME NEW i \in Holder, NEW w \in Variable, handle'[i][w] # None
        PROVE  /\ state'[handle'[i][w]] \notin {"none", "destroyed"}
               /\ handle'[i][w] \notin wrapper'
               /\ Keeps(i, w)'
    <3>1. handle'[i][w] \in {handle[i][w], handle[h][v]}
      BY <1>5, <2>2
    <3>2. /\ state'[handle'[i][w]] \notin {"none", "destroyed"}
          /\ handle'[i][w] \notin wrapper'
      BY <1>2, <1>3, <1>4, <1>6, <2>2, <3>1 DEF IInv, HandleInv, TypeOK
    <3>3. Keeps(i, w)'
      BY <1>2, <1>4, <1>5, <2>2 DEF IInv, HandleInv, Keeps
    <3> QED
      BY <3>2, <3>3
  <2> QED
    BY <2>1, <2>2 DEF HandleInv
<1>9. LeakInv'
  <2> SUFFICES ASSUME NEW g \in Frame, state'[g] \notin {"none", "destroyed"},
                      g \notin wrapper' \cup overwritten
               PROVE  \E i \in Holder, w \in Variable : handle'[i][w] = g
    BY <1>3 DEF LeakInv
  <2>1. PICK i \in Holder, w \in Variable : handle[i][w] = g
    BY <1>3, <1>4 DEF IInv, LeakInv
  <2>2. g # None
    BY TasksAssumption
  <2>3. CASE i = h /\ w = v
    BY <1>2, <1>5, <2>1, <2>3, TasksAssumption
  <2>4. CASE ~(i = h /\ w = v)
    BY <1>2, <1>5, <2>1, <2>2, <2>4
  <2> QED
    BY <2>3, <2>4
<1>10. WrapperInv'
  BY <1>2, <1>3, <1>4 DEF WrapperInv, IInv, TypeOK
<1>11. RunInv' /\ ContInv' /\ OwnerInv'
  BY <1>1, <1>3, <1>4, <1>5, Rearrange
<1> QED
  BY <1>7, <1>8, <1>9, <1>10, <1>11 DEF IInv

-----------------------------------------------------------------------------
(* The steps that start a frame. *)

LEMMA ResumeStep ==
  ASSUME IInv, NEW t \in Thread, NEW v \in Variable, Resume(t, v)
  PROVE  IInv'
<1> DEFINE g == handle[t][v]
<1>1. /\ t \in Holder /\ t \notin Frame /\ current[t] = None
      /\ g \in Frame /\ g \notin wrapper /\ g # None
      /\ state[g] = "created" /\ cont[g] = None
      /\ UNCHANGED <<promises, handle, queue, overwritten>>
  BY TasksAssumption DEF Resume, Holder, IInv, TypeOK, HandleInv, ContInv
<1>2. /\ state' = [state EXCEPT ![g] = "running"]
      /\ current' = [current EXCEPT ![t] = g]
  BY DEF Resume
<1>3. /\ \A f \in Frame : state'[f] = IF f = g THEN "running" ELSE state[f]
      /\ \A s \in Thread : current'[s] = IF s = t THEN g ELSE current[s]
  BY <1>1, <1>2 DEF IInv, TypeOK
<1>4. TypeOK'
  BY <1>1, <1>2 DEF IInv, TypeOK, promises
<1>5. (HandleInv /\ LeakInv /\ WrapperInv)'
  <2>1. HandleInv'
    BY <1>1, <1>3 DEF IInv, HandleInv, Keeps, TypeOK, promises
  <2>2. LeakInv' /\ WrapperInv'
    BY <1>1, <1>3 DEF IInv, LeakInv, WrapperInv, TypeOK, promises
  <2> QED
    BY <2>1, <2>2
<1>6. RunInv'
  <2>1. \A s \in Thread : current[s] # g
    BY <1>1 DEF IInv, RunInv
  <2>2. \A s \in Thread : current[s] # None => current[s] \in Frame
    BY DEF IInv, TypeOK
  <2>3. \A s \in Thread : current'[s] # None => state'[current'[s]] = "running"
    BY <1>1, <1>3, <2>1, <2>2 DEF IInv, RunInv
  <2>4. \A r, s \in Thread : current'[r] # None /\ current'[r] = current'[s] => r = s
    BY <1>1, <1>3, <2>1 DEF IInv, RunInv
  <2>5. ASSUME NEW f \in Frame, state'[f] = "running"
        PROVE  \E s \in Thread : current'[s] = f
    <3>1. f # g => \E s \in Thread : current[s] = f /\ f # None
      BY <1>3, <2>5, TasksAssumption DEF IInv, RunInv
    <3> QED
      BY <1>1, <1>3, <3>1
  <2> QED
    BY <2>3, <2>4, <2>5 DEF RunInv
<1>7. Active' = Active \cup {g}
  BY <1>1, <1>3 DEF Active
<1>8. ContInv'
  BY <1>1, <1>3, <1>7 DEF IInv, ContInv, TypeOK, promises, Active
<1>9. OwnerInv'
  <2> SUFFICES ASSUME NEW f \in Active', f \notin wrapper
               PROVE  \E i \in Holder : HolderWaits(i, f)' /\ \E w \in Variable : handle[i][w] = f
    BY <1>1 DEF OwnerInv, promises
  <2>1. CASE f = g
    <3>1. OnStack(t, g)'
      BY <1>1, <1>3 DEF OnStack, ContainsStack
    <3> QED
      BY <1>1, <2>1, <3>1 DEF HolderWaits
  <2>2. CASE f # g
    <3>1. PICK i \in Holder : HolderWaits(i, f) /\ \E w \in Variable : handle[i][w] = f
      BY <1>7, <2>2 DEF IInv, OwnerInv
    <3>2. i # t
      BY <1>1, <1>7, <2>2, <3>1, OwnsQuiet, TasksAssumption DEF Active
    <3>3. i \in Thread => OnStack(i, f)'
      BY <1>1, <1>3, <3>1, <3>2 DEF HolderWaits, OnStack, ContainsStack, promises
    <3>4. i \in Frame => state'[i] = "awaiting" /\ cont'[f] = i
      BY <1>1, <1>3, <3>1 DEF HolderWaits, promises
    <3> QED
      BY <3>1, <3>3, <3>4 DEF HolderWaits
  <2> QED
    BY <2>1, <2>2
<1> QED
  BY <1>4, <1>5, <1>6, <1>8, <1>9 DEF IInv

LEMMA RunWrapperStep ==
  ASSUME IInv, NEW t \in Thread, NEW g \in Frame, RunWrapper(t, g)
  PROVE  IInv'
<1>1. /\ t \in Holder /\ t \notin Frame /\ current[t] = None
      /\ g \in wrapper /\ g # None
      /\ state[g] = "created" /\ cont[g] = None
      /\ UNCHANGED <<promises, handle, overwritten>>
      /\ queue' = queue \ {g}
  BY TasksAssumption DEF RunWrapper, Dequeued, Holder, IInv, TypeOK, ContInv
<1>2. /\ state' = [state EXCEPT ![g] = "running"]
      /\ current' = [current EXCEPT ![t] = g]
  BY DEF RunWrapper
<1>3. /\ \A f \in Frame : state'[f] = IF f = g THEN "running" ELSE state[f]
      /\ \A s \in Thread : current'[s] = IF s = t THEN g ELSE current[s]
  BY <1>1, <1>2 DEF IInv, TypeOK
<1>4. TypeOK'
  BY <1>1, <1>2 DEF IInv, TypeOK, promises
<1>5. (HandleInv /\ LeakInv /\ WrapperInv)'
  <2>1. HandleInv'
    BY <1>1, <1>3 DEF IInv, HandleInv, Keeps, TypeOK, promises
  <2>2. LeakInv' /\ WrapperInv'
    BY <1>1, <1>3 DEF IInv, LeakInv, WrapperInv, TypeOK, promises
  <2> QED
    BY <2>1, <2>2
<1>6. RunInv'
  <2>1. \A s \in Thread : current[s] # g
    BY <1>1 DEF IInv, RunInv
  <2>2. \A s \in Thread : current[s] # None => current[s] \in Frame
    BY DEF IInv, TypeOK
  <2>3. \A s \in Thread : current'[s] # None => state'[current'[s]] = "running"
    BY <1>1, <1>3, <2>1, <2>2 DEF IInv, RunInv
  <2>4. \A r, s \in Thread : current'[r] # None /\ current'[r] = current'[s] => r = s
    BY <1>1, <1>3, <2>1 DEF IInv, RunInv
  <2>5. ASSUME NEW f \in Frame, state'[f] = "running"
        PROVE  \E s \in Thread : current'[s] = f
    <3>1. f # g => \E s \in Thread : current[s] = f /\ f # None
      BY <1>3, <2>5, TasksAssumption DEF IInv, RunInv
    <3> QED
      BY <1>1, <1>3, <3>1
  <2> QED
    BY <2>3, <2>4, <2>5 DEF RunInv
<1>7. Active' = Active \cup {g}
  BY <1>1, <1>3 DEF Active
<1>8. ContInv'
  BY <1>1, <1>3, <1>7 DEF IInv, ContInv, TypeOK, promises, Active
<1>9. OwnerInv'
  <2> SUFFICES ASSUME NEW f \in Active', f \notin wrapper
               PROVE  \E i \in Holder : HolderWaits(i, f)' /\ \E w \in Variable : handle[i][w] = f
    BY <1>1 DEF OwnerInv, promises
  <2>1. f \in Active
    BY <1>1, <1>7
  <2>2. PICK i \in Holder : HolderWaits(i, f) /\ \E w \in Variable : handle[i][w] = f
    BY <2>1 DEF IInv, OwnerInv
  <2>3. i # t
    BY <1>1, <2>1, <2>2, OwnsQuiet, TasksAssumption DEF Active
  <2>4. i \in Thread => OnStack(i, f)'
    BY <1>1, <1>3, <2>2, <2>3 DEF HolderWaits, OnStack, ContainsStack, promises
  <2>5. i \in Frame => state'[i] = "awaiting" /\ cont'[f] = i
    BY <1>1, <1>3, <2>2 DEF HolderWaits, promises
  <2> QED
    BY <2>2, <2>4, <2>5 DEF HolderWaits
<1> QED
  BY <1>4, <1>5, <1>6, <1>8, <1>9 DEF IInv

LEMMA AwaitStep ==
  ASSUME IInv, NEW t \in Thread, NEW v \in Variable, Await(t, v)
  PROVE  IInv'
<1> DEFINE f == current[t]
           g == handle[f][v]
<1>1. /\ f \in Frame /\ f \in Holder /\ f \notin Thread /\ f # None
      /\ state[f] = "running"
  BY TasksAssumption DEF Await, Holder, IInv, TypeOK, RunInv
<1>2. /\ g \in Frame /\ g \notin wrapper /\ g # None /\ g # f
      /\ state[g] = "created" /\ cont[g] = None
  BY <1>1 DEF Await, IInv, TypeOK, HandleInv, ContInv
<1>3. /\ cont' = [cont EXCEPT ![g] = f]
      /\ state' = [state EXCEPT ![f] = "awaiting", ![g] = "running"]
      /\ current' = [current EXCEPT ![t] = g]
      /\ UNCHANGED <<wrapper, result, handle, queue, overwritten>>
  BY DEF Await, SetContinuation
<1> HIDE DEF f, g
<1>4. /\ \A x \in Frame : state'[x] = IF x = g THEN "running"
                                      ELSE IF x = f THEN "awaiting" ELSE state[x]
      /\ \A s \in Thread : current'[s] = IF s = t THEN g ELSE current[s]
      /\ \A x \in Frame : cont'[x] = IF x = g THEN f ELSE cont[x]
  BY <1>1, <1>2, <1>3 DEF IInv, TypeOK
<1>5. TypeOK'
  <2>1. queue' \subseteq {x \in wrapper' : state'[x] = "created"}
    BY <1>1, <1>2, <1>3, <1>4 DEF IInv, TypeOK
  <2> QED
    BY <1>1, <1>2, <1>3, <2>1 DEF IInv, TypeOK
<1>6. (HandleInv /\ LeakInv /\ WrapperInv)'
  <2>1. HandleInv'
    BY <1>1, <1>2, <1>3, <1>4 DEF IInv, HandleInv, Keeps, TypeOK
  <2>2. LeakInv' /\ WrapperInv'
    BY <1>1, <1>2, <1>3, <1>4 DEF IInv, LeakInv, WrapperInv, TypeOK
  <2> QED
    BY <2>1, <2>2
<1>7. RunInv'
  <2>1. f = current[t] /\ \A s \in Thread : current[s] # g
    BY <1>2 DEF IInv, RunInv, f
  <2>2. \A s \in Thread : current[s] # None => current[s] \in Frame
    BY DEF IInv, TypeOK
  <2>3. \A s \in Thread : current'[s] # None => state'[current'[s]] = "running"
    BY <1>1, <1>2, <1>4, <2>1, <2>2 DEF IInv, RunInv
  <2>4. \A r, s \in Thread : current'[r] # None /\ current'[r] = current'[s] => r = s
    BY <1>2, <1>4, <2>1 DEF IInv, RunInv
  <2>5. ASSUME NEW x \in Frame, state'[x] = "running"
        PROVE  \E s \in Thread : current'[s] = x
    <3>1. x # g => x # f /\ \E s \in Thread : current[s] = x
      BY <1>4, <2>5 DEF IInv, RunInv
    <3> QED
      BY <1>4, <2>1, <3>1
  <2> QED
    BY <2>3, <2>4, <2>5 DEF RunInv
<1>8. Active' = Active \cup {g}
  BY <1>1, <1>2, <1>4 DEF Active
<1>9. ContInv'
  <2>1. \A x \in Frame : state'[x] \in {"none", "created"} => cont'[x] = None
    BY <1>1, <1>2, <1>4 DEF IInv, ContInv
  <2>2. ASSUME NEW x \in Active \cup {g}, cont'[x] # None
        PROVE  /\ state'[cont'[x]] = "awaiting"
               /\ \E w \in Variable : handle'[cont'[x]][w] = x
               /\ \A y \in Active \cup {g} : cont'[y] = cont'[x] => y = x
    <3>1. CASE x = g
      <4>1. \A y \in Active : cont[y] # f
        BY <1>1 DEF IInv, ContInv
      <4>2. handle'[cont'[x]][v] = x
        BY <1>2, <1>3, <1>4, <3>1 DEF g
      <4> QED
        BY <1>1, <1>2, <1>4, <3>1, <4>1, <4>2 DEF Active
    <3>2. CASE x # g
      <4>1. x \in Active /\ x \in Frame /\ cont'[x] = cont[x] /\ cont[x] # None
        BY <1>4, <2>2, <3>2 DEF Active
      <4>2. /\ state[cont[x]] = "awaiting" /\ cont[x] \in Frame
            /\ \E w \in Variable : handle[cont[x]][w] = x
            /\ \A y \in Active : cont[y] = cont[x] => y = x
        BY <4>1 DEF IInv, ContInv, TypeOK
      <4>3. cont[x] # f /\ cont[x] # g
        BY <1>1, <1>2, <4>2
      <4> QED
        BY <1>2, <1>3, <1>4, <4>1, <4>2, <4>3 DEF Active
    <3> QED
      BY <3>1, <3>2
  <2>3. ASSUME NEW x \in Frame, state'[x] = "awaiting"
        PROVE  \E y \in Active \cup {g} : cont'[y] = x
    <3>1. CASE x = f
      BY <1>2, <1>4, <3>1
    <3>2. CASE x # f
      <4>1. PICK y \in Active : cont[y] = x
        BY <1>4, <2>3, <3>2 DEF IInv, ContInv
      <4>2. y # g
        BY <1>2, <4>1, TasksAssumption
      <4> QED
        BY <1>4, <4>1, <4>2 DEF Active
    <3> QED
      BY <3>1, <3>2
  <2> QED
    BY <1>8, <2>1, <2>2, <2>3 DEF ContInv
<1>10. OwnerInv'
  <2> SUFFICES ASSUME NEW x \in Active \cup {g}, x \notin wrapper
               PROVE  \E i \in Holder : HolderWaits(i, x)' /\ \E w \in Variable : handle[i][w] = x
    BY <1>3, <1>8 DEF OwnerInv
  <2>1. CASE x = g
    <3>1. PICK i \in Holder : i = f
      BY <1>1
    <3>2. HolderWaits(i, x)'
      BY <1>1, <1>2, <1>4, <2>1, <3>1 DEF HolderWaits
    <3>3. handle[i][v] = x
      BY <2>1, <3>1 DEF g
    <3> QED
      BY <3>2, <3>3
  <2>2. CASE x # g
    <3>1. PICK i \in Holder : HolderWaits(i, x) /\ \E w \in Variable : handle[i][w] = x
      BY <2>2 DEF IInv, OwnerInv
    <3>2. i \in Frame => state'[i] = "awaiting" /\ cont'[x] = i
      BY <1>1, <1>2, <1>4, <2>2, <3>1 DEF HolderWaits, Active
    <3>3. ASSUME i \in Thread PROVE OnStack(i, x)'
      <4> SUFFICES ASSUME NEW C \in SUBSET Frame, ContainsStack(i, C)'
                   PROVE  x \in C
        BY DEF OnStack
      <4>1. \A y \in C : cont[y] # None => cont[y] \in C
        BY <1>2, <1>4 DEF ContainsStack
      <4>2. current[i] # None => current[i] \in C
        <5>1. CASE i = t
          BY <1>1, <1>2, <1>4, <3>3, <5>1 DEF ContainsStack, f
        <5>2. CASE i # t
          BY <1>4, <3>3, <5>2 DEF ContainsStack
        <5> QED
          BY <5>1, <5>2
      <4> QED
        BY <3>1, <3>3, <4>1, <4>2 DEF HolderWaits, OnStack, ContainsStack
    <3> QED
      BY <3>1, <3>2, <3>3 DEF HolderWaits
  <2> QED
    BY <2>1, <2>2
<1> QED
  BY <1>5, <1>6, <1>7, <1>9, <1>10 DEF IInv

-----------------------------------------------------------------------------
(* The steps that destroy frames. *)

\* A destructor that destroys nothing active leaves everything else alone.
LEMMA DestructStep ==
  ASSUME IInv, NEW S \in SUBSET Frame, NEW D, D = Doomed(S), Dropped(D),
         \A f \in S : state[f] \in {"created", "done"},
         \A f \in Frame \ D : state'[f] = state[f],
         wrapper' = wrapper, cont' = cont, current' = current,
         overwritten' = overwritten
  PROVE  (HandleInv /\ LeakInv /\ WrapperInv /\ RunInv /\ ContInv /\ OwnerInv)'
<1>1. D \subseteq Frame /\ \A f \in D : state[f] \in {"created", "done"}
  BY DoomedQuiet, DoomedFacts DEF IInv
<1>2. HandleInv' /\ LeakInv'
  BY DropKeepsForest
<1>3. /\ Active' = Active
      /\ \A f \in Frame : state[f] \in {"running", "awaiting"} => state'[f] = state[f]
      /\ \A f \in Frame : state'[f] \in {"none", "created", "running", "awaiting"}
                            => state'[f] = state[f]
  BY <1>1 DEF Active, Dropped
<1>4. WrapperInv'
  <2>1. \A f \in wrapper : f \in Frame
    BY DEF IInv, TypeOK
  <2> QED
    BY <1>1, <2>1 DEF IInv, WrapperInv, Dropped
<1>5. RunInv'
  <2>1. \A t \in Thread : current[t] # None => current[t] \in Frame
    BY DEF IInv, TypeOK
  <2> QED
    BY <1>3, <2>1 DEF IInv, RunInv
<1>6. \A g \in Active, h \in Holder, v \in Variable :
        handle[h][v] = g => handle'[h][v] = g
  BY <1>1 DEF Dropped, Kept, Active
<1>7. ContInv'
  <2>1. \A f \in Frame : state'[f] \in {"none", "created"} => cont[f] = None
    BY <1>3 DEF IInv, ContInv
  <2>2. ASSUME NEW g \in Active, cont[g] # None
        PROVE  /\ state'[cont[g]] = "awaiting"
               /\ \E v \in Variable : handle'[cont[g]][v] = g
               /\ \A g2 \in Active : cont[g2] = cont[g] => g2 = g
    <3>1. cont[g] \in Frame /\ cont[g] \in Holder
      BY <2>2 DEF IInv, TypeOK, Active, Holder
    <3> QED
      BY <1>3, <1>6, <2>2, <3>1 DEF IInv, ContInv
  <2>3. \A f \in Frame : state'[f] = "awaiting" => \E g \in Active : cont[g] = f
    BY <1>3 DEF IInv, ContInv
  <2> QED
    BY <1>3, <2>1, <2>2, <2>3 DEF ContInv
<1>8. OwnerInv'
  <2> SUFFICES ASSUME NEW g \in Active, g \notin wrapper
               PROVE  \E h \in Holder : HolderWaits(h, g)' /\ \E v \in Variable : handle'[h][v] = g
    BY <1>3 DEF OwnerInv
  <2>1. PICK h \in Holder : HolderWaits(h, g) /\ \E v \in Variable : handle[h][v] = g
    BY DEF IInv, OwnerInv
  <2>2. HolderWaits(h, g)'
    BY <1>3, <2>1 DEF HolderWaits, OnStack, ContainsStack
  <2> QED
    BY <1>6, <2>1, <2>2
<1> QED
  BY <1>2, <1>4, <1>5, <1>7, <1>8

LEMMA EndOfScopeStep ==
  ASSUME IInv, NEW t \in Thread, NEW h \in Holder, NEW v \in Variable,
         EndOfScope(t, h, v)
  PROVE  IInv'
<1> DEFINE g == handle[h][v]
           D == Doomed({g})
<1>1. /\ h \in Frame => state[h] = "running" /\ current[t] = h
      /\ h \in Thread => h = t /\ current[t] = None
  BY RunnerFacts DEF EndOfScope
<1>2. /\ g # None /\ g \in Frame /\ g \notin wrapper
      /\ state[g] \in {"created", "done"}
  BY <1>1, OwnsQuiet DEF EndOfScope
<1>3. UNCHANGED <<promises, current, queue, overwritten>>
  BY DEF EndOfScope
<1>4. D \subseteq Frame /\ \A f \in D : f \notin wrapper /\ state[f] \in {"created", "done"}
  BY <1>2, DoomedQuiet, DoomedFacts DEF IInv
<1>5. \A f \in Frame : state'[f] = IF f \in D THEN "destroyed" ELSE state[f]
  BY DEF EndOfScope, Destroyed
<1>6. \A i \in Holder, w \in Variable : handle'[i][w] =
        IF i \in D \/ (i = h /\ w = v) THEN None ELSE handle[i][w]
  BY DEF EndOfScope, HandlesWithout, IInv, TypeOK
<1>7. TypeOK'
  <2>1. state' \in [Frame -> {"none", "created", "running", "awaiting", "done", "destroyed"}]
    BY DEF EndOfScope, Destroyed, IInv, TypeOK
  <2>2. handle' \in [Holder -> [Variable -> Frame \cup {None}]]
    BY DEF EndOfScope, HandlesWithout, IInv, TypeOK
  <2>3. queue \subseteq {f \in wrapper : state'[f] = "created"}
    BY <1>4, <1>5 DEF IInv, TypeOK
  <2> QED
    BY <1>3, <2>1, <2>2, <2>3 DEF IInv, TypeOK, promises
<1>8. Dropped(D)
  <2>1. \A i \in Holder, w \in Variable : handle[i][w] # None =>
          (handle[i][w] \in D <=> i \in D \/ handle[i][w] = g)
    BY <1>2, DoomedOwners
  <2>2. \A i \in Holder, w \in Variable : handle[i][w] = g <=> i = h /\ w = v
    BY <1>2 DEF IInv, HandleInv
  <2>3. None \notin D
    BY <1>4, TasksAssumption
  <2>4. \A i \in Holder, w \in Variable : handle'[i][w] = Kept(D, i, w)
    BY <1>6, <2>1, <2>2, <2>3 DEF Kept
  <2> QED
    BY <1>4, <1>5, <2>4 DEF Dropped
<1>9. (HandleInv /\ LeakInv /\ WrapperInv /\ RunInv /\ ContInv /\ OwnerInv)'
  BY <1>2, <1>3, <1>5, <1>8, DestructStep DEF promises
<1> QED
  BY <1>7, <1>9 DEF IInv

LEMMA DestroyQueuedStep ==
  ASSUME IInv, NEW g \in Frame, DestroyQueued(g)
  PROVE  IInv'
<1> DEFINE D == Doomed({g})
<1>1. /\ g \in wrapper /\ state[g] = "created"
      /\ queue' = queue \ {g}
      /\ UNCHANGED <<promises, current, overwritten>>
  BY DEF DestroyQueued, Dequeued, IInv, TypeOK
<1>2. /\ D \subseteq Frame /\ g \in D
      /\ \A f \in D \ {g} : f \notin wrapper
  BY <1>1, DoomedQuiet, DoomedFacts DEF IInv
<1>3. \A f \in Frame : state'[f] = IF f \in D THEN "destroyed" ELSE state[f]
  BY DEF DestroyQueued, Destroyed
<1>4. \A i \in Holder, w \in Variable : handle'[i][w] =
        IF i \in D THEN None ELSE handle[i][w]
  BY DEF DestroyQueued, HandlesWithout, IInv, TypeOK
<1>5. TypeOK'
  <2>1. state' \in [Frame -> {"none", "created", "running", "awaiting", "done", "destroyed"}]
    BY DEF DestroyQueued, Destroyed, IInv, TypeOK
  <2>2. handle' \in [Holder -> [Variable -> Frame \cup {None}]]
    BY DEF DestroyQueued, HandlesWithout, IInv, TypeOK
  <2>3. queue' \subseteq {f \in wrapper : state'[f] = "created"}
    BY <1>1, <1>2, <1>3 DEF IInv, TypeOK
  <2> QED
    BY <1>1, <2>1, <2>2, <2>3 DEF IInv, TypeOK, promises
<1>6. Dropped(D)
  <2>1. \A i \in Holder, w \in Variable : handle[i][w] # None =>
          (handle[i][w] \in D <=> i \in D \/ handle[i][w] = g)
    BY DoomedOwners
  <2>2. \A i \in Holder, w \in Variable : handle[i][w] # g
    BY <1>1, TasksAssumption DEF IInv, HandleInv
  <2>3. None \notin D
    BY <1>2, TasksAssumption
  <2>4. \A i \in Holder, w \in Variable : handle'[i][w] = Kept(D, i, w)
    BY <1>4, <2>1, <2>2, <2>3 DEF Kept
  <2> QED
    BY <1>2, <1>3, <2>4 DEF Dropped
<1>7. (HandleInv /\ LeakInv /\ WrapperInv /\ RunInv /\ ContInv /\ OwnerInv)'
  BY <1>1, <1>3, <1>6, DestructStep DEF promises
<1> QED
  BY <1>5, <1>7 DEF IInv

\* A wrapper destroys itself and its task, which is done.
LEMMA FinishWrapperStep ==
  ASSUME IInv, NEW t \in Thread, FinishWrapper(t)
  PROVE  IInv'
<1> DEFINE f == current[t]
<1>1. PICK D : D = Doomed({f})
  OBVIOUS
<1>2. /\ f \in Frame /\ f # None /\ f \in wrapper
      /\ state[f] = "running" /\ cont[f] = None
  BY TasksAssumption DEF FinishWrapper, IInv, TypeOK, RunInv, WrapperInv
<1>3. /\ current' = [current EXCEPT ![t] = None]
      /\ UNCHANGED <<promises, queue, overwritten>>
  BY DEF FinishWrapper
<1>4. /\ D \subseteq Frame /\ f \in D
      /\ \A x \in D \ {f} : x \notin wrapper /\ state[x] \in {"created", "done"}
  BY <1>1, <1>2, DoomedQuiet, DoomedFacts DEF IInv
<1>5. \A x \in Frame : state'[x] = IF x \in D THEN "destroyed" ELSE state[x]
  BY <1>1 DEF FinishWrapper, WithTask, Destroyed
<1>6. \A i \in Holder, w \in Variable : handle'[i][w] =
        IF i \in D THEN None ELSE handle[i][w]
  BY <1>1 DEF FinishWrapper, HandlesWithout, IInv, TypeOK
<1>7. TypeOK'
  <2>1. state' \in [Frame -> {"none", "created", "running", "awaiting", "done", "destroyed"}]
    BY DEF FinishWrapper, WithTask, Destroyed, IInv, TypeOK
  <2>2. handle' \in [Holder -> [Variable -> Frame \cup {None}]]
    BY DEF FinishWrapper, HandlesWithout, IInv, TypeOK
  <2>3. queue \subseteq {x \in wrapper : state'[x] = "created"}
    BY <1>2, <1>4, <1>5 DEF IInv, TypeOK
  <2>4. current' \in [Thread -> Frame \cup {None}]
    BY <1>3 DEF IInv, TypeOK
  <2> QED
    BY <1>3, <2>1, <2>2, <2>3, <2>4 DEF IInv, TypeOK, promises
<1>8. Dropped(D)
  <2>1. \A i \in Holder, w \in Variable : handle[i][w] # None =>
          (handle[i][w] \in D <=> i \in D \/ handle[i][w] = f)
    BY <1>1, <1>2, DoomedOwners
  <2>2. \A i \in Holder, w \in Variable : handle[i][w] # f
    BY <1>2 DEF IInv, HandleInv
  <2>3. None \notin D
    BY <1>4, TasksAssumption
  <2>4. \A i \in Holder, w \in Variable : handle'[i][w] = Kept(D, i, w)
    BY <1>6, <2>1, <2>2, <2>3 DEF Kept
  <2> QED
    BY <1>4, <1>5, <2>4 DEF Dropped
<1>9. \A s \in Thread : current'[s] = IF s = t THEN None ELSE current[s]
  BY <1>3 DEF IInv, TypeOK
<1> HIDE DEF f
<1>10. HandleInv' /\ LeakInv'
  BY <1>1, <1>2, <1>3, <1>5, <1>8, DropKeepsForest DEF promises
<1>11. WrapperInv'
  <2>1. \A x \in wrapper : x \in Frame
    BY DEF IInv, TypeOK
  <2> QED
    BY <1>3, <1>5, <2>1 DEF IInv, WrapperInv, promises
<1>12. RunInv'
  <2>1. \A s \in Thread : current[s] # None => current[s] \in Frame
    BY DEF IInv, TypeOK
  <2>2. \A s \in Thread : s # t => current[s] # f
    BY <1>2 DEF IInv, RunInv, f
  <2>3. \A x \in Frame : state'[x] = "running" <=> x # f /\ state[x] = "running"
    BY <1>4, <1>5
  <2>4. \A s \in Thread : current'[s] # None => state'[current'[s]] = "running"
    BY <1>9, <2>1, <2>2, <2>3 DEF IInv, RunInv
  <2>5. \A x \in Frame : state'[x] = "running" => \E s \in Thread : current'[s] = x
    BY <1>9, <2>3 DEF IInv, RunInv, f
  <2> QED
    BY <1>9, <2>4, <2>5 DEF IInv, RunInv
<1>13. /\ Active' = Active \ {f}
       /\ \A x \in Frame : state[x] = "awaiting" <=> state'[x] = "awaiting"
       /\ \A x \in Frame : state'[x] \in {"none", "created"} => state'[x] = state[x]
  BY <1>2, <1>4, <1>5 DEF Active
<1>14. \A g \in Active \ {f}, h \in Holder, v \in Variable :
         handle[h][v] = g => handle'[h][v] = g
  BY <1>4, <1>8 DEF Dropped, Kept, Active
<1>15. ContInv'
  <2>1. \A x \in Frame : state'[x] \in {"none", "created"} => cont[x] = None
    BY <1>13 DEF IInv, ContInv
  <2>2. ASSUME NEW g \in Active \ {f}, cont[g] # None
        PROVE  /\ state'[cont[g]] = "awaiting"
               /\ \E v \in Variable : handle'[cont[g]][v] = g
               /\ \A g2 \in Active \ {f} : cont[g2] = cont[g] => g2 = g
    <3>1. cont[g] \in Frame /\ cont[g] \in Holder
      BY <2>2 DEF IInv, TypeOK, Active, Holder
    <3> QED
      BY <1>13, <1>14, <2>2, <3>1 DEF IInv, ContInv
  <2>3. \A x \in Frame : state'[x] = "awaiting" => \E g \in Active \ {f} : cont[g] = x
    BY <1>2, <1>13, TasksAssumption DEF IInv, ContInv
  <2> QED
    BY <1>3, <1>13, <2>1, <2>2, <2>3 DEF ContInv, promises
<1>16. OwnerInv'
  <2> SUFFICES ASSUME NEW g \in Active \ {f}, g \notin wrapper
               PROVE  \E h \in Holder : HolderWaits(h, g)' /\ \E v \in Variable : handle'[h][v] = g
    BY <1>3, <1>13 DEF OwnerInv, promises
  <2>1. PICK h \in Holder : HolderWaits(h, g) /\ \E v \in Variable : handle[h][v] = g
    BY DEF IInv, OwnerInv
  <2>2. h \in Thread => h # t
    <3>1. ContainsStack(t, {f})
      BY <1>2 DEF ContainsStack, f
    <3> QED
      BY <1>2, <2>1, <3>1 DEF HolderWaits, OnStack
  <2>3. h \in Thread => OnStack(h, g)'
    BY <1>3, <1>9, <2>1, <2>2 DEF HolderWaits, OnStack, ContainsStack, promises
  <2>4. h \in Frame => state'[h] = "awaiting" /\ cont'[g] = h
    BY <1>3, <1>13, <2>1 DEF HolderWaits, promises
  <2> QED
    BY <1>14, <2>1, <2>3, <2>4 DEF HolderWaits
<1> QED
  BY <1>7, <1>10, <1>11, <1>12, <1>15, <1>16 DEF IInv

\* The end of a body: what its variables own dies, and only that; the frame is
\* done and its continuation goes on.
LEMMA FinishFacts ==
  ASSUME IInv, NEW t \in Thread, NEW r, Finish(t, r),
         NEW f, f = current[t], NEW D, D = Doomed(Ended(f))
  PROVE  /\ f \in Frame \ wrapper /\ state[f] = "running"
         /\ D \subseteq Frame
         /\ \A x \in D : x \notin wrapper /\ state[x] \in {"created", "done"}
         /\ cont[f] # None => cont[f] \in Frame /\ state[cont[f]] = "awaiting"
         /\ \A x \in Frame : state'[x] = IF x = cont[f] THEN "running"
                                         ELSE IF x = f THEN "done"
                                         ELSE IF x \in D THEN "destroyed"
                                         ELSE state[x]
         /\ Dropped(D)
         /\ \A v \in Variable \ Parameter :
              handle[f][v] # None => handle[f][v] \in D
<1>1. /\ f \in Frame /\ f \in Holder /\ f \notin Thread /\ f # None
      /\ f \notin wrapper /\ state[f] = "running"
  BY TasksAssumption DEF Finish, Holder, IInv, TypeOK, RunInv
<1>2. /\ Ended(f) \in SUBSET Frame
      /\ \A x \in Ended(f) : x \notin wrapper /\ state[x] \in {"created", "done"}
  BY <1>1, OwnsQuiet, TasksAssumption DEF Ended, Locals
<1>3. /\ D \subseteq Frame /\ Ended(f) \subseteq D
      /\ \A x \in D : x \notin wrapper /\ state[x] \in {"created", "done"}
  BY <1>2, DoomedQuiet, DoomedFacts DEF IInv
<1>4. cont[f] # None => cont[f] \in Frame /\ state[cont[f]] = "awaiting"
  BY <1>1 DEF IInv, ContInv, TypeOK, Active
<1>5. \A x \in Frame : state'[x] = IF x = cont[f] THEN "running"
                                   ELSE IF x = f THEN "done"
                                   ELSE IF x \in D THEN "destroyed"
                                   ELSE state[x]
  BY <1>1, <1>4, TasksAssumption DEF Finish, Destroyed
<1>6. \A v \in Variable \ Parameter :
        handle[f][v] # None => handle[f][v] \in D
  BY <1>1, <1>3 DEF Ended, Locals, IInv, TypeOK
<1>7. \A i \in Holder, w \in Variable : handle'[i][w] =
        IF i \in D \/ (i = f /\ w \notin Parameter) THEN None ELSE handle[i][w]
  BY <1>1, <1>3 DEF Finish, HandlesAfter, HandlesWithout, IInv, TypeOK
<1>8. \A i \in Holder, w \in Variable : handle'[i][w] = Kept(D, i, w)
  <2>1. None \notin D
    BY <1>3, TasksAssumption
  <2>2. ASSUME NEW i \in Holder, NEW w \in Variable, handle[i][w] # None
        PROVE  handle[i][w] \in D <=> i \in D \/ (i = f /\ w \notin Parameter)
    <3>1. handle[i][w] \in D <=> i \in D \/ handle[i][w] \in Ended(f)
      BY <1>2, <2>2, DoomedOwners
    <3>2. handle[i][w] \in Ended(f) <=> i = f /\ w \notin Parameter
      BY <1>1, <2>2 DEF Ended, Locals, IInv, HandleInv, TypeOK
    <3> QED
      BY <3>1, <3>2
  <2> QED
    BY <1>7, <2>1, <2>2 DEF Kept
<1>9. Dropped(D)
  BY <1>1, <1>3, <1>4, <1>5, <1>8, TasksAssumption DEF Dropped
<1> QED
  BY <1>1, <1>3, <1>4, <1>5, <1>6, <1>9

LEMMA FinishStep ==
  ASSUME IInv, NEW t \in Thread, NEW r \in {"value", "error"}, Finish(t, r)
  PROVE  IInv'
<1>1. PICK f, c, D : f = current[t] /\ c = cont[f] /\ D = Doomed(Ended(f))
  OBVIOUS
<1>2. /\ f \in Frame \ wrapper /\ state[f] = "running"
      /\ D \subseteq Frame
      /\ \A x \in D : x \notin wrapper /\ state[x] \in {"created", "done"}
      /\ c # None => c \in Frame /\ state[c] = "awaiting"
      /\ \A x \in Frame : state'[x] = IF x = c THEN "running"
                                      ELSE IF x = f THEN "done"
                                      ELSE IF x \in D THEN "destroyed"
                                      ELSE state[x]
      /\ Dropped(D)
      /\ \A v \in Variable \ Parameter :
           handle[f][v] # None => handle[f][v] \in D
  BY <1>1, FinishFacts
<1>3. /\ result' = [result EXCEPT ![f] = r]
      /\ current' = [current EXCEPT ![t] = c]
      /\ UNCHANGED <<wrapper, cont, queue, overwritten>>
  BY <1>1 DEF Finish, Stored
<1>4. /\ f # None /\ f # c /\ None \notin Frame
      /\ \A s \in Thread : current'[s] = IF s = t THEN c ELSE current[s]
  BY <1>2, <1>3, TasksAssumption DEF IInv, TypeOK
<1>5. TypeOK'
  <2>1. c \in Frame \cup {None}
    BY <1>2
  <2>2. state' \in [Frame -> {"none", "created", "running", "awaiting", "done", "destroyed"}]
    <3>1. Destroyed(Ended(f)) \in
            [Frame -> {"none", "created", "running", "awaiting", "done", "destroyed"}]
      BY DEF Destroyed, IInv, TypeOK
    <3> QED
      BY <1>1, <3>1 DEF Finish
  <2>3. handle' \in [Holder -> [Variable -> Frame \cup {None}]]
    <3> DEFINE Handles == [Variable -> Frame \cup {None}]
               left == [v \in Variable |-> IF v \in Parameter THEN handle[f][v] ELSE None]
    <3>1. handle \in [Holder -> Handles]
      BY DEF IInv, TypeOK
    <3>2. HandlesWithout(D) \in [Holder -> Handles]
      BY <3>1 DEF HandlesWithout
    <3>3. left \in Handles
      <4>1. f \in Holder
        BY <1>2 DEF Holder
      <4> QED
        BY <3>1, <4>1
    <3>4. handle' = [HandlesWithout(D) EXCEPT ![f] = left]
      BY <1>1 DEF Finish, HandlesAfter
    <3> HIDE DEF Handles, left
    <3>5. handle' \in [Holder -> Handles]
      BY <3>2, <3>3, <3>4
    <3> QED
      BY <3>5 DEF Handles
  <2>4. queue \subseteq {x \in wrapper : state'[x] = "created"}
    BY <1>2, <1>4 DEF IInv, TypeOK
  <2>5. current' \in [Thread -> Frame \cup {None}]
    BY <1>3, <2>1 DEF IInv, TypeOK
  <2>6. result' \in [Frame -> {"unset", "value", "moved", "error"}]
    BY <1>3 DEF IInv, TypeOK
  <2> QED
    BY <1>3, <2>2, <2>3, <2>4, <2>5, <2>6 DEF IInv, TypeOK
<1>6. HandleInv' /\ LeakInv'
  <2>1. \A x \in Frame \ D : \/ state'[x] = state[x]
                             \/ /\ state[x] \in {"running", "awaiting"}
                                /\ state'[x] = "running"
                             \/ /\ state[x] = "running" /\ state'[x] = "done"
                                /\ \A v \in Variable \ Parameter :
                                     handle[x][v] # None => handle[x][v] \in D
    BY <1>2, TasksAssumption
  <2>2. Ended(f) \in SUBSET Frame
    BY DEF Ended, Locals
  <2> QED
    BY <1>1, <1>2, <1>3, <2>1, <2>2, DropKeepsForest
<1>7. WrapperInv'
  <2>1. \A x \in wrapper : x \in Frame
    BY DEF IInv, TypeOK
  <2> QED
    BY <1>2, <1>3, <2>1 DEF IInv, WrapperInv
<1>8. RunInv'
  <2>1. \A s \in Thread : current[s] # None => current[s] \in Frame
    BY DEF IInv, TypeOK
  <2>2. \A s \in Thread : s # t => current[s] # f
    BY <1>1, <1>4 DEF IInv, RunInv
  <2>3. \A x \in Frame : state'[x] = "running" <=> x = c \/ (x # f /\ state[x] = "running")
    BY <1>2
  <2>4. \A s \in Thread : current'[s] # None => state'[current'[s]] = "running"
    BY <1>2, <1>4, <2>1, <2>2, <2>3 DEF IInv, RunInv
  <2>5. \A s, p \in Thread : current'[s] # None /\ current'[s] = current'[p] => s = p
    BY <1>2, <1>4 DEF IInv, RunInv
  <2>6. ASSUME NEW x \in Frame, state'[x] = "running"
        PROVE  \E s \in Thread : current'[s] = x
    <3>1. CASE x = c
      BY <1>4, <3>1
    <3>2. CASE x # c
      <4>1. PICK s \in Thread : current[s] = x
        BY <2>3, <2>6, <3>2 DEF IInv, RunInv
      <4> QED
        BY <1>1, <1>4, <2>3, <2>6, <3>2, <4>1
    <3> QED
      BY <3>1, <3>2
  <2> QED
    BY <2>4, <2>5, <2>6 DEF RunInv
<1>9. /\ Active' = Active \ {f}
      /\ \A x \in Frame : state'[x] = "awaiting" <=> x # c /\ state[x] = "awaiting"
      /\ \A x \in Frame : state'[x] \in {"none", "created"} => state'[x] = state[x]
  <2>1. \A x \in Frame : x = c => state[x] = "awaiting"
    BY <1>2, <1>4
  <2>2. ASSUME NEW x \in Frame
        PROVE  /\ state'[x] \in {"running", "awaiting"} <=>
                    x # f /\ state[x] \in {"running", "awaiting"}
               /\ state'[x] = "awaiting" <=> x # c /\ state[x] = "awaiting"
               /\ state'[x] \in {"none", "created"} => state'[x] = state[x]
    <3>1. CASE x = c \/ x = f
      BY <1>2, <1>4, <2>1, <3>1
    <3>2. CASE x # c /\ x # f
      BY <1>2, <3>2
    <3> QED
      BY <3>1, <3>2
  <2> QED
    BY <2>2 DEF Active
<1>10. \A g \in Active \ {f} : cont[g] # None => cont[g] # c
  BY <1>1, <1>2 DEF IInv, ContInv, Active
<1>11. \A g \in Active \ {f}, h \in Holder, v \in Variable :
         handle[h][v] = g => handle'[h][v] = g
  BY <1>2 DEF Dropped, Kept, Active
<1>12. ContInv'
  <2>1. \A x \in Frame : state'[x] \in {"none", "created"} => cont[x] = None
    BY <1>9 DEF IInv, ContInv
  <2>2. ASSUME NEW g \in Active \ {f}, cont[g] # None
        PROVE  /\ state'[cont[g]] = "awaiting"
               /\ \E v \in Variable : handle'[cont[g]][v] = g
               /\ \A g2 \in Active \ {f} : cont[g2] = cont[g] => g2 = g
    <3>1. cont[g] \in Frame /\ cont[g] \in Holder
      BY <2>2 DEF IInv, TypeOK, Active, Holder
    <3> QED
      BY <1>9, <1>10, <1>11, <2>2, <3>1 DEF IInv, ContInv
  <2>3. ASSUME NEW x \in Frame, state'[x] = "awaiting"
        PROVE  \E g \in Active \ {f} : cont[g] = x
    <3>1. PICK g \in Active : cont[g] = x
      BY <1>9, <2>3 DEF IInv, ContInv
    <3>2. g # f
      BY <1>1, <1>9, <2>3, <3>1
    <3> QED
      BY <3>1, <3>2
  <2> QED
    BY <1>3, <1>9, <2>1, <2>2, <2>3 DEF ContInv
<1>13. OwnerInv'
  <2> SUFFICES ASSUME NEW g \in Active \ {f}, g \notin wrapper
               PROVE  \E h \in Holder : HolderWaits(h, g)' /\ \E v \in Variable : handle'[h][v] = g
    BY <1>3, <1>9 DEF OwnerInv
  <2>1. PICK h \in Holder : HolderWaits(h, g) /\ \E v \in Variable : handle[h][v] = g
    BY DEF IInv, OwnerInv
  <2>2. h \in Frame => state'[h] = "awaiting" /\ cont'[g] = h
    BY <1>3, <1>9, <1>10, <2>1, TasksAssumption DEF HolderWaits
  <2>3. ASSUME h \in Thread PROVE OnStack(h, g)'
    <3> SUFFICES ASSUME NEW C \in SUBSET Frame, ContainsStack(h, C)'
                 PROVE  g \in C
      BY DEF OnStack
    <3>1. CASE h = t
      <4>1. ContainsStack(t, C \cup {f})
        BY <1>1, <1>3, <1>4, <3>1 DEF ContainsStack
      <4>2. C \cup {f} \in SUBSET Frame
        BY <1>2
      <4> QED
        BY <2>1, <2>3, <3>1, <4>1, <4>2 DEF HolderWaits, OnStack
    <3>2. CASE h # t
      <4>1. ContainsStack(h, C)
        BY <1>3, <1>4, <2>3, <3>2 DEF ContainsStack
      <4> QED
        BY <2>1, <2>3, <4>1 DEF HolderWaits, OnStack
    <3> QED
      BY <3>1, <3>2
  <2> QED
    BY <1>11, <2>1, <2>2, <2>3 DEF HolderWaits
<1> QED
  BY <1>5, <1>6, <1>7, <1>8, <1>12, <1>13 DEF IInv

-----------------------------------------------------------------------------
(* The invariant, and what follows from it. *)

LEMMA InitInvariant == Init => IInv
<1> SUFFICES ASSUME Init PROVE IInv
  OBVIOUS
<1>1. TypeOK
  BY DEF Init, TypeOK
<1>2. HandleInv /\ LeakInv /\ WrapperInv /\ RunInv
  BY TasksAssumption DEF Init, HandleInv, LeakInv, WrapperInv, RunInv
<1>3. ContInv /\ OwnerInv
  BY DEF Init, ContInv, OwnerInv, Active
<1> QED
  BY <1>1, <1>2, <1>3 DEF IInv

LEMMA NextInvariant == IInv /\ [Next]_vars => IInv'
<1> SUFFICES ASSUME IInv, [Next]_vars PROVE IInv'
  OBVIOUS
<1>1. ASSUME NEW t \in Thread, NEW h \in Holder, Body(t, h) PROVE IInv'
  BY <1>1, CallStep, CallWithStep, MoveConstructStep, MoveAssignStep, EndOfScopeStep,
     TakeStep, SpawnStep DEF Body
<1>2. ASSUME NEW t \in Thread, NEW v \in Variable, Resume(t, v) \/ Await(t, v)
      PROVE  IInv'
  BY <1>2, ResumeStep, AwaitStep
<1>3. ASSUME NEW t \in Thread, NEW r \in {"value", "error"}, Finish(t, r)
      PROVE  IInv'
  BY <1>3, FinishStep
<1>4. ASSUME NEW t \in Thread, NEW f \in Frame, RunWrapper(t, f)
      PROVE  IInv'
  BY <1>4, RunWrapperStep
<1>5. ASSUME NEW t \in Thread, FinishWrapper(t) PROVE IInv'
  BY <1>5, FinishWrapperStep
<1>6. ASSUME NEW f \in Frame, DestroyQueued(f) PROVE IInv'
  BY <1>6, DestroyQueuedStep
<1>7. CASE UNCHANGED vars
  <2>1. HandleInv'
    BY <1>7 DEF vars, promises, IInv, HandleInv, Keeps
  <2>2. (TypeOK /\ LeakInv /\ WrapperInv /\ RunInv /\ ContInv /\ OwnerInv)'
    BY <1>7 DEF vars, promises, IInv, TypeOK, LeakInv, WrapperInv, RunInv, ContInv,
                OwnerInv, HolderWaits, OnStack, ContainsStack, Active
  <2> QED
    BY <2>1, <2>2 DEF IInv
<1> QED
  BY <1>1, <1>2, <1>3, <1>4, <1>5, <1>6, <1>7 DEF Next

\* The inductive invariant holds in every state.
THEOREM Invariant == Spec => []IInv
  BY InitInvariant, NextInvariant, PTL DEF Spec

LEMMA AtMostOne ==
  ASSUME NEW S, \A x, y \in S : x = y
  PROVE  Cardinality(S) = IF S = {} THEN 0 ELSE 1
<1>1. CASE S = {}
  BY <1>1, FS_EmptySet
<1>2. CASE S # {}
  <2>1. PICK x \in S : S = {x}
    BY <1>2
  <2> QED
    BY <1>2, <2>1, FS_Singleton
<1> QED
  BY <1>1, <1>2

LEMMA OwnershipFollows == IInv => Ownership
<1> SUFFICES ASSUME IInv PROVE Ownership
  OBVIOUS
<1>1. OneOwner
  <2>1. ASSUME NEW f \in Frame PROVE Cardinality(Owners(f)) <= 1
    <3>1. \A p, q \in Owners(f) : p = q
      <4> SUFFICES ASSUME NEW p \in Owners(f), NEW q \in Owners(f) PROVE p = q
        OBVIOUS
      <4>1. PICK h \in Holder, v \in Variable : p = <<h, v>> /\ handle[h][v] = f
        BY DEF Owners
      <4>2. PICK i \in Holder, w \in Variable : q = <<i, w>> /\ handle[i][w] = f
        BY DEF Owners
      <4>3. h = i /\ v = w
        BY <4>1, <4>2, TasksAssumption DEF IInv, HandleInv
      <4> QED
        BY <4>1, <4>2, <4>3
    <3> QED
      BY <3>1, AtMostOne
  <2>2. \A h \in Holder, v \in Variable : handle[h][v] # None =>
          /\ handle[h][v] \in Living
          /\ h \in Frame =>
               \/ state[h] \in {"created", "running", "awaiting"}
               \/ state[h] = "done" /\ v \in Parameter
    BY DEF IInv, HandleInv, Keeps, TypeOK, Living
  <2> QED
    BY <2>1, <2>2 DEF OneOwner
<1>2. NoLeak
  <2> SUFFICES ASSUME NEW f \in Living, f \notin wrapper \cup overwritten
               PROVE  Owners(f) # {}
    BY DEF NoLeak
  <2>1. PICK h \in Holder, v \in Variable : handle[h][v] = f
    BY DEF IInv, LeakInv, Living
  <2>2. <<h, v>> \in Owners(f)
    BY <2>1 DEF Owners
  <2> QED
    BY <2>2
<1>3. RunsOnce
  <2>1. ASSUME NEW f \in Frame
        PROVE  Cardinality({t \in Thread : current[t] = f})
                 = IF state[f] = "running" THEN 1 ELSE 0
    <3> DEFINE S == {t \in Thread : current[t] = f}
    <3>1. \A t, s \in S : t = s
      BY TasksAssumption DEF IInv, RunInv
    <3>2. S = {} <=> state[f] # "running"
      BY TasksAssumption DEF IInv, RunInv
    <3>3. Cardinality(S) = IF S = {} THEN 0 ELSE 1
      BY <3>1, AtMostOne
    <3> QED
      BY <3>2, <3>3
  <2>2. \A f \in Frame : state[f] = "destroyed" =>
          \A g \in Living : cont[g] = f => state[g] = "done"
    <3> SUFFICES ASSUME NEW f \in Frame, state[f] = "destroyed",
                        NEW g \in Living, cont[g] = f, state[g] # "done"
                 PROVE  FALSE
      OBVIOUS
    <3>1. state[g] \in {"created", "running", "awaiting"} /\ g \in Frame
      BY DEF Living, IInv, TypeOK
    <3> QED
      BY <3>1, TasksAssumption DEF IInv, ContInv, Active
  <2> QED
    BY <2>1, <2>2 DEF RunsOnce
<1> QED
  BY <1>1, <1>2, <1>3 DEF IInv, Ownership

LEMMA WillBeResumedFollows == IInv => WillBeResumed
<1> SUFFICES ASSUME IInv, NEW f \in Frame, state[f] = "awaiting"
             PROVE  /\ Cardinality({g \in Living : cont[g] = f /\ state[g] # "done"}) = 1
                    /\ \E g \in Owned(f) :
                         cont[g] = f /\ state[g] \in {"running", "awaiting"}
  BY DEF WillBeResumed
<1>1. PICK g \in Active : cont[g] = f
  BY DEF IInv, ContInv
<1>2. g \in Owned(f) /\ \A x \in Active : cont[x] = f => x = g
  BY <1>1, TasksAssumption DEF Owned, IInv, ContInv, Active
<1>3. ASSUME NEW x \in Living, cont[x] = f, state[x] # "done" PROVE x = g
  <2>1. x \in Frame /\ state[x] \in {"created", "running", "awaiting"}
    BY <1>3 DEF Living, IInv, TypeOK
  <2> QED
    BY <1>2, <1>3, <2>1, TasksAssumption DEF IInv, ContInv, Active
<1>4. {x \in Living : cont[x] = f /\ state[x] # "done"} = {g}
  BY <1>1, <1>3 DEF Active, Living
<1> QED
  BY <1>1, <1>2, <1>4, FS_Singleton DEF Active

\* A frame has one owner, lives as long as it, runs on one thread and is not
\* destroyed while it runs or waits (task.h, enqueue_tasks.h).
THEOREM OneOwnerAndThread == Spec => []Ownership
  BY Invariant, OwnershipFollows, PTL

\* An awaiting coroutine is the continuation of one active frame, which it owns.
THEOREM Resumed == Spec => []WillBeResumed
  BY Invariant, WillBeResumedFollows, PTL

\* Only the end of the body it awaits resumes a coroutine.
LEMMA OnlyFinishResumes ==
  ASSUME IInv, Next, NEW f \in Frame, state[f] = "awaiting", state'[f] = "running"
  PROVE  \E t \in Thread, r \in {"value", "error"} : Finish(t, r)
<1>1. ASSUME NEW t \in Thread, NEW h \in Holder, Body(t, h) PROVE FALSE
  <2>1. \/ state' = state
        \/ \E g \in Frame : state[g] = "none" /\ state' = [state EXCEPT ![g] = "created"]
        \/ \E S \in SUBSET Frame : state' = Destroyed(S)
    <3>1. ASSUME NEW v \in Variable, EndOfScope(t, h, v)
          PROVE  \E S \in SUBSET Frame : state' = Destroyed(S)
      <4>1. handle[h][v] \in Frame
        BY <3>1 DEF EndOfScope, IInv, TypeOK
      <4> QED
        BY <3>1, <4>1 DEF EndOfScope
    <3>2. ASSUME NEW v \in Variable, NEW g \in Frame,
                 Call(t, h, v, g) \/ \E p \in Parameter :
                   \/ \E arg \in Variable : CallWith(t, h, v, g, arg, p)
                   \/ Spawn(t, h, v, g, p)
          PROVE  state[g] = "none" /\ state' = [state EXCEPT ![g] = "created"]
      BY <3>2 DEF Call, CallWith, Spawn
    <3>3. ASSUME NEW v \in Variable, NEW s \in Variable,
                 MoveConstruct(t, h, v, s) \/ MoveAssign(t, h, v, s) \/ Take(t, h, v)
          PROVE  state' = state
      BY <3>3 DEF MoveConstruct, MoveAssign, Take
    <3> QED
      BY <1>1, <3>1, <3>2, <3>3 DEF Body
  <2> QED
    BY <2>1 DEF Destroyed, IInv, TypeOK
<1>2. ASSUME NEW t \in Thread, NEW v \in Variable, Resume(t, v) \/ Await(t, v)
      PROVE  FALSE
  BY <1>2 DEF Resume, Await, IInv, TypeOK
<1>3. ASSUME NEW t \in Thread, NEW g \in Frame, RunWrapper(t, g)
      PROVE  FALSE
  BY <1>3 DEF RunWrapper, IInv, TypeOK
<1>4. ASSUME NEW t \in Thread, FinishWrapper(t) PROVE FALSE
  BY <1>4 DEF FinishWrapper, WithTask, Destroyed
<1>5. ASSUME NEW g \in Frame, DestroyQueued(g) PROVE FALSE
  BY <1>5 DEF DestroyQueued, Destroyed
<1> QED
  BY <1>1, <1>2, <1>3, <1>4, <1>5 DEF Next

LEMMA ResultFirstStep ==
  ASSUME IInv, [Next]_vars
  PROVE  [\A f \in Frame : state[f] = "awaiting" /\ state'[f] = "running" =>
            \E g \in Owned(f) : /\ cont[g] = f
                                /\ state'[g] = "done"
                                /\ result'[g] \in {"value", "error"}
                                /\ Owners(g)' = Owners(g)]_vars
<1> SUFFICES ASSUME vars' # vars, NEW f \in Frame,
                    state[f] = "awaiting", state'[f] = "running"
             PROVE  \E g \in Owned(f) : /\ cont[g] = f
                                        /\ state'[g] = "done"
                                        /\ result'[g] \in {"value", "error"}
                                        /\ Owners(g)' = Owners(g)
  OBVIOUS
<1>1. PICK t \in Thread, r \in {"value", "error"} : Finish(t, r)
  BY OnlyFinishResumes
<1>2. PICK g, D : g = current[t] /\ D = Doomed(Ended(g))
  OBVIOUS
<1>3. /\ g \in Frame /\ state[g] = "running"
      /\ \A x \in D : state[x] \in {"created", "done"}
      /\ \A x \in Frame : state'[x] = IF x = cont[g] THEN "running"
                                      ELSE IF x = g THEN "done"
                                      ELSE IF x \in D THEN "destroyed"
                                      ELSE state[x]
      /\ Dropped(D)
  BY <1>1, <1>2, FinishFacts
<1>4. cont[g] = f
  BY <1>3
<1>5. g \in Owned(f)
  BY <1>3, <1>4, TasksAssumption DEF Owned, IInv, ContInv, Active
<1>6. state'[g] = "done" /\ result'[g] = r
  BY <1>1, <1>2, <1>3, <1>4 DEF Finish, Stored, IInv, TypeOK
<1>7. Owners(g)' = Owners(g)
  <2>1. g \notin D /\ g # None
    BY <1>3, TasksAssumption
  <2>2. \A h \in Holder, v \in Variable : handle'[h][v] = g <=> handle[h][v] = g
    BY <1>3, <2>1 DEF Dropped, Kept
  <2>3. \A p \in Holder \X Variable : handle'[p[1]][p[2]] = g <=> handle[p[1]][p[2]] = g
    BY <2>2
  <2> QED
    BY <2>3 DEF Owners
<1> QED
  BY <1>4, <1>5, <1>6, <1>7

\* When an awaiting coroutine goes on, the coroutine it awaited has ended, its
\* result is stored and its frame is still owned by who awaited it.
THEOREM ResultBeforeResume == Spec => ResultFirst
<1>1. IInv /\ [Next]_vars =>
        [\A f \in Frame : state[f] = "awaiting" /\ state'[f] = "running" =>
            \E g \in Owned(f) : /\ cont[g] = f
                                /\ state'[g] = "done"
                                /\ result'[g] \in {"value", "error"}
                                /\ Owners(g)' = Owners(g)]_vars
  BY ResultFirstStep
<1> QED
  BY <1>1, Invariant, PTL DEF Spec, ResultFirst
=============================================================================
