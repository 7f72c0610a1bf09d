---------------------------- MODULE PipelineProofs ----------------------------
(***************************************************************************)
(* Proofs about Pipeline, for any number of commands of any kind, any      *)
(* capacity of the pipes and any failing calls.                            *)
(***************************************************************************)
EXTENDS Pipeline, SequenceFacts, FiniteSetTheorems, TLAPS

Pcs == {"pipe", "fork", "close", "wait", "done", "failed"}
ChildPcs == {"none", "dup", "close", "exec", "run", "exit", "dead", "reaped"}

\* The ends of the pipes a to b, and those a stage uses.
EndsOf(a, b) == {"r", "w"} \X (a..b)
AllEnds == EndsOf(1, num - 1)
Own(i) == {e \in AllEnds : e = <<"r", i - 1>> \/ e = <<"w", i>>}

Typed ==
    /\ \E n \in 1..MaxStages : kind \in [1..n -> Kinds]
    /\ held \in 0..Capacity
    /\ pc \in Pcs
    /\ k \in 1..num
    /\ rc \in {0, 1, CallError}
    /\ fds \in [0..num -> SUBSET AllEnds]
    /\ std \in [0..num -> SUBSET AllEnds]
    /\ buf \in [1..num - 1 -> 0..Capacity]
    /\ cpc \in [1..num -> ChildPcs]
    /\ todo \in [1..num -> (-1..Amount + 1) \cup 0..Capacity]
    /\ code \in [1..num -> {-1, 0, 1}]

(***************************************************************************)
(* What the shell and each child hold at each point of their prologues:    *)
(* the shell has made the pipes before the first fork, so a child starts   *)
(* with all of them and closes them from the first to the last.            *)
(***************************************************************************)
ShellHolds ==
    /\ std[0] = {}
    /\ pc = "pipe" => fds[0] = EndsOf(1, k - 1) /\ (k < num \/ k = 1)
    /\ pc = "fork" => fds[0] = AllEnds
    /\ pc = "close" => fds[0] = EndsOf(k, num - 1) /\ (k < num \/ k = 1)
    /\ pc \in {"wait", "done"} => fds[0] = {}

ChildHolds(i) ==
    /\ cpc[i] \in {"none", "dead", "reaped"} => fds[i] = {} /\ std[i] = {}
    /\ cpc[i] = "dup" => fds[i] = AllEnds /\ std[i] = {}
    /\ cpc[i] = "close" => std[i] = Own(i) /\ \E j \in 1..num - 1 : fds[i] = EndsOf(j, num - 1)
    /\ cpc[i] \in {"exec", "run", "exit"} => std[i] = Own(i) /\ fds[i] = {}
    /\ cpc[i] = "exit" => todo[i] <= Capacity

\* How far the loops of the shell have brought each child.
Progress(i) ==
    /\ pc = "pipe" => cpc[i] = "none"
    /\ pc = "fork" => (cpc[i] = "none" <=> i >= k)
    /\ pc \in {"close", "wait"} => cpc[i] # "none"
    /\ cpc[i] = "reaped" => pc = "done" \/ (pc = "wait" /\ i < k)
    /\ pc = "wait" /\ i < k => cpc[i] = "reaped"
    /\ pc = "done" => cpc[i] = "reaped"

ReturnsLast == pc = "done" => rc = (IF code[num] = 0 THEN 0 ELSE 1)

PipelineInv ==
    /\ Typed
    /\ ShellHolds
    /\ \A i \in 1..num : ChildHolds(i) /\ Progress(i)
    /\ ReturnsLast

-----------------------------------------------------------------------------
\* The stages of a list are numbered from 1, the pipes from 1 to one less.
LEMMA Numbering ==
    ASSUME NEW n \in 1..MaxStages, kind \in [1..n -> Kinds]
    PROVE  num = n /\ Stages = 1..num /\ Pipes = 1..num - 1
<1>1. n \in Nat /\ n >= 1
  BY PipelineAssumption
<1>2. Cardinality(1..n) = n
  BY <1>1, FS_Interval
<1> QED
  BY <1>1, <1>2 DEF num, Stages, Pipes

LEMMA NumType ==
    ASSUME Typed
    PROVE  num \in 1..MaxStages /\ num \in Nat /\ Stages = 1..num /\ Pipes = 1..num - 1
BY Numbering, PipelineAssumption DEF Typed

LEMMA AllEndsAre ==
    ASSUME Typed
    PROVE  UNION {Ends(j) : j \in Pipes} = AllEnds
BY NumType DEF Ends, AllEnds, EndsOf

\* Ends of neighbouring pipes.
LEMMA EndsSplit ==
    ASSUME NEW a \in Int, NEW b \in Int
    PROVE  /\ a <= b => EndsOf(a, b - 1) \cup Ends(b) = EndsOf(a, b)
           /\ a <= b => EndsOf(a, b) \ Ends(a) = EndsOf(a + 1, b)
           /\ b < a => EndsOf(a, b) = {}
BY DEF EndsOf, Ends

\* An action that leaves the commands alone leaves their number alone.
LEMMA SameNumber ==
    ASSUME Typed, UNCHANGED lineVars
    PROVE  num' = num /\ AllEnds' = AllEnds /\ \A i : Own(i)' = Own(i)
<1>1. kind' = kind
  BY DEF lineVars
<1>2. num' = num
  BY <1>1 DEF num
<1>3. AllEnds' = AllEnds
  BY <1>2 DEF AllEnds
<1> QED
  BY <1>1, <1>2, <1>3 DEF Own

-----------------------------------------------------------------------------
\* Each step of the shell keeps the invariant.
LEMMA ShellStep ==
    ASSUME PipelineInv, Shell
    PROVE  PipelineInv'
<1> USE DEF PipelineInv
<1>1. num \in 1..MaxStages /\ num \in Nat /\ Stages = 1..num /\ Pipes = 1..num - 1 /\ MaxStages \in Nat
  BY NumType, PipelineAssumption
<1>2. UNCHANGED lineVars
  BY DEF Shell, MakePipe, CallFails, Fork, ShellCloses, Wait
<1>3. num' = num /\ AllEnds' = AllEnds /\ \A i : Own(i)' = Own(i)
  BY <1>2, SameNumber
<1>4. k \in Nat /\ k >= 1 /\ k <= num
  BY <1>1 DEF Typed
<1>5. /\ kind' = kind /\ held' = held
      /\ fds \in [0..num -> SUBSET AllEnds] /\ cpc \in [1..num -> ChildPcs]
  BY <1>2 DEF lineVars, Typed
<1> DEFINE Kept == UNCHANGED <<std, buf, todo, code>>
\* What each step does to the index of its loop.
<1>6. CASE MakePipe
  <2>1. pc = "pipe" /\ NextIn(num - 1, "fork") /\ UNCHANGED rc /\ UNCHANGED cpc /\ Kept
    BY <1>6 DEF MakePipe, childVars
  <2>2. fds[0] = EndsOf(1, k - 1) /\ (k < num \/ k = 1)
    BY <2>1 DEF ShellHolds
  <2>3. /\ k < num => fds' = [fds EXCEPT ![0] = EndsOf(1, k)]
        /\ ~(k < num) => fds' = [fds EXCEPT ![0] = {}] /\ num = 1
    <3>1. CASE num = 1
      <4>1. fds' = fds /\ k = 1
        BY <1>1, <1>4, <1>6, <3>1 DEF MakePipe
      <4>2. EndsOf(1, k - 1) = {}
        BY <4>1, EndsSplit
      <4> QED
        BY <1>1, <1>5, <2>2, <3>1, <4>1, <4>2
    <3>2. CASE num > 1
      <4>1. EndsOf(1, k - 1) \cup Ends(k) = EndsOf(1, k)
        BY <1>4, EndsSplit
      <4>2. Pipes # {} /\ k < num
        BY <1>1, <1>4, <2>2, <3>2, 1 \in 1..num - 1
      <4> QED
        BY <1>6, <2>2, <4>1, <4>2 DEF MakePipe
    <3> QED
      BY <1>1, <3>1, <3>2
  <2>4. CASE k < num - 1
    <3>1. pc' = "pipe" /\ k' = k + 1 /\ fds' = [fds EXCEPT ![0] = EndsOf(1, k)]
      BY <1>1, <1>4, <2>1, <2>3, <2>4, k < num DEF NextIn
    <3>2. EndsOf(1, k) \subseteq AllEnds
      BY <1>1, <1>4, <2>4 DEF AllEnds, EndsOf
    <3> QED
      BY <1>1, <1>3, <1>4, <1>5, <2>1, <2>4, <3>1, <3>2
         DEF Typed, Pcs, ShellHolds, ChildHolds, Progress, ReturnsLast
  <2>5. CASE ~(k < num - 1)
    <3>1. pc' = "fork" /\ k' = 1
      BY <2>1, <2>5 DEF NextIn
    <3>2. CASE k < num
      <4>1. k = num - 1
        BY <1>1, <1>4, <2>5, <3>2
      <4>2. fds' = [fds EXCEPT ![0] = AllEnds]
        BY <2>3, <3>2, <4>1 DEF AllEnds
      <4> QED
        BY <1>1, <1>3, <1>4, <1>5, <2>1, <3>1, <4>2
           DEF Typed, Pcs, ShellHolds, ChildHolds, Progress, ReturnsLast
    <3>3. CASE ~(k < num)
      <4>1. AllEnds = {}
        BY <2>3, <3>3, EndsSplit DEF AllEnds
      <4> QED
        BY <1>1, <1>3, <1>4, <1>5, <2>1, <2>3, <3>1, <3>3, <4>1
           DEF Typed, Pcs, ShellHolds, ChildHolds, Progress, ReturnsLast
    <3> QED
      BY <3>2, <3>3
  <2> QED
    BY <2>4, <2>5
<1>7. CASE CallFails
  BY <1>1, <1>3, <1>4, <1>5, <1>7
     DEF CallFails, childVars, Typed, Pcs, ShellHolds, ChildHolds, Progress, ReturnsLast
<1>8. CASE Fork
  <2>1. pc = "fork" /\ NextIn(num, "close") /\ UNCHANGED rc /\ Kept
    BY <1>8 DEF Fork
  <2>2. fds[0] = AllEnds /\ std[k] = {} /\ cpc[k] = "none"
    BY <1>1, <1>4, <2>1 DEF ShellHolds, ChildHolds, Progress
  <2>3. fds' = [fds EXCEPT ![k] = AllEnds] /\ cpc' = [cpc EXCEPT ![k] = "dup"]
    BY <1>8, <2>2 DEF Fork
  <2>4. /\ k < num => pc' = "fork" /\ k' = k + 1
        /\ ~(k < num) => pc' = "close" /\ k' = 1 /\ k = num
    BY <1>1, <1>4, <2>1 DEF NextIn
  <2>5. EndsOf(1, num - 1) = AllEnds
    BY DEF AllEnds
  <2>6. Typed'
    BY <1>1, <1>3, <1>4, <1>5, <2>1, <2>3, <2>4 DEF Typed, Pcs, ChildPcs
  <2>7. ShellHolds' /\ ReturnsLast'
    BY <1>1, <1>3, <1>4, <1>5, <2>1, <2>2, <2>3, <2>4, <2>5 DEF ShellHolds, ReturnsLast, Typed
  <2>8. ASSUME NEW i \in 1..num PROVE ChildHolds(i)' /\ Progress(i)'
    BY <1>1, <1>3, <1>4, <1>5, <2>1, <2>2, <2>3, <2>4 DEF ChildHolds, Progress
  <2> QED
    BY <1>3, <2>6, <2>7, <2>8
<1>9. CASE ShellCloses
  <2>1. pc = "close" /\ NextIn(num - 1, "wait") /\ UNCHANGED rc /\ UNCHANGED cpc /\ Kept
    BY <1>9 DEF ShellCloses, childVars
  <2>2. fds[0] = EndsOf(k, num - 1) /\ (k < num \/ k = 1)
    BY <2>1 DEF ShellHolds
  <2>3. fds' = [fds EXCEPT ![0] = EndsOf(k + 1, num - 1)]
    <3>1. CASE k < num
      <4>1. EndsOf(k, num - 1) \ Ends(k) = EndsOf(k + 1, num - 1)
        BY <1>1, <1>4, <3>1, EndsSplit
      <4> QED
        BY <1>9, <2>2, <4>1 DEF ShellCloses
    <3>2. CASE ~(k < num)
      <4>1. EndsOf(k, num - 1) = {} /\ EndsOf(k + 1, num - 1) = {}
        BY <1>1, <1>4, <3>2, EndsSplit
      <4> QED
        BY <1>9, <2>2, <4>1 DEF ShellCloses
    <3> QED
      BY <3>1, <3>2
  <2>4. /\ k < num - 1 => pc' = "close" /\ k' = k + 1
        /\ ~(k < num - 1) => pc' = "wait" /\ k' = 1
    BY <2>1 DEF NextIn
  <2>5. /\ EndsOf(k + 1, num - 1) \subseteq AllEnds
        /\ ~(k < num - 1) => EndsOf(k + 1, num - 1) = {}
    <3>1. EndsOf(k + 1, num - 1) \subseteq AllEnds
      BY <1>1, <1>4 DEF AllEnds, EndsOf
    <3>2. ASSUME ~(k < num - 1) PROVE EndsOf(k + 1, num - 1) = {}
      BY <1>1, <1>4, <3>2, EndsSplit
    <3> QED
      BY <3>1, <3>2
  <2>6. Typed'
    BY <1>1, <1>3, <1>4, <1>5, <2>1, <2>3, <2>4, <2>5 DEF Typed, Pcs
  <2>7. ShellHolds' /\ ReturnsLast'
    BY <1>1, <1>3, <1>4, <1>5, <2>1, <2>2, <2>3, <2>4, <2>5 DEF ShellHolds, ReturnsLast
  <2>8. ASSUME NEW i \in 1..num PROVE ChildHolds(i)' /\ Progress(i)'
    BY <1>1, <1>3, <1>4, <1>5, <2>1, <2>3, <2>4 DEF ChildHolds, Progress
  <2> QED
    BY <1>3, <2>6, <2>7, <2>8
<1>10. CASE Wait
  <2>1. pc = "wait" /\ NextIn(num, "done") /\ UNCHANGED fds /\ Kept /\ cpc[k] = "dead"
        /\ cpc' = [cpc EXCEPT ![k] = "reaped"]
    BY <1>10 DEF Wait
  <2>2. /\ k < num => pc' = "wait" /\ k' = k + 1
        /\ ~(k < num) => pc' = "done" /\ k' = 1 /\ k = num
    BY <1>1, <1>4, <2>1 DEF NextIn
  <2>3. code[k] \in {-1, 0, 1} /\ rc' = LastStatus(IF code[k] = -1 THEN 1 ELSE code[k])
    BY <1>1, <1>4, <1>10 DEF Wait, Typed
  <2>4. rc' \in {0, 1, CallError} /\ (k = num => rc' = (IF code[num] = 0 THEN 0 ELSE 1))
    BY <2>3 DEF LastStatus, Typed
  <2>5. Typed'
    BY <1>1, <1>3, <1>4, <1>5, <2>1, <2>2, <2>4 DEF Typed, Pcs, ChildPcs
  <2>6. ShellHolds' /\ ReturnsLast'
    BY <1>1, <1>3, <1>4, <1>5, <2>1, <2>2, <2>4 DEF ShellHolds, ReturnsLast
  <2>7. ASSUME NEW i \in 1..num PROVE ChildHolds(i)'
    BY <1>1, <1>3, <1>5, <2>1 DEF ChildHolds
  <2>8. ASSUME NEW i \in 1..num PROVE Progress(i)'
    <3>1. /\ cpc[i] # "none" /\ (cpc[i] = "reaped" <=> i < k)
          /\ cpc'[i] = IF i = k THEN "reaped" ELSE cpc[i]
      BY <1>5, <2>1 DEF Progress
    <3>2. cpc'[i] # "none" /\ (cpc'[i] = "reaped" <=> i < k + 1)
      BY <1>1, <1>4, <3>1
    <3>3. CASE k < num
      BY <2>2, <3>2, <3>3 DEF Progress
    <3>4. CASE ~(k < num)
      <4>1. i < k + 1
        BY <1>1, <1>4, <2>2, <3>4
      <4> QED
        BY <2>2, <3>2, <3>4, <4>1 DEF Progress
    <3> QED
      BY <3>3, <3>4
  <2> QED
    BY <1>3, <2>5, <2>6, <2>7, <2>8
<1> QED
  BY <1>6, <1>7, <1>8, <1>9, <1>10 DEF Shell

-----------------------------------------------------------------------------
\* What every step of a child leaves alone: the shell, and the other children.
LEMMA OnlyThisChild ==
    ASSUME PipelineInv, NEW c \in 1..num, UNCHANGED <<lineVars, shellVars>>,
           NEW F \in SUBSET AllEnds, fds' = [fds EXCEPT ![c] = F],
           NEW S \in SUBSET AllEnds, std' = [std EXCEPT ![c] = S],
           NEW s \in ChildPcs \ {"none", "reaped"}, cpc' = [cpc EXCEPT ![c] = s],
           NEW n \in (-1..Amount + 1) \cup 0..Capacity, todo' = [todo EXCEPT ![c] = n],
           NEW e \in {-1, 0, 1}, code' = [code EXCEPT ![c] = e],
           buf' \in [1..num - 1 -> 0..Capacity],
           cpc[c] \notin {"none", "reaped"},
           ChildHolds(c)'
    PROVE  PipelineInv'
<1> USE DEF PipelineInv
<1>1. num \in 1..MaxStages /\ num \in Nat /\ num' = num /\ AllEnds' = AllEnds /\ \A i : Own(i)' = Own(i)
  BY NumType, SameNumber
<1>2. kind' = kind /\ held' = held /\ pc' = pc /\ k' = k /\ rc' = rc
  BY DEF lineVars, shellVars
<1>3. Typed'
  BY <1>1, <1>2 DEF Typed
<1>4. ShellHolds'
  BY <1>1, <1>2 DEF ShellHolds, Typed
<1>5. ASSUME NEW i \in 1..num PROVE ChildHolds(i)'
  BY <1>1, <1>5 DEF ChildHolds, Typed
<1>6. ASSUME NEW i \in 1..num PROVE Progress(i)'
  BY <1>1, <1>2 DEF Progress, Typed
<1>7. ReturnsLast'
  BY <1>1, <1>2 DEF ReturnsLast, Progress, Typed
<1> QED
  BY <1>1, <1>3, <1>4, <1>5, <1>6, <1>7

\* Each step of a child keeps the invariant.
LEMMA ChildStep ==
    ASSUME PipelineInv, NEW c \in 1..num, Child(c)
    PROVE  PipelineInv'
<1> USE DEF PipelineInv
<1>1. num \in 1..MaxStages /\ num \in Nat /\ Stages = 1..num /\ Pipes = 1..num - 1
  BY NumType
<1>2. UNCHANGED <<lineVars, shellVars>>
  BY DEF Child, DupFails, ChildDups, ChildCloses, Exec, ExitWrites, Exits, CommandWrites,
         CommandReads, CommandEnds, CommandCrashes, Dies
<1>3. num' = num /\ AllEnds' = AllEnds /\ \A i : Own(i)' = Own(i)
  BY <1>2, SameNumber
<1>4. Typed /\ ChildHolds(c) /\ {} \in SUBSET AllEnds
  OBVIOUS
<1>5. /\ fds[c] \in SUBSET AllEnds /\ std[c] \in SUBSET AllEnds
      /\ cpc[c] \in ChildPcs /\ code[c] \in {-1, 0, 1}
      /\ todo[c] \in (-1..Amount + 1) \cup 0..Capacity
      /\ fds = [fds EXCEPT ![c] = fds[c]] /\ std = [std EXCEPT ![c] = std[c]]
      /\ cpc = [cpc EXCEPT ![c] = cpc[c]] /\ todo = [todo EXCEPT ![c] = todo[c]]
      /\ code = [code EXCEPT ![c] = code[c]]
  BY <1>1, <1>4 DEF Typed
<1>6. ASSUME NEW status \in {-1, 0, 1}, Dies(c, status), cpc[c] \notin {"none", "reaped"}
      PROVE  PipelineInv'
  <2>1. "dead" \in ChildPcs \ {"none", "reaped"} /\ buf' \in [1..num - 1 -> 0..Capacity]
    BY <1>4, <1>6 DEF ChildPcs, Dies, Typed
  <2>2. ChildHolds(c)'
    BY <1>1, <1>4, <1>6 DEF Dies, Typed, ChildHolds
  <2>3. todo' = [todo EXCEPT ![c] = todo[c]]
    BY <1>5, <1>6 DEF Dies
  <2> QED
    BY <1>2, <1>4, <1>5, <1>6, <2>1, <2>2, <2>3, OnlyThisChild DEF Dies
<1>7. CASE DupFails(c) \/ Exits(c) \/ CommandEnds(c) \/ CommandCrashes(c)
  BY <1>6, <1>7 DEF DupFails, Exits, CommandEnds, CommandCrashes
<1>8. CASE ChildDups(c)
  <2>1. std' = [std EXCEPT ![c] = Own(c)]
    <3>1. Own(c) = (IF c > 1 THEN {<<"r", c - 1>>} ELSE {}) \cup (IF c < num THEN {<<"w", c>>} ELSE {})
      BY <1>1 DEF Own, AllEnds, EndsOf
    <3> QED
      BY <1>8, <3>1 DEF ChildDups
  <2>2. Own(c) \in SUBSET AllEnds
    BY DEF Own
  <2>3. PICK s \in {"exec", "close"} : /\ cpc' = [cpc EXCEPT ![c] = s]
                                       /\ s = "exec" <=> Pipes = {}
    BY <1>8 DEF ChildDups
  <2>4. s \in ChildPcs \ {"none", "reaped"}
    BY DEF ChildPcs
  <2>5. ChildHolds(c)'
    <3>1. fds'[c] = AllEnds /\ cpc'[c] = s /\ std'[c] = Own(c)
      <4>1. cpc[c] = "dup" /\ fds' = fds
        BY <1>8 DEF ChildDups
      <4> QED
        BY <1>1, <1>4, <1>5, <2>1, <2>3, <4>1 DEF ChildHolds, Typed
    <3>2. s = "exec" => AllEnds = {}
      BY <1>1, <2>3 DEF AllEnds, EndsOf
    <3>3. s = "close" => 1 \in 1..num - 1 /\ AllEnds = EndsOf(1, num - 1)
      BY <1>1, <2>3 DEF AllEnds
    <3> QED
      BY <1>1, <1>3, <3>1, <3>2, <3>3 DEF ChildHolds
  <2> QED
    BY <1>2, <1>4, <1>5, <1>8, <2>1, <2>2, <2>3, <2>4, <2>5, OnlyThisChild DEF ChildDups, Typed
<1>9. CASE ChildCloses(c)
  <2>1. PICK j \in Pipes :
          /\ Ends(j) \subseteq fds[c]
          /\ \A h \in Pipes : h < j => Ends(h) \cap fds[c] = {}
          /\ fds' = [fds EXCEPT ![c] = @ \ Ends(j)]
          /\ cpc' = IF j = num - 1 THEN [cpc EXCEPT ![c] = "exec"] ELSE cpc
    BY <1>9 DEF ChildCloses
  <2>2. PICK m \in 1..num - 1 : fds[c] = EndsOf(m, num - 1)
    BY <1>4, <1>9 DEF ChildCloses, ChildHolds
  <2>3. m = j
    <3>1. <<"r", j>> \in EndsOf(m, num - 1) /\ <<"r", m>> \in EndsOf(m, num - 1)
      BY <1>1, <2>1, <2>2 DEF Ends, EndsOf
    <3>2. j >= m
      BY <3>1 DEF EndsOf
    <3>3. ~(m < j)
      BY <1>1, <2>1, <2>2, <3>1 DEF Ends
    <3> QED
      BY <1>1, <3>2, <3>3
  <2>4. EndsOf(m, num - 1) \ Ends(m) = EndsOf(m + 1, num - 1)
    BY <1>1, <2>2, EndsSplit
  <2>5. fds' = [fds EXCEPT ![c] = EndsOf(m + 1, num - 1)] /\ EndsOf(m + 1, num - 1) \in SUBSET AllEnds
    <3>1. EndsOf(m + 1, num - 1) \subseteq AllEnds
      BY <1>1 DEF AllEnds, EndsOf
    <3> QED
      BY <2>1, <2>2, <2>3, <2>4, <3>1
  <2>6. std[c] = Own(c) /\ UNCHANGED <<std, buf, todo, code>>
    BY <1>4, <1>9 DEF ChildCloses, ChildHolds
  <2>7. CASE m = num - 1
    <3>1. EndsOf(m + 1, num - 1) = {}
      <4>1. m + 1 \in Int /\ num - 1 \in Int /\ num - 1 < m + 1
        BY <1>1, <2>7
      <4> QED
        BY ONLY <4>1, EndsSplit
    <3>2. cpc' = [cpc EXCEPT ![c] = "exec"] /\ cpc[c] = "close" /\ "exec" \in ChildPcs
      BY <1>9, <2>1, <2>3, <2>7 DEF ChildCloses, ChildPcs
    <3>3. ChildHolds(c)'
      BY <1>1, <1>3, <1>4, <2>5, <2>6, <3>1, <3>2 DEF ChildHolds, Typed
    <3>4. /\ "exec" \in ChildPcs \ {"none", "reaped"} /\ cpc[c] \notin {"none", "reaped"}
          /\ buf' \in [1..num - 1 -> 0..Capacity] /\ std' = [std EXCEPT ![c] = std[c]]
          /\ todo' = [todo EXCEPT ![c] = todo[c]] /\ code' = [code EXCEPT ![c] = code[c]]
      BY <1>4, <1>5, <2>6, <3>2 DEF Typed
    <3> HIDE DEF PipelineInv
    <3> QED
      BY <1>2, <1>5, <2>5, <3>2, <3>3, <3>4, OnlyThisChild
  <2>8. CASE m # num - 1
    <3>1. cpc' = cpc /\ m + 1 \in 1..num - 1 /\ cpc[c] = "close"
      BY <1>1, <1>9, <2>1, <2>2, <2>3, <2>8 DEF ChildCloses
    <3>2. ChildHolds(c)'
      BY <1>1, <1>3, <1>4, <2>5, <2>6, <3>1 DEF ChildHolds, Typed
    <3> QED
      <4>1. /\ cpc' = [cpc EXCEPT ![c] = "close"] /\ "close" \in ChildPcs \ {"none", "reaped"}
            /\ cpc[c] \notin {"none", "reaped"}
        BY <1>5, <3>1 DEF ChildPcs
      <4>2. buf' \in [1..num - 1 -> 0..Capacity] /\ std' = [std EXCEPT ![c] = std[c]]
            /\ todo' = [todo EXCEPT ![c] = todo[c]] /\ code' = [code EXCEPT ![c] = code[c]]
        BY <1>4, <1>5, <2>6 DEF Typed
      <4> HIDE DEF PipelineInv
      <4> QED
        BY <1>2, <1>5, <2>5, <3>2, <4>1, <4>2, OnlyThisChild
  <2> QED
    BY <2>7, <2>8
\* From here on the child holds its own ends and moves units.
<1>10. ASSUME NEW s \in {"run", "exit"}, cpc' = [cpc EXCEPT ![c] = s],
              NEW n \in (-1..Amount + 1) \cup 0..Capacity, todo' = [todo EXCEPT ![c] = n],
              buf' \in [1..num - 1 -> 0..Capacity], UNCHANGED <<fds, std, code>>,
              cpc[c] \in {"exec", "run", "exit"}, s = "exit" => n <= Capacity
       PROVE  PipelineInv'
  <2>1. ChildHolds(c)'
    BY <1>1, <1>3, <1>4, <1>10 DEF ChildHolds, Typed
  <2>2. s \in ChildPcs \ {"none", "reaped"}
    BY DEF ChildPcs
  <2> QED
    BY <1>2, <1>4, <1>5, <1>10, <2>1, <2>2, OnlyThisChild
<1>11. /\ Capacity \in Nat /\ Capacity > 0 /\ Amount \in Nat /\ held \in 0..Capacity
       /\ buf \in [1..num - 1 -> 0..Capacity]
  BY <1>4, PipelineAssumption DEF Typed
<1>12. CASE Exec(c)
  <2> DEFINE s == IF kind[c] = "bad" THEN "exit" ELSE "run"
             n == CASE kind[c] = "source" -> Amount
                    [] kind[c] = "yes"    -> 1
                    [] kind[c] = "bad"    -> held
                    [] OTHER              -> 0
  <2>1. cpc' = [cpc EXCEPT ![c] = s] /\ s \in {"run", "exit"}
    BY <1>12 DEF Exec
  <2>2. todo' = [todo EXCEPT ![c] = n]
    BY <1>12 DEF Exec
  <2>3. n \in (-1..Amount + 1) \cup 0..Capacity
    BY <1>11
  <2>4. s = "exit" => n <= Capacity
    <3>1. s = "exit" => n = held
      OBVIOUS
    <3> QED
      BY <1>11, <3>1
  <2>5. UNCHANGED <<fds, std, code>> /\ buf' = buf /\ cpc[c] = "exec"
    BY <1>12 DEF Exec
  <2>6. buf' \in [1..num - 1 -> 0..Capacity] /\ cpc[c] \in {"exec", "run", "exit"}
    BY <1>11, <2>5
  <2> HIDE DEF s, n
  <2> QED
    BY <1>10, <2>1, <2>2, <2>3, <2>4, <2>5, <2>6
<1>13. CASE ExitWrites(c)
  <2>1. CASE Dies(c, -1)
    BY <1>6, <1>13, <2>1 DEF ExitWrites
  <2>2. CASE ~Dies(c, -1)
    <3>1. /\ cpc[c] = "exit" /\ c < num /\ buf[c] + todo[c] <= Capacity /\ todo[c] > 0
          /\ buf' = [buf EXCEPT ![c] = @ + todo[c]]
          /\ todo' = [todo EXCEPT ![c] = 0]
          /\ UNCHANGED <<fds, std, cpc, code>>
      BY <1>13, <2>2 DEF ExitWrites
    <3>2. buf' \in [1..num - 1 -> 0..Capacity]
      BY <1>1, <1>5, <1>11, <3>1
    <3>3. 0 \in (-1..Amount + 1) \cup 0..Capacity /\ 0 <= Capacity /\ cpc' = [cpc EXCEPT ![c] = "exit"]
      BY <1>5, <1>11, <3>1
    <3> QED
      BY <1>10, <3>1, <3>2, <3>3
  <2> QED
    BY <2>1, <2>2
<1>14. CASE CommandWrites(c)
  <2>1. CASE Dies(c, -1)
    BY <1>6, <1>14, <2>1 DEF CommandWrites
  <2>2. CASE ~Dies(c, -1)
    <3>1. cpc[c] = "run" /\ todo[c] > 0 /\ UNCHANGED <<fds, std, cpc, code>>
      BY <1>14, <2>2 DEF CommandWrites
    <3>2. buf' \in [1..num - 1 -> 0..Capacity]
      <4>1. CASE buf' = buf
        BY <1>11, <4>1
      <4>2. CASE c < num /\ buf[c] < Capacity /\ buf' = [buf EXCEPT ![c] = @ + 1]
        BY <1>1, <1>11, <4>2
      <4> QED
        BY <1>1, <1>14, <2>2, <4>1, <4>2 DEF CommandWrites
    <3>3. PICK n \in {1, -1, todo[c] - 1} : todo' = [todo EXCEPT ![c] = n]
      BY <1>14, <2>2 DEF CommandWrites
    <3>4. n \in (-1..Amount + 1) \cup 0..Capacity
      BY <1>5, <1>11, <3>1
    <3> QED
      BY <1>5, <1>10, <3>1, <3>2, <3>3, <3>4
  <2> QED
    BY <2>1, <2>2
<1>15. CASE CommandReads(c)
  <2>1. /\ cpc[c] = "run" /\ c > 1 /\ buf[c - 1] > 0
        /\ buf' = [buf EXCEPT ![c - 1] = @ - 1]
        /\ todo' = [todo EXCEPT ![c] = 1]
        /\ UNCHANGED <<fds, std, cpc, code>>
    BY <1>15 DEF CommandReads
  <2>2. buf' \in [1..num - 1 -> 0..Capacity]
    BY <1>1, <1>11, <2>1
  <2>3. 1 \in (-1..Amount + 1) \cup 0..Capacity /\ cpc' = [cpc EXCEPT ![c] = "run"]
    BY <1>5, <1>11, <2>1
  <2> QED
    BY <1>10, <2>1, <2>2, <2>3
<1> QED
  BY <1>7, <1>8, <1>9, <1>12, <1>13, <1>14, <1>15 DEF Child

-----------------------------------------------------------------------------
LEMMA PipelineInductive == Spec => []PipelineInv
<1>1. PipelineInit => PipelineInv
  <2> SUFFICES ASSUME PipelineInit PROVE PipelineInv
    OBVIOUS
  <2>1. PICK n \in 1..MaxStages : kind \in [1..n -> Kinds]
    BY DEF PipelineInit
  <2>2. num = n /\ num \in Nat /\ num >= 1 /\ Stages = 1..num /\ Pipes = 1..num - 1
    BY <2>1, Numbering, PipelineAssumption
  <2>3. Stages \cup {0} = 0..num
    BY <2>2
  <2>4. Typed
    BY <2>1, <2>2, <2>3, PipelineAssumption DEF PipelineInit, Typed, Pcs, ChildPcs
  <2>5. EndsOf(1, 0) = {}
    BY EndsSplit
  <2>6. ShellHolds /\ ReturnsLast
    BY <2>2, <2>3, <2>5 DEF PipelineInit, ShellHolds, ReturnsLast
  <2>7. ASSUME NEW i \in 1..num PROVE ChildHolds(i) /\ Progress(i)
    BY <2>2, <2>3 DEF PipelineInit, ChildHolds, Progress
  <2> QED
    BY <2>4, <2>6, <2>7 DEF PipelineInv
<1>2. PipelineInv /\ [Next]_vars => PipelineInv'
  <2> SUFFICES ASSUME PipelineInv, [Next]_vars PROVE PipelineInv'
    OBVIOUS
  <2>1. Stages = 1..num
    BY NumType DEF PipelineInv
  <2>2. CASE Next
    BY <2>1, <2>2, ShellStep, ChildStep DEF Next
  <2>3. CASE UNCHANGED vars
    BY <2>3 DEF vars, PipelineInv, Typed, ShellHolds, ChildHolds, Progress, ReturnsLast,
                num, AllEnds, Own
  <2> QED
    BY <2>2, <2>3
<1> QED
  BY <1>1, <1>2, PTL DEF Spec

\* Type correctness of the shell, its children and the pipes between them.
THEOREM TypeCorrect == Spec => []TypeOK
<1>1. PipelineInv => TypeOK
  <2> SUFFICES ASSUME PipelineInv PROVE TypeOK
    OBVIOUS
  <2>1. num \in 1..MaxStages /\ num \in Nat /\ Stages = 1..num /\ Pipes = 1..num - 1
    BY NumType DEF PipelineInv
  <2>2. UNION {Ends(i) : i \in Pipes} = AllEnds
    BY AllEndsAre DEF PipelineInv
  <2> QED
    BY <2>1, <2>2, PipelineAssumption DEF PipelineInv, Typed, TypeOK, Pcs, Holds
<1> QED
  BY <1>1, PipelineInductive, PTL

\* Whatever calls fail and however the processes interleave, a command runs
\* with the two ends of its own stage and no other: the shell has made all the
\* pipes before the first child is forked, and no path of a child's prologue
\* reaches execvp with an end of another stage open (dshlib.c:312-366).
THEOREM EndsAreOwn == Spec => []OnlyOwnEnds
<1>1. PipelineInv => OnlyOwnEnds
  <2> SUFFICES ASSUME PipelineInv, NEW i \in Stages, cpc[i] \in {"run", "exit"}
               PROVE  Holds(i) = {e \in UNION {Ends(j) : j \in Pipes} : e = <<"r", i - 1>> \/ e = <<"w", i>>}
    BY DEF OnlyOwnEnds
  <2>1. Stages = 1..num
    BY NumType DEF PipelineInv
  <2>2. UNION {Ends(j) : j \in Pipes} = AllEnds
    BY AllEndsAre DEF PipelineInv
  <2>3. std[i] = Own(i) /\ fds[i] = {}
    BY <2>1 DEF PipelineInv, ChildHolds
  <2> QED
    BY <2>2, <2>3 DEF Holds, Own
<1> QED
  BY <1>1, PipelineInductive, PTL

\* execute_pipeline never returns with a child unwaited for or an end open, and
\* the status it returns is the last command's (dshlib.c:370-389).
THEOREM ReturnIsClean == Spec => []ReturnsClean
<1>1. PipelineInv => ReturnsClean
  <2> SUFFICES ASSUME PipelineInv PROVE ReturnsClean
    OBVIOUS
  <2>1. Stages = 1..num
    BY NumType DEF PipelineInv
  <2> QED
    BY <2>1 DEF PipelineInv, ShellHolds, Progress, ReturnsLast, ReturnsClean
<1> QED
  BY <1>1, PipelineInductive, PTL

-----------------------------------------------------------------------------
Live == {i \in 1..num : cpc[i] \notin {"none", "dead", "reaped"}}
Blocked(i) == BlockedWriting(i) \/ BlockedReading(i)

\* Once the shell has closed its ends, and every child is past its prologue, a
\* pipe is held open by its two neighbours only: whoever waits at a pipe for
\* the other side waits for a neighbour that lives.
LEMMA HeldByNeighbour ==
    ASSUME PipelineInv, pc = "wait", \A i \in Live : cpc[i] \in {"run", "exit"},
           NEW j \in 1..num - 1
    PROVE  /\ Held(<<"r", j>>) => j + 1 \in Live
           /\ Held(<<"w", j>>) => j \in Live
<1>1. num \in Nat /\ Stages = 1..num
  BY NumType DEF PipelineInv
<1>2. Holds(0) = {}
  BY DEF PipelineInv, ShellHolds, Holds
<1>3. ASSUME NEW i \in 1..num, i \notin Live PROVE Holds(i) = {}
  BY <1>3 DEF PipelineInv, ChildHolds, Holds, Live
<1>4. ASSUME NEW i \in 1..num, i \in Live PROVE Holds(i) = Own(i)
  <2>1. ChildHolds(i) /\ cpc[i] \in {"run", "exit"}
    BY <1>4 DEF PipelineInv
  <2> QED
    BY <2>1 DEF ChildHolds, Holds
<1>5. ASSUME NEW e, Held(e) PROVE \E i \in Live : e \in Own(i)
  BY <1>1, <1>2, <1>3, <1>4, <1>5 DEF Held
<1>6. ASSUME NEW i \in Live, <<"r", j>> \in Own(i) PROVE i = j + 1
  <2>1. <<"r", j>> = <<"r", i - 1>> \/ <<"r", j>> = <<"w", i>>
    BY <1>6 DEF Own
  <2>2. j = i - 1
    BY <2>1
  <2> QED
    BY <1>1, <2>2 DEF Live
<1>7. ASSUME NEW i \in Live, <<"w", j>> \in Own(i) PROVE i = j
  BY <1>7 DEF Own
<1> QED
  BY <1>5, <1>6, <1>7

\* A stage that waits to write has units before it in its pipe, so the next
\* stage lives, and if it waits too then to write.
LEMMA WritersGoOn ==
    ASSUME PipelineInv, pc = "wait", \A i \in Live : cpc[i] \in {"run", "exit"},
           \A i \in Live : Blocked(i), NEW j \in Live, BlockedWriting(j)
    PROVE  j + 1 \in Live /\ BlockedWriting(j + 1)
<1>1. num \in Nat /\ j \in 1..num - 1
  BY NumType DEF PipelineInv, BlockedWriting, Live
<1>2. j + 1 \in Live
  BY <1>1, HeldByNeighbour DEF BlockedWriting
<1>3. buf[j] # 0
  <2>1. /\ Capacity \in Nat \ {0} /\ buf[j] \in 0..Capacity
        /\ todo[j] \in (-1..Amount + 1) \cup 0..Capacity /\ Amount \in Nat
    BY <1>1, PipelineAssumption DEF PipelineInv, Typed
  <2>2. cpc[j] = "exit" => todo[j] <= Capacity
    BY <1>1 DEF PipelineInv, ChildHolds
  <2> QED
    BY <2>1, <2>2 DEF BlockedWriting
<1>4. ~BlockedReading(j + 1)
  BY <1>1, <1>3 DEF BlockedReading
<1> QED
  BY <1>2, <1>4 DEF Blocked

\* A stage that waits to read has an empty pipe before it, so the stage that
\* fills it lives.
LEMMA ReadersGoBack ==
    ASSUME PipelineInv, pc = "wait", \A i \in Live : cpc[i] \in {"run", "exit"},
           NEW j \in Live, BlockedReading(j)
    PROVE  j - 1 \in Live
<1>1. num \in Nat /\ j - 1 \in 1..num - 1
  BY NumType DEF PipelineInv, BlockedReading, Live
<1> QED
  BY <1>1, HeldByNeighbour DEF BlockedReading

\* The children of a pipeline of any length never all wait: the last of those
\* that wait to write would need a next one that waits to write, and the first
\* of those that wait to read one before it (dshlib.c:324-379).
THEOREM SomeChildGoesOn == Spec => []NeverStuck
<1>1. PipelineInv => NeverStuck
  <2> SUFFICES ASSUME PipelineInv PROVE NeverStuck
    OBVIOUS
  <2>1. num \in Nat /\ k \in 1..num /\ Stages = 1..num
    BY NumType DEF PipelineInv, Typed
  <2> SUFFICES ASSUME pc = "wait", cpc[k] # "dead", \A i \in Live : Blocked(i) PROVE FALSE
    BY <2>1 DEF NeverStuck, Live, Blocked
  <2>2. k \in Live
    BY <2>1 DEF PipelineInv, Progress, Live
  <2>3. \A i \in Live : cpc[i] \in {"run", "exit"}
    BY DEF Blocked, BlockedWriting, BlockedReading
  <2>4. ASSUME NEW w \in Live, BlockedWriting(w) PROVE FALSE
    <3> DEFINE Ahead == {d \in Nat : \E i \in Live : BlockedWriting(i) /\ d = num - i}
    <3>1. Ahead \subseteq Nat /\ num - w \in Ahead
      BY <2>1, <2>4 DEF Live
    <3>2. PICK d \in Ahead : \A e \in Ahead : d <= e
      BY <3>1, NatLeast
    <3>3. PICK i \in Live : BlockedWriting(i) /\ d = num - i
      BY <3>2
    <3>4. i + 1 \in Live /\ BlockedWriting(i + 1)
      BY <2>3, <3>3, WritersGoOn
    <3>5. num - (i + 1) \in Ahead
      BY <2>1, <3>4 DEF Live
    <3> QED
      BY <2>1, <3>2, <3>3, <3>5 DEF Live
  <2>5. Live \subseteq Nat /\ Live # {}
    BY <2>1, <2>2 DEF Live
  <2>6. PICK r \in Live : \A i \in Live : r <= i
    BY <2>5, NatLeast
  <2>7. r - 1 \in Live
    BY <2>3, <2>4, <2>6, ReadersGoBack DEF Blocked
  <2> QED
    BY <2>5, <2>6, <2>7
<1> QED
  BY <1>1, PipelineInductive, PTL
=============================================================================
