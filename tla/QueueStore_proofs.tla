------------------------- MODULE QueueStore_proofs --------------------------
(* Proofs about QueueStore for any number of tasks, any bounds on the ranks  *)
(* and any prerequisites offered.                                            *)
EXTENDS QueueStore, FiniteSetTheorems, TLAPS

USE StoreBounds, PrerequisitesAssumption

-----------------------------------------------------------------------------
(* Lowest and highest ranks.                                                 *)

\* Among finitely many integers one is the lowest: the smallest of the sets
\* "what is at most r" belongs to it.
LEMMA LowestIsLeast ==
    ASSUME NEW R \in SUBSET Int, IsFiniteSet(R), R # {}
    PROVE  Lowest(R) \in R /\ \A r \in R : Lowest(R) <= r
  <1> DEFINE Below(r) == {s \in R : s <= r}
             Segments == {Below(r) : r \in R}
  <1>1. IsWellFoundedOn(StrictSubsetOrdering(R), FiniteSubsetsOf(R))
    BY FS_StrictSubsetOrderingWellFounded
  <1>2. Segments \subseteq FiniteSubsetsOf(R) /\ Segments # {}
    <2>1. FiniteSubsetsOf(R) = SUBSET R
      BY FS_FiniteSubsetsOfFinite
    <2>2. \A r \in R : Below(r) \in SUBSET R
      OBVIOUS
    <2>3. Segments \subseteq SUBSET R
      BY <2>2, Zenon
    <2>4. Segments # {}
      BY Zenon
    <2> QED BY <2>1, <2>3, <2>4, Zenon
  <1>3. PICK X \in Segments : \A Y \in Segments : ~ (<<Y, X>> \in StrictSubsetOrdering(R))
    <2> HIDE DEF Segments
    <2> QED BY <1>1, <1>2, WFMin
  <1>4. PICK r \in R : X = Below(r)
    OBVIOUS
  <1>5. \A s \in R : r <= s
    <2> SUFFICES ASSUME NEW s \in R, s < r PROVE FALSE
      OBVIOUS
    <2>1. Below(s) \in Segments
      BY Zenon
    <2>2. Below(s) \subseteq X /\ r \in X /\ r \notin Below(s)
      <3>1. \A x \in R : x <= s => x <= r
        OBVIOUS
      <3>2. r <= r /\ ~(r <= s)
        OBVIOUS
      <3> QED BY <3>1, <3>2, <1>4, Zenon
    <2>3. <<Below(s), X>> \in StrictSubsetOrdering(R)
      <3>1. Below(s) \in SUBSET R /\ X \in SUBSET R
        BY <1>4
      <3>2. \A A, B \in SUBSET R : A \subseteq B /\ A # B => <<A, B>> \in StrictSubsetOrdering(R)
        BY DEF StrictSubsetOrdering
      <3> HIDE DEF Below
      <3> QED BY <3>1, <3>2, <2>2
    <2> HIDE DEF Below, Segments
    <2> QED BY <2>1, <2>3, <1>3
  <1> QED
    BY <1>5 DEF Lowest

\* And one is the highest, by the same argument from above.
LEMMA HighestIsGreatest ==
    ASSUME NEW R \in SUBSET Int, IsFiniteSet(R), R # {}
    PROVE  Highest(R) \in R /\ \A r \in R : r <= Highest(R)
  <1> DEFINE Above(r) == {s \in R : r <= s}
             Segments == {Above(r) : r \in R}
  <1>1. IsWellFoundedOn(StrictSubsetOrdering(R), FiniteSubsetsOf(R))
    BY FS_StrictSubsetOrderingWellFounded
  <1>2. Segments \subseteq FiniteSubsetsOf(R) /\ Segments # {}
    <2>1. FiniteSubsetsOf(R) = SUBSET R
      BY FS_FiniteSubsetsOfFinite
    <2>2. \A r \in R : Above(r) \in SUBSET R
      OBVIOUS
    <2>3. Segments \subseteq SUBSET R
      BY <2>2, Zenon
    <2>4. Segments # {}
      BY Zenon
    <2> QED BY <2>1, <2>3, <2>4, Zenon
  <1>3. PICK X \in Segments : \A Y \in Segments : ~ (<<Y, X>> \in StrictSubsetOrdering(R))
    <2> HIDE DEF Segments
    <2> QED BY <1>1, <1>2, WFMin
  <1>4. PICK r \in R : X = Above(r)
    OBVIOUS
  <1>5. \A s \in R : s <= r
    <2> SUFFICES ASSUME NEW s \in R, r < s PROVE FALSE
      OBVIOUS
    <2>1. Above(s) \in Segments
      BY Zenon
    <2>2. Above(s) \subseteq X /\ r \in X /\ r \notin Above(s)
      <3>1. \A x \in R : s <= x => r <= x
        OBVIOUS
      <3>2. r <= r /\ ~(s <= r)
        OBVIOUS
      <3> QED BY <3>1, <3>2, <1>4, Zenon
    <2>3. <<Above(s), X>> \in StrictSubsetOrdering(R)
      <3>1. Above(s) \in SUBSET R /\ X \in SUBSET R
        BY <1>4
      <3>2. \A A, B \in SUBSET R : A \subseteq B /\ A # B => <<A, B>> \in StrictSubsetOrdering(R)
        BY DEF StrictSubsetOrdering
      <3> HIDE DEF Above
      <3> QED BY <3>1, <3>2, <2>2
    <2> HIDE DEF Above, Segments
    <2> QED BY <2>1, <2>3, <1>3
  <1> QED
    BY <1>5 DEF Highest

-----------------------------------------------------------------------------
(* The inductive invariant.                                                  *)

\* started_at orders the running rows, and only them: of two that run one was
\* started first.
StartsAreOrdered ==
    /\ \A t, u \in Task : <<t, u>> \in before => Running(t) /\ Running(u) /\ t # u
    /\ \A t, u \in Task : Running(t) /\ Running(u) /\ t # u =>
          <<t, u>> \in before \/ <<u, t>> \in before
    /\ \A t, u, v \in Task : <<t, u>> \in before /\ <<u, v>> \in before => <<t, v>> \in before

StoreIInv == /\ StoreTypeOK
             /\ RanksAreUnique
             /\ WaitingRowsAreMembers
             /\ DependenciesExist
             /\ DependenciesAreAcyclic
             /\ StartsAreOrdered

-----------------------------------------------------------------------------
(* Ranks at both ends of a queue.                                            *)

\* There are finitely many tasks, so every set of them has a size.
LEMMA TasksAreFinite == \A S \in SUBSET Task : IsFiniteSet(S) /\ Cardinality(S) \in Nat
  <1>1. IsFiniteSet(1 .. MaxTask)
    BY FS_Interval
  <1> QED
    BY <1>1, FS_Subset, FS_CardinalityType DEF Task

\* The ranks of some tasks lie between the lowest and the highest of them.
LEMMA RanksLieBetween ==
    ASSUME StoreTypeOK, NEW S \in SUBSET Task, S # {}
    PROVE  /\ Lowest(Ranks(S)) \in Int /\ Highest(Ranks(S)) \in Int
           /\ \A t \in S : Lowest(Ranks(S)) <= row[t].rank /\ row[t].rank <= Highest(Ranks(S))
  <1> DEFINE f == [t \in S |-> row[t].rank]
  <1>1. f \in Surjection(S, Ranks(S))
    BY DEF Surjection, Ranks
  <1>2. IsFiniteSet(Ranks(S))
    BY <1>1, TasksAreFinite, FS_Surjection
  <1>3. Ranks(S) \in SUBSET Int /\ Ranks(S) # {} /\ \A t \in S : row[t].rank \in Ranks(S)
    BY DEF Ranks, StoreTypeOK, Row
  <1> QED
    BY <1>2, <1>3, LowestIsLeast, HighestIsGreatest

\* No member of a queue has the rank that its tail or its head hands out next.
LEMMA EndsAreFree ==
    ASSUME StoreTypeOK, NEW q \in Queue
    PROVE  /\ NextQueueRank(q) \in Int /\ HeadQueueRank(q) \in Int
           /\ \A t \in Members(q) : /\ row[t].rank # NextQueueRank(q)
                                    /\ row[t].rank # HeadQueueRank(q)
  <1>1. Members(q) \in SUBSET Task /\ \A t \in Members(q) : row[t].rank \in Int
    BY DEF Members, StoreTypeOK, Row
  <1>2. CASE Members(q) = {}
    BY <1>2 DEF NextQueueRank, HeadQueueRank
  <1>3. CASE Members(q) # {}
    <2> DEFINE R == Ranks(Members(q))
    <2>1. Lowest(R) \in Int /\ Highest(R) \in Int
      BY <1>1, <1>3, RanksLieBetween
    <2>2. \A t \in Members(q) : Lowest(R) <= row[t].rank /\ row[t].rank <= Highest(R)
      BY <1>1, <1>3, RanksLieBetween
    <2>3. NextQueueRank(q) = Highest(R) + 1 /\ HeadQueueRank(q) = Lowest(R) - 1
      BY <1>3 DEF NextQueueRank, HeadQueueRank
    <2> HIDE DEF R
    <2> QED BY <1>1, <2>1, <2>2, <2>3
  <1> QED
    BY <1>2, <1>3

\* Putting a row that is not there yet into a queue at a free rank keeps the
\* ranks of every queue apart and the statuses beside their queues.
LEMMA EnqueuedAtAFreeRank ==
    ASSUME StoreTypeOK, RanksAreUnique, WaitingRowsAreMembers,
           NEW t \in Task, NEW q \in Queue, NEW r \in Int, t \notin Members(q),
           \A u \in Members(q) : row[u].rank # r,
           row' = [row EXCEPT ![t] = Enqueued(q, r)]
    PROVE  row' \in [Task -> Row] /\ RanksAreUnique' /\ WaitingRowsAreMembers'
  <1>1. Enqueued(q, r) \in Row
    BY DEF Enqueued, StatusForQueue, Row, Status
  <1>2. row' \in [Task -> Row]
    BY <1>1 DEF StoreTypeOK
  <1>3. row'[t] = Enqueued(q, r) /\ \A u \in Task \ {t} : row'[u] = row[u]
    BY DEF StoreTypeOK
  <1>4. row'[t].status = StatusForQueue(q) /\ row'[t].queue = q /\ row'[t].rank = r
    BY <1>3 DEF Enqueued
  <1>5. RanksAreUnique'
    <2> SUFFICES ASSUME NEW p \in Queue, NEW v \in Members(p)', NEW u \in Members(p)',
                        row'[v].rank = row'[u].rank
                 PROVE  v = u
      BY DEF RanksAreUnique
    <2>1. /\ v # t => v \in Members(p)
          /\ u # t => u \in Members(p)
          /\ v = t \/ u = t => p = q
          /\ v \in Task /\ u \in Task
      BY <1>3, <1>4 DEF Members
    <2> QED
      BY <2>1, <1>3, <1>4 DEF RanksAreUnique
  <1>6. WaitingRowsAreMembers'
    BY <1>3, <1>4 DEF WaitingRowsAreMembers, Waiting, Running, StatusForQueue
  <1> QED
    BY <1>2, <1>5, <1>6

\* A row that stops waiting, or that does not start to, disturbs no rank.
LEMMA NoRowStartsToWait ==
    ASSUME RanksAreUnique,
           \A u \in Task : row'[u] # row[u] => row'[u].status \notin {"queued", "staged"}
    PROVE  RanksAreUnique'
  BY DEF RanksAreUnique, Members, StatusForQueue

-----------------------------------------------------------------------------
(* Ranks after a restart.                                                    *)

\* The running rows of a set that started before t.
StartedBefore(S, t) == {u \in S : <<u, t>> \in before}

\* Among running rows, each has its own number of predecessors, below the size
\* of the set: of two, the later one has the earlier one and all before it.
LEMMA PlacesAreDistinct ==
    ASSUME StartsAreOrdered, NEW S \in SUBSET Task, \A t \in S : Running(t)
    PROVE  \A t \in S :
             /\ Cardinality(StartedBefore(S, t)) \in 0 .. Cardinality(S) - 1
             /\ \A u \in S : t # u =>
                  Cardinality(StartedBefore(S, t)) # Cardinality(StartedBefore(S, u))
             /\ \A u \in S : <<t, u>> \in before =>
                  Cardinality(StartedBefore(S, t)) < Cardinality(StartedBefore(S, u))
  <1>1. \A T, U \in SUBSET S : T \subseteq U /\ T # U => Cardinality(T) < Cardinality(U)
    <2> SUFFICES ASSUME NEW T \in SUBSET S, NEW U \in SUBSET S, T \subseteq U, T # U
                 PROVE  Cardinality(T) < Cardinality(U)
      OBVIOUS
    <2>1. IsFiniteSet(U) /\ Cardinality(T) \in Nat /\ Cardinality(U) \in Nat
      BY TasksAreFinite
    <2>2. T \in SUBSET U
      OBVIOUS
    <2>3. Cardinality(T) <= Cardinality(U) /\ Cardinality(T) # Cardinality(U)
      BY <2>1, <2>2, FS_Subset
    <2> QED BY <2>1, <2>3
  <1>2. \A t \in S : StartedBefore(S, t) \subseteq S /\ t \notin StartedBefore(S, t)
    BY DEF StartedBefore, StartsAreOrdered
  <1>3. \A t \in S : Cardinality(StartedBefore(S, t)) \in 0 .. Cardinality(S) - 1
    <2> TAKE t \in S
    <2>1. StartedBefore(S, t) \subseteq S /\ StartedBefore(S, t) # S
      BY <1>2
    <2> QED BY <2>1, <1>1, TasksAreFinite
  <1>4. \A t, u \in S : <<t, u>> \in before =>
           Cardinality(StartedBefore(S, t)) < Cardinality(StartedBefore(S, u))
    <2> SUFFICES ASSUME NEW t \in S, NEW u \in S, <<t, u>> \in before
                 PROVE  Cardinality(StartedBefore(S, t)) < Cardinality(StartedBefore(S, u))
      OBVIOUS
    <2>1. StartedBefore(S, t) \subseteq StartedBefore(S, u) /\ t \in StartedBefore(S, u)
      BY DEF StartedBefore, StartsAreOrdered
    <2> QED BY <2>1, <1>1, <1>2
  <1>5. \A t \in S : Cardinality(StartedBefore(S, t)) \in Int
    BY <1>2, TasksAreFinite
  <1>6. \A t, u \in S : t # u => <<t, u>> \in before \/ <<u, t>> \in before
    BY DEF StartsAreOrdered
  <1>7. \A t, u \in S : t # u =>
           Cardinality(StartedBefore(S, t)) # Cardinality(StartedBefore(S, u))
    <2> SUFFICES ASSUME NEW t \in S, NEW u \in S, t # u
                 PROVE  Cardinality(StartedBefore(S, t)) # Cardinality(StartedBefore(S, u))
      OBVIOUS
    <2>1. \A m, n \in Int : m < n \/ n < m => m # n
      OBVIOUS
    <2> QED BY <2>1, <1>4, <1>5, <1>6, Zenon
  <1> QED
    BY <1>3, <1>4, <1>7, Zenon

\* The restart puts the rows that ran on ranks of their own, below every rank of
\* the queue they go back to.
LEMMA RestartKeepsRanksApart ==
    ASSUME StoreIInv, RequeueRunningTasksToQueueHead
    PROVE  /\ row' \in [Task -> Row] /\ RanksAreUnique' /\ WaitingRowsAreMembers'
           /\ \A t \in Task : ~Running(t) => row'[t] = row[t]
           /\ \A t \in Task : Running(t) => row'[t].status = "queued" /\ row'[t].queue = row[t].queue
           /\ \A t, u \in Task :
                 Running(t) /\ row[u].status = "queued" /\ row[u].queue = row[t].queue
                    => row'[t].rank < row[u].rank
           /\ \A t, u \in Task :
                 Running(t) /\ Running(u) /\ row[t].queue = row[u].queue /\ <<t, u>> \in before
                    => row'[t].rank < row'[u].rank
  <1> DEFINE Back(q) == {t \in Task : Running(t) /\ row[t].queue = q}
             Queued(q) == {t \in Task : row[t].status = "queued" /\ row[t].queue = q}
             Base(q) == IF Queued(q) = {} THEN 1
                        ELSE Lowest(Ranks(Queued(q))) - Cardinality(Back(q))
             Place(t) == Cardinality(StartedBefore(Back(row[t].queue), t))
             NewRank(t) == Base(row[t].queue) + Place(t)
  <1>1. row' = [t \in Task |-> IF Running(t)
                               THEN [row[t] EXCEPT !.status = "queued", !.rank = NewRank(t)]
                               ELSE row[t]]
    BY DEF RequeueRunningTasksToQueueHead, StartedBefore
  <1>2. \A q \in Queue : /\ Back(q) \in SUBSET Task /\ Queued(q) \in SUBSET Task
                         /\ Cardinality(Back(q)) \in Nat
    BY TasksAreFinite
  <1>3. \A q \in Queue : Base(q) \in Int
    BY <1>2, RanksLieBetween DEF StoreIInv
  <1>4. \A t \in Task : Running(t) =>
          /\ Place(t) \in 0 .. Cardinality(Back(row[t].queue)) - 1
          /\ \A u \in Back(row[t].queue) : u # t => Place(u) # Place(t)
          /\ \A u \in Back(row[t].queue) : <<t, u>> \in before => Place(t) < Place(u)
    <2> SUFFICES ASSUME NEW t \in Task, Running(t)
                 PROVE  /\ Place(t) \in 0 .. Cardinality(Back(row[t].queue)) - 1
                        /\ \A u \in Back(row[t].queue) : u # t => Place(u) # Place(t)
                        /\ \A u \in Back(row[t].queue) : <<t, u>> \in before => Place(t) < Place(u)
      OBVIOUS
    <2> DEFINE S == Back(row[t].queue)
    <2>1. S \in SUBSET Task /\ t \in S /\ \A u \in S : Running(u) /\ row[u].queue = row[t].queue
      OBVIOUS
    <2>2. /\ Cardinality(StartedBefore(S, t)) \in 0 .. Cardinality(S) - 1
          /\ \A u \in S : u # t =>
               Cardinality(StartedBefore(S, u)) # Cardinality(StartedBefore(S, t))
          /\ \A u \in S : <<t, u>> \in before =>
               Cardinality(StartedBefore(S, t)) < Cardinality(StartedBefore(S, u))
      <3> HIDE DEF S
      <3> QED BY <2>1, PlacesAreDistinct DEF StoreIInv
    <2>3. \A u \in S : Place(u) = Cardinality(StartedBefore(S, u))
      BY <2>1, Zenon
    <2> QED BY <2>1, <2>2, <2>3
  <1>5. \A t \in Task : row[t].queue \in Queue /\ row[t].rank \in Int
    BY DEF StoreIInv, StoreTypeOK, Row
  <1>6. \A t \in Task : Running(t) => NewRank(t) \in Int
    BY <1>2, <1>3, <1>4, <1>5
  <1>7. \A t, u \in Task : Running(t) /\ u \in Queued(row[t].queue) => NewRank(t) < row[u].rank
    <2> SUFFICES ASSUME NEW t \in Task, NEW u \in Task, Running(t), u \in Queued(row[t].queue)
                 PROVE  NewRank(t) < row[u].rank
      OBVIOUS
    <2> DEFINE q == row[t].queue
    <2>1. Lowest(Ranks(Queued(q))) \in Int /\ Lowest(Ranks(Queued(q))) <= row[u].rank
      BY <1>2, <1>5, RanksLieBetween DEF StoreIInv
    <2>2. Base(q) = Lowest(Ranks(Queued(q))) - Cardinality(Back(q))
      OBVIOUS
    <2>3. Place(t) < Cardinality(Back(q)) /\ Place(t) \in Int /\ Cardinality(Back(q)) \in Int
      BY <1>2, <1>4, <1>5
    <2>4. NewRank(t) = Base(q) + Place(t)
      BY Zenon
    <2> HIDE DEF q, Base, Back, Queued, Place, NewRank
    <2> QED BY <2>1, <2>2, <2>3, <2>4, <1>5
  <1>8. \A t, u \in Task : Running(t) /\ Running(u) /\ row[t].queue = row[u].queue /\ t # u
                           => NewRank(t) # NewRank(u)
    <2> SUFFICES ASSUME NEW t \in Task, NEW u \in Task, Running(t), Running(u),
                        row[t].queue = row[u].queue, t # u
                 PROVE  NewRank(t) # NewRank(u)
      OBVIOUS
    <2>1. Place(t) # Place(u) /\ Place(t) \in Int /\ Place(u) \in Int
      BY <1>2, <1>4, <1>5
    <2> HIDE DEF Base, Place
    <2>2. Base(row[t].queue) \in Int /\ Base(row[u].queue) = Base(row[t].queue)
      BY <1>3, <1>5
    <2>3. \A a, b, c \in Int : a # b => c + a # c + b
      OBVIOUS
    <2> QED BY <2>1, <2>2, <2>3, Zenon
  <1>13. \A t, u \in Task : Running(t) /\ Running(u) /\ row[t].queue = row[u].queue
                              /\ <<t, u>> \in before => NewRank(t) < NewRank(u)
    <2> SUFFICES ASSUME NEW t \in Task, NEW u \in Task, Running(t), Running(u),
                        row[t].queue = row[u].queue, <<t, u>> \in before
                 PROVE  NewRank(t) < NewRank(u)
      OBVIOUS
    <2>1. Place(t) < Place(u) /\ Place(t) \in Int /\ Place(u) \in Int
      BY <1>2, <1>4, <1>5
    <2> HIDE DEF Base, Place
    <2>2. Base(row[t].queue) \in Int /\ Base(row[u].queue) = Base(row[t].queue)
      BY <1>3, <1>5
    <2>3. \A a, b, c \in Int : a < b => c + a < c + b
      OBVIOUS
    <2> QED BY <2>1, <2>2, <2>3, Zenon
  <1> HIDE DEF NewRank, Place, Base
  <1>9. /\ \A t \in Task : ~Running(t) => row'[t] = row[t]
        /\ \A t \in Task : Running(t) => /\ row'[t] \in Row
                                         /\ row'[t].status = "queued"
                                         /\ row'[t].queue = row[t].queue
                                         /\ row'[t].rank = NewRank(t)
    <2>1. \A t \in Task : row[t] \in Row
      BY DEF StoreIInv, StoreTypeOK
    <2>2. \A R \in Row, n \in Int : [R EXCEPT !.status = "queued", !.rank = n] \in Row
      BY DEF Row, Status
    <2>3. \A R \in Row, n \in Int :
             /\ [R EXCEPT !.status = "queued", !.rank = n].status = "queued"
             /\ [R EXCEPT !.status = "queued", !.rank = n].queue = R.queue
             /\ [R EXCEPT !.status = "queued", !.rank = n].rank = n
      BY DEF Row
    <2> HIDE DEF Back, Queued
    <2> QED BY <1>1, <1>6, <2>1, <2>2, <2>3
  <1>10. row' \in [Task -> Row]
    BY <1>1, <1>9 DEF StoreIInv, StoreTypeOK
  <1>11. WaitingRowsAreMembers'
    BY <1>9 DEF StoreIInv, WaitingRowsAreMembers, Waiting, Running
  <1>12. RanksAreUnique'
    <2> SUFFICES ASSUME NEW q \in Queue, NEW t \in Members(q)', NEW u \in Members(q)',
                        row'[t].rank = row'[u].rank, t # u
                 PROVE  FALSE
      BY DEF RanksAreUnique
    <2>1. t \in Task /\ u \in Task /\ row'[t].queue = q /\ row'[u].queue = q
          /\ row'[t].status = StatusForQueue(q) /\ row'[u].status = StatusForQueue(q)
      BY DEF Members
    <2>2. row[t].queue = q /\ row[u].queue = q
      BY <2>1, <1>9
    <2>3. CASE Running(t) /\ Running(u)
      BY <2>1, <2>2, <2>3, <1>8, <1>9
    <2>4. CASE Running(t) /\ ~Running(u)
      <3>1. u \in Queued(row[t].queue)
        BY <2>1, <2>2, <2>4, <1>9
      <3> QED BY <3>1, <2>1, <2>4, <1>5, <1>6, <1>7, <1>9
    <2>5. CASE Running(u) /\ ~Running(t)
      <3>1. t \in Queued(row[u].queue)
        BY <2>1, <2>2, <2>5, <1>9
      <3> QED BY <3>1, <2>1, <2>5, <1>5, <1>6, <1>7, <1>9
    <2>6. CASE ~Running(t) /\ ~Running(u)
      BY <2>1, <2>2, <2>6, <1>9 DEF StoreIInv, RanksAreUnique, Members
    <2> QED
      BY <2>3, <2>4, <2>5, <2>6
  <1> QED
    BY <1>7, <1>9, <1>10, <1>11, <1>12, <1>13

-----------------------------------------------------------------------------
(* Dependencies.                                                             *)

\* A set of tasks with all their prerequisites.
Closed(S) == \A s \in S : deps[s] \subseteq S

\* The ancestors of a task contain its prerequisites and theirs.
LEMMA AncestorsAreClosed ==
    ASSUME StoreTypeOK, NEW d \in Task
    PROVE  /\ Ancestors(d) \in SUBSET Task
           /\ deps[d] \subseteq Ancestors(d)
           /\ Closed(Ancestors(d))
  <1>1. \A s \in Task : deps[s] \subseteq Task
    BY DEF StoreTypeOK
  <1>2. Ancestors(d) \in SUBSET Task
    BY DEF Ancestors
  <1>3. deps[d] \subseteq Ancestors(d)
    BY <1>1 DEF Ancestors
  <1>4. Closed(Ancestors(d))
    <2> SUFFICES ASSUME NEW a \in Ancestors(d), NEW b \in deps[a],
                        NEW S \in SUBSET Task, deps[d] \subseteq S, Closed(S)
                 PROVE  b \in Task /\ b \in S
      BY <1>1, <1>2 DEF Ancestors, Closed
    <2>1. a \in S /\ a \in Task
      BY DEF Ancestors, Closed
    <2> QED BY <2>1, <1>1 DEF Closed
  <1> QED
    BY <1>2, <1>3, <1>4

\* Nothing else is an ancestor: a closed set around the prerequisites has them all.
LEMMA AncestorsAreLeast ==
    ASSUME NEW d \in Task, NEW S \in SUBSET Task, deps[d] \subseteq S, Closed(S)
    PROVE  Ancestors(d) \subseteq S
  BY DEF Ancestors, Closed

\* A change that only takes edges away makes no cycle.
LEMMA FewerEdgesStayAcyclic ==
    ASSUME StoreTypeOK, DependenciesAreAcyclic, \A t \in Task : deps'[t] \subseteq deps[t]
    PROVE  DependenciesAreAcyclic'
  <1> SUFFICES ASSUME NEW t \in Task PROVE t \notin Ancestors(t)'
    BY DEF DependenciesAreAcyclic
  <1>1. /\ Ancestors(t) \in SUBSET Task /\ deps[t] \subseteq Ancestors(t)
        /\ Closed(Ancestors(t)) /\ t \notin Ancestors(t)
    BY AncestorsAreClosed DEF DependenciesAreAcyclic
  <1>2. deps'[t] \subseteq Ancestors(t) /\ \A s \in Ancestors(t) : deps'[s] \subseteq Ancestors(t)
    BY <1>1 DEF Closed
  <1> DEFINE S == Ancestors(t)
  <1>3. S \in SUBSET Task /\ deps'[t] \subseteq S /\ (\A s \in S : deps'[s] \subseteq S) /\ t \notin S
    BY <1>1, <1>2
  <1> HIDE DEF S
  <1> QED
    BY <1>3 DEF Ancestors

\* Prerequisites that _would_create_cycle lets through make no cycle, although it
\* looks at the edges there were: with the new edges nothing reaches t that did not
\* reach it before, except through t itself.
LEMMA AcceptedEdgesStayAcyclic ==
    ASSUME StoreTypeOK, DependenciesAreAcyclic, NEW t \in Task, NEW D \in SUBSET Task,
           Accepts(t, D), deps' = [deps EXCEPT ![t] = D]
    PROVE  DependenciesAreAcyclic'
  <1> DEFINE S == D \cup UNION {Ancestors(d) : d \in D}
  <1>1. /\ deps'[t] = D
        /\ \A u \in Task \ {t} : deps'[u] = deps[u]
        /\ \A u \in Task : deps[u] \subseteq Task
    BY DEF StoreTypeOK
  <1>2. S \in SUBSET Task /\ Closed(S) /\ t \notin S /\ D \subseteq S
    <2>1. \A d \in D : /\ Ancestors(d) \in SUBSET Task /\ deps[d] \subseteq Ancestors(d)
                       /\ Closed(Ancestors(d))
      BY AncestorsAreClosed
    <2>2. S \in SUBSET Task /\ D \subseteq S
      BY <2>1
    <2>3. t \notin S
      BY DEF Accepts
    <2>4. Closed(S)
      <3> SUFFICES ASSUME NEW s \in S PROVE deps[s] \subseteq S
        BY DEF Closed
      <3>1. CASE s \in D
        BY <3>1, <2>1
      <3>2. CASE s \notin D
        <4>1. PICK d \in D : s \in Ancestors(d)
          BY <3>2
        <4> QED BY <4>1, <2>1 DEF Closed
      <3> QED BY <3>1, <3>2
    <2> QED BY <2>2, <2>3, <2>4
  <1> HIDE DEF S
  <1> SUFFICES ASSUME NEW u \in Task
               PROVE  \E U \in SUBSET Task :
                         /\ deps'[u] \subseteq U /\ (\A s \in U : deps'[s] \subseteq U)
                         /\ u \notin U
    BY DEF DependenciesAreAcyclic, Ancestors
  <1>3. /\ Ancestors(u) \in SUBSET Task /\ deps[u] \subseteq Ancestors(u)
        /\ Closed(Ancestors(u)) /\ u \notin Ancestors(u)
    BY AncestorsAreClosed DEF DependenciesAreAcyclic
  <1>4. CASE u = t
    BY <1>4, <1>1, <1>2 DEF Closed
  <1>5. CASE u # t /\ u \in S
    <2>1. Ancestors(u) \subseteq S
      BY <1>2, <1>5, AncestorsAreLeast DEF Closed
    <2> DEFINE U == Ancestors(u)
    <2>2. U \in SUBSET Task /\ u \notin U /\ t \notin U /\ deps[u] \subseteq U /\ \A s \in U : deps[s] \subseteq U
      BY <2>1, <1>2, <1>3 DEF Closed
    <2> HIDE DEF U
    <2> QED BY <2>2, <1>1, <1>5
  <1>6. CASE u # t /\ u \notin S
    <2> DEFINE U == Ancestors(u) \cup S
    <2>1. U \in SUBSET Task /\ u \notin U
      BY <1>2, <1>3, <1>6
    <2>2. deps'[u] \subseteq U
      BY <1>1, <1>3, <1>6
    <2>3. \A s \in U : deps'[s] \subseteq U
      BY <1>1, <1>2, <1>3 DEF Closed
    <2> HIDE DEF U
    <2> QED BY <2>1, <2>2, <2>3
  <1> QED
    BY <1>4, <1>5, <1>6

\* Prerequisites that are accepted are there, and so is the task they are for.
LEMMA AcceptedEdgesExist ==
    ASSUME DependenciesExist, StoreTypeOK, NEW t \in Task, NEW D \in SUBSET Task,
           Accepts(t, D), deps' = [deps EXCEPT ![t] = D],
           \A u \in Task : Exists(u) => Exists(u)', Exists(t)'
    PROVE  DependenciesExist'
  <1>1. deps'[t] = D /\ \A u \in Task \ {t} : deps'[u] = deps[u]
    BY DEF StoreTypeOK
  <1>2. \A u \in Task : deps[u] \subseteq Task
    BY DEF StoreTypeOK
  <1> QED
    BY <1>1, <1>2 DEF DependenciesExist, Accepts

\* Edges that stay, between rows that stay.
LEMMA EdgesStay ==
    ASSUME DependenciesExist, DependenciesAreAcyclic, StoreTypeOK, UNCHANGED deps,
           \A u \in Task : Exists(u) => Exists(u)'
    PROVE  DependenciesExist' /\ DependenciesAreAcyclic'
  <1>1. DependenciesAreAcyclic'
    BY FewerEdgesStayAcyclic
  <1>2. DependenciesExist'
    BY DEF DependenciesExist, StoreTypeOK
  <1> QED
    BY <1>1, <1>2

-----------------------------------------------------------------------------
(* The order of the starts.                                                  *)

\* As long as the same rows run, it stays.
LEMMA SameRowsRun ==
    ASSUME StartsAreOrdered, UNCHANGED before, \A u \in Task : Running(u)' <=> Running(u)
    PROVE  StartsAreOrdered'
  BY DEF StartsAreOrdered

\* A row that no longer runs leaves it.
LEMMA OneRowEnds ==
    ASSUME StartsAreOrdered, NEW t \in Task, NoLongerRuns(t), ~Running(t)',
           \A u \in Task \ {t} : Running(u)' <=> Running(u)
    PROVE  StartsAreOrdered'
  <1>1. \A u, v \in Task : <<u, v>> \in before' <=> <<u, v>> \in before /\ u # t /\ v # t
    BY DEF NoLongerRuns
  <1> QED
    BY <1>1 DEF StartsAreOrdered

\* A row that starts to run comes after all that run.
LEMMA OneRowStarts ==
    ASSUME StartsAreOrdered, NEW t \in Task, ~Running(t), Running(t)',
           before' = before \cup ({u \in Task : Running(u)} \X {t}),
           \A u \in Task \ {t} : Running(u)' <=> Running(u)
    PROVE  StartsAreOrdered'
  <1>1. \A u, v \in Task : <<u, v>> \in before' <=> \/ <<u, v>> \in before
                                                    \/ Running(u) /\ v = t
    OBVIOUS
  <1> QED
    BY <1>1 DEF StartsAreOrdered

-----------------------------------------------------------------------------
(* Every operation keeps the invariant.                                      *)

\* A row enqueued at the tail of a queue it is not in, which did not run.
LEMMA ToTailKeeps ==
    ASSUME StoreIInv, NEW t \in Task, NEW q \in Queue, t \notin Members(q), ToTail(t, q),
           ~Running(t), UNCHANGED before
    PROVE  /\ row' \in [Task -> Row] /\ RanksAreUnique' /\ WaitingRowsAreMembers'
           /\ StartsAreOrdered'
           /\ \A u \in Task : Exists(u) => Exists(u)'
           /\ Exists(t)'
  <1>1. /\ NextQueueRank(q) \in Int
        /\ \A u \in Members(q) : row[u].rank # NextQueueRank(q)
    BY EndsAreFree DEF StoreIInv
  <1>2. row' = [row EXCEPT ![t] = Enqueued(q, NextQueueRank(q))]
    BY DEF ToTail
  <1>3. row' \in [Task -> Row] /\ RanksAreUnique' /\ WaitingRowsAreMembers'
    BY <1>1, <1>2, EnqueuedAtAFreeRank DEF StoreIInv
  <1>4. /\ row'[t].status \in {"queued", "staged"}
        /\ \A u \in Task \ {t} : row'[u] = row[u]
    BY <1>2 DEF StoreIInv, StoreTypeOK, Enqueued, StatusForQueue
  <1>5. \A u \in Task : Running(u)' <=> Running(u)
    BY <1>4 DEF Running
  <1>6. StartsAreOrdered'
    BY <1>5, SameRowsRun DEF StoreIInv
  <1>7. Exists(t)' /\ \A u \in Task : Exists(u) => Exists(u)'
    BY <1>4 DEF Exists
  <1> QED
    BY <1>3, <1>6, <1>7

\* A running row is of a queue whose tasks are queued, so a retry returns it to the
\* head like a stop does.
LEMMA RetryReturnsToHead ==
    ASSUME StoreIInv, NEW t \in Task, ScheduleTaskRetry(t)
    PROVE  row[t].queue \in Queue /\ Running(t) /\ ReturnToHead(t, row[t].queue)
  <1>1. row[t].queue \in Queue /\ Running(t) /\ row[t].queue # "staged"
    BY DEF StoreIInv, StoreTypeOK, WaitingRowsAreMembers, ScheduleTaskRetry, Running, Row
  <1> QED
    BY <1>1 DEF ScheduleTaskRetry, ReturnToHead, Enqueued, StatusForQueue

\* A row that ran, returned to the head of a queue.
LEMMA ReturnToHeadKeeps ==
    ASSUME StoreIInv, NEW t \in Task, NEW q \in Queue, Running(t), ReturnToHead(t, q)
    PROVE  StoreIInv'
  <1>1. /\ HeadQueueRank(q) \in Int
        /\ \A u \in Members(q) : row[u].rank # HeadQueueRank(q)
    BY EndsAreFree DEF StoreIInv
  <1>2. row' = [row EXCEPT ![t] = Enqueued(q, HeadQueueRank(q))]
    BY DEF ReturnToHead
  <1>3. t \notin Members(q)
    BY DEF Members, Running, StatusForQueue
  <1>4. row' \in [Task -> Row] /\ RanksAreUnique' /\ WaitingRowsAreMembers'
    BY <1>1, <1>2, <1>3, EnqueuedAtAFreeRank DEF StoreIInv
  <1>5. /\ row'[t].status \in {"queued", "staged"}
        /\ \A u \in Task \ {t} : row'[u] = row[u]
    BY <1>2 DEF StoreIInv, StoreTypeOK, Enqueued, StatusForQueue
  <1>6. ~Running(t)' /\ \A u \in Task \ {t} : Running(u)' <=> Running(u)
    BY <1>5 DEF Running
  <1>7. StartsAreOrdered'
    BY <1>6, OneRowEnds DEF StoreIInv, ReturnToHead
  <1>8. \A u \in Task : Exists(u) => Exists(u)'
    BY <1>5 DEF Exists
  <1>9. UNCHANGED deps /\ before' \subseteq before
    BY DEF ReturnToHead, NoLongerRuns
  <1>10. DependenciesExist' /\ DependenciesAreAcyclic'
    BY <1>8, <1>9, EdgesStay DEF StoreIInv
  <1>11. StoreTypeOK'
    BY <1>4, <1>9 DEF StoreIInv, StoreTypeOK
  <1> QED
    BY <1>4, <1>7, <1>10, <1>11 DEF StoreIInv

\* A request that leaves the rows that run alone and gives t the prerequisites D.
LEMMA NewPrerequisitesKeep ==
    ASSUME StoreIInv, NEW t \in Task, NEW D \in Prerequisites, Accepts(t, D),
           deps' = [deps EXCEPT ![t] = D], \A u \in Task : Exists(u) => Exists(u)', Exists(t)'
    PROVE  /\ deps' \in [Task -> SUBSET Task]
           /\ DependenciesExist' /\ DependenciesAreAcyclic'
  <1>1. D \in SUBSET Task
    OBVIOUS
  <1>2. deps' \in [Task -> SUBSET Task]
    BY <1>1 DEF StoreIInv, StoreTypeOK
  <1>3. DependenciesAreAcyclic'
    BY <1>1, AcceptedEdgesStayAcyclic DEF StoreIInv
  <1>4. DependenciesExist'
    BY <1>1, AcceptedEdgesExist DEF StoreIInv
  <1> QED
    BY <1>2, <1>3, <1>4

\* A row that leaves the queues, or does not wait: t gets a status that does not wait.
LEMMA StatusWithoutQueue ==
    ASSUME StoreIInv, NEW t \in Task, row' \in [Task -> Row],
           row'[t].status \notin {"queued", "staged"},
           row'[t].status = "running" => row'[t].queue # "staged",
           \A u \in Task \ {t} : row'[u] = row[u]
    PROVE  RanksAreUnique' /\ WaitingRowsAreMembers'
  <1>1. \A u \in Task : row'[u] # row[u] => row'[u].status \notin {"queued", "staged"}
    OBVIOUS
  <1>2. RanksAreUnique'
    BY <1>1, NoRowStartsToWait DEF StoreIInv
  <1>3. WaitingRowsAreMembers'
    BY DEF StoreIInv, WaitingRowsAreMembers, Waiting, Running
  <1> QED
    BY <1>2, <1>3

\* Writing a status and clearing the rank writes nothing else.
LEMMA StatusAndRank ==
    ASSUME row \in [Task -> Row], NEW t \in Task, NEW s \in Status,
           row' = [row EXCEPT ![t].status = s, ![t].rank = NoRank]
    PROVE  /\ row' \in [Task -> Row]
           /\ row'[t].status = s /\ row'[t].queue = row[t].queue
           /\ \A u \in Task \ {t} : row'[u] = row[u]
  <1> DEFINE Changed(R) == [R EXCEPT !.status = s, !.rank = NoRank]
  <1>1. ASSUME NEW R \in Row
        PROVE  Changed(R) \in Row /\ Changed(R).status = s /\ Changed(R).queue = R.queue
    <2>1. NoRank \in Int
      BY DEF NoRank
    <2> QED BY <2>1 DEF Row
  <1>2. row[t] \in Row /\ row' = [row EXCEPT ![t] = Changed(row[t])]
    <2>1. row[t] \in Row
      OBVIOUS
    <2>2. DOMAIN row = Task /\ DOMAIN row[t] = {"status", "queue", "rank"}
      BY <2>1 DEF Row
    <2> QED BY <2>1, <2>2
  <1> HIDE DEF Changed
  <1> QED
    BY <1>1, <1>2

LEMMA StoreInitIInv == StoreInit => StoreIInv
  <1> SUFFICES ASSUME StoreInit PROVE StoreIInv
    OBVIOUS
  <1>1. \A t \in Task : /\ row[t] = [status |-> "absent", queue |-> "normal", rank |-> NoRank]
                        /\ deps[t] = {}
    BY DEF StoreInit
  <1>2. StoreTypeOK
    BY DEF StoreInit, StoreTypeOK, Row, Status, Queue, NoRank
  <1>3. RanksAreUnique /\ WaitingRowsAreMembers
    BY <1>1 DEF RanksAreUnique, WaitingRowsAreMembers, Members, Waiting, Running, StatusForQueue
  <1>4. StartsAreOrdered
    BY <1>1 DEF StartsAreOrdered, StoreInit, Running
  <1>5. DependenciesExist
    BY <1>1 DEF DependenciesExist
  <1>6. DependenciesAreAcyclic
    BY <1>1 DEF DependenciesAreAcyclic, Ancestors
  <1> QED
    BY <1>2, <1>3, <1>4, <1>5, <1>6 DEF StoreIInv

LEMMA StoreInductive == StoreIInv /\ [StoreNext]_storeVars => StoreIInv'
  <1> SUFFICES ASSUME StoreIInv, [StoreNext]_storeVars PROVE StoreIInv'
    OBVIOUS
  <1>t. /\ \A t \in Task : row[t] \in Row
        /\ row \in [Task -> Row] /\ deps \in [Task -> SUBSET Task] /\ before \subseteq Task \X Task
    BY DEF StoreIInv, StoreTypeOK
  <1>1. ASSUME NEW t \in Task, NEW q \in Queue, NEW D \in Prerequisites, CreateTask(t, q, D)
        PROVE  StoreIInv'
    <2>1. row[t].status = "absent" /\ UNCHANGED before /\ ToTail(t, q)
      BY <1>1 DEF CreateTask, NextId
    <2>2. t \notin Members(q) /\ ~Running(t)
      BY <2>1 DEF Members, StatusForQueue, Running
    <2>3. /\ row' \in [Task -> Row] /\ RanksAreUnique' /\ WaitingRowsAreMembers'
          /\ StartsAreOrdered' /\ Exists(t)' /\ \A u \in Task : Exists(u) => Exists(u)'
      BY <2>1, <2>2, ToTailKeeps
    <2>4. deps' \in [Task -> SUBSET Task] /\ DependenciesExist' /\ DependenciesAreAcyclic'
      BY <1>1, <2>3, NewPrerequisitesKeep DEF CreateTask
    <2> QED BY <2>1, <2>3, <2>4, <1>t DEF StoreIInv, StoreTypeOK
  <1>2. ASSUME NEW t \in Task, NEW q \in Queue, NEW D \in Prerequisites, UpdateQueuedTask(t, q, D)
        PROVE  StoreIInv'
    <2>1. /\ row' \in [Task -> Row] /\ RanksAreUnique' /\ WaitingRowsAreMembers'
          /\ StartsAreOrdered' /\ Exists(t)' /\ \A u \in Task : Exists(u) => Exists(u)'
      <3>1. CASE t \in Members(q)
        BY <1>2, <3>1, <1>t, SameRowsRun DEF UpdateQueuedTask, StoreIInv, Exists, Waiting,
           RanksAreUnique, WaitingRowsAreMembers, Members, Running
      <3>2. CASE t \notin Members(q)
        <4>1. ToTail(t, q) /\ ~Running(t) /\ UNCHANGED before
          BY <1>2, <3>2 DEF UpdateQueuedTask, Waiting, Running
        <4> QED BY <4>1, <3>2, ToTailKeeps
      <3> QED BY <3>1, <3>2
    <2>2. deps' \in [Task -> SUBSET Task] /\ DependenciesExist' /\ DependenciesAreAcyclic'
      BY <1>2, <2>1, NewPrerequisitesKeep DEF UpdateQueuedTask
    <2> QED BY <1>2, <2>1, <2>2, <1>t DEF StoreIInv, StoreTypeOK, UpdateQueuedTask
  <1>3. ASSUME NEW t \in Task, NEW D \in Prerequisites, ReplaceDependencies(t, D)
        PROVE  StoreIInv'
    <2>1. UNCHANGED <<row, before>> /\ Exists(t)' /\ \A u \in Task : Exists(u) => Exists(u)'
      BY <1>3 DEF ReplaceDependencies, Exists
    <2>2. deps' \in [Task -> SUBSET Task] /\ DependenciesExist' /\ DependenciesAreAcyclic'
      BY <1>3, <2>1, NewPrerequisitesKeep DEF ReplaceDependencies
    <2> QED BY <2>1, <2>2, <1>t, SameRowsRun DEF StoreIInv, StoreTypeOK,
              RanksAreUnique, WaitingRowsAreMembers, Members, Waiting, Running
  <1>4. ASSUME NEW s \in Task, NEW t \in Task, CloneTaskForRequeue(s, t)
        PROVE  StoreIInv'
    <2>1. /\ row[t].status = "absent" /\ UNCHANGED <<deps, before>>
          /\ ToTail(t, row[s].queue) /\ row[s].queue \in Queue
      BY <1>4, <1>t DEF CloneTaskForRequeue, NextId, Row
    <2>2. t \notin Members(row[s].queue) /\ ~Running(t)
      BY <2>1 DEF Members, StatusForQueue, Running
    <2>3. /\ row' \in [Task -> Row] /\ RanksAreUnique' /\ WaitingRowsAreMembers'
          /\ StartsAreOrdered' /\ \A u \in Task : Exists(u) => Exists(u)'
      BY <2>1, <2>2, ToTailKeeps
    <2>4. DependenciesExist' /\ DependenciesAreAcyclic'
      BY <2>1, <2>3, EdgesStay DEF StoreIInv
    <2> QED BY <2>1, <2>3, <2>4, <1>t DEF StoreIInv, StoreTypeOK
  <1>5. ASSUME NEW t \in Task, NEW q \in Queue, MoveTaskToQueue(t, q)
        PROVE  StoreIInv'
    <2>1. UNCHANGED <<deps, before>>
      BY <1>5 DEF MoveTaskToQueue
    <2>2. CASE t \in Members(q)
      <3>1. UNCHANGED storeVars
        BY <1>5, <2>2 DEF MoveTaskToQueue, storeVars
      <3> QED BY <3>1 DEF storeVars, StoreIInv, StoreTypeOK, RanksAreUnique, WaitingRowsAreMembers,
              DependenciesExist, DependenciesAreAcyclic, Ancestors, StartsAreOrdered,
              Members, Waiting, Running, Exists
    <2>3. CASE t \notin Members(q)
      <3>1. ToTail(t, q) /\ ~Running(t)
        BY <1>5, <2>3 DEF MoveTaskToQueue, Waiting, Running
      <3>2. /\ row' \in [Task -> Row] /\ RanksAreUnique' /\ WaitingRowsAreMembers'
            /\ StartsAreOrdered' /\ \A u \in Task : Exists(u) => Exists(u)'
        BY <2>1, <2>3, <3>1, ToTailKeeps
      <3>3. DependenciesExist' /\ DependenciesAreAcyclic'
        BY <2>1, <3>2, EdgesStay DEF StoreIInv
      <3> QED BY <2>1, <3>2, <3>3, <1>t DEF StoreIInv, StoreTypeOK
    <2> QED BY <2>2, <2>3
  <1>6. ASSUME NEW q \in Queue, ReorderQueue(q)
        PROVE  StoreIInv'
    <2>1. PICK place \in [Members(q) -> 1 .. Cardinality(Members(q))] :
             /\ \A t, u \in Members(q) : place[t] = place[u] => t = u
             /\ row' = [t \in Task |-> IF t \in Members(q)
                                       THEN [row[t] EXCEPT !.rank = place[t]] ELSE row[t]]
      BY <1>6 DEF ReorderQueue
    <2>2. UNCHANGED <<deps, before>>
      BY <1>6 DEF ReorderQueue
    <2>3. \A t \in Members(q) : place[t] \in Int
      <3>1. Cardinality(Members(q)) \in Nat
        BY TasksAreFinite DEF Members
      <3> QED BY <3>1
    <2>4. /\ row' \in [Task -> Row]
          /\ \A t \in Task : /\ row'[t].status = row[t].status
                             /\ row'[t].queue = row[t].queue
                             /\ row'[t].rank = IF t \in Members(q) THEN place[t] ELSE row[t].rank
      <3>1. \A R \in Row, n \in Int : /\ [R EXCEPT !.rank = n] \in Row
                                      /\ [R EXCEPT !.rank = n].status = R.status
                                      /\ [R EXCEPT !.rank = n].queue = R.queue
                                      /\ [R EXCEPT !.rank = n].rank = n
        BY DEF Row
      <3> QED BY <2>1, <2>3, <3>1, <1>t
    <2>5. \A p \in Queue : Members(p)' = Members(p)
      BY <2>4 DEF Members
    <2>6. RanksAreUnique'
      <3> SUFFICES ASSUME NEW p \in Queue, NEW t \in Members(p), NEW u \in Members(p),
                          row'[t].rank = row'[u].rank
                   PROVE  t = u
        BY <2>5 DEF RanksAreUnique
      <3>1. t \in Task /\ u \in Task /\ (p # q => t \notin Members(q) /\ u \notin Members(q))
        BY DEF Members
      <3> QED BY <3>1, <2>1, <2>4 DEF StoreIInv, RanksAreUnique
    <2>7. WaitingRowsAreMembers' /\ StartsAreOrdered'
      <3>1. \A u \in Task : Running(u)' <=> Running(u)
        BY <2>4 DEF Running
      <3>2. StartsAreOrdered'
        BY <2>2, <3>1, SameRowsRun DEF StoreIInv
      <3>3. WaitingRowsAreMembers'
        BY <2>4 DEF StoreIInv, WaitingRowsAreMembers, Waiting, Running
      <3> QED BY <3>2, <3>3
    <2>8. DependenciesExist' /\ DependenciesAreAcyclic'
      <3>1. \A u \in Task : Exists(u) => Exists(u)'
        BY <2>4 DEF Exists
      <3> QED BY <2>2, <3>1, EdgesStay DEF StoreIInv
    <2> QED BY <2>2, <2>4, <2>6, <2>7, <2>8, <1>t DEF StoreIInv, StoreTypeOK
  <1>7. ASSUME NEW t \in Task, DeleteTask(t)
        PROVE  StoreIInv'
    <2>1. /\ ~Running(t) /\ UNCHANGED before
          /\ row'[t].status = "deleted" /\ \A u \in Task \ {t} : row'[u] = row[u]
          /\ row' \in [Task -> Row]
      BY <1>7, <1>t DEF DeleteTask, Row, Status, Queue, NoRank
    <2>2. deps' \in [Task -> SUBSET Task] /\ deps'[t] = {} /\ \A u \in Task \ {t} : deps'[u] = deps[u] \ {t}
      BY <1>7, <1>t DEF DeleteTask
    <2>3. RanksAreUnique' /\ WaitingRowsAreMembers'
      BY <2>1, StatusWithoutQueue
    <2>4. StartsAreOrdered'
      BY <2>1, SameRowsRun DEF StoreIInv, Running
    <2>5. DependenciesAreAcyclic'
      BY <2>2, FewerEdgesStayAcyclic DEF StoreIInv
    <2>6. DependenciesExist'
      BY <2>1, <2>2, <1>t DEF StoreIInv, DependenciesExist, Exists
    <2> QED BY <2>1, <2>2, <2>3, <2>4, <2>5, <2>6, <1>t DEF StoreIInv, StoreTypeOK
  <1>8. ASSUME NEW t \in Task, MarkTaskRunning(t)
        PROVE  StoreIInv'
    <2>1. /\ row[t].status = "queued" /\ UNCHANGED deps
          /\ before' = before \cup ({u \in Task : Running(u)} \X {t})
          /\ row'[t].status = "running" /\ row'[t].queue = row[t].queue
          /\ \A u \in Task \ {t} : row'[u] = row[u]
          /\ row' \in [Task -> Row]
      BY <1>8, <1>t, StatusAndRank DEF MarkTaskRunning, Status
    <2>2. row'[t].queue # "staged"
      BY <2>1 DEF StoreIInv, WaitingRowsAreMembers, Waiting
    <2>3. RanksAreUnique' /\ WaitingRowsAreMembers'
      BY <2>1, <2>2, StatusWithoutQueue
    <2>4. ~Running(t) /\ Running(t)' /\ \A u \in Task \ {t} : Running(u)' <=> Running(u)
      BY <2>1 DEF Running
    <2>5. StartsAreOrdered'
      BY <2>1, <2>4, OneRowStarts DEF StoreIInv
    <2>6. \A u \in Task : Exists(u) => Exists(u)'
      BY <2>1 DEF Exists
    <2>7. DependenciesExist' /\ DependenciesAreAcyclic'
      BY <2>1, <2>6, EdgesStay DEF StoreIInv
    <2>8. before' \subseteq Task \X Task
      BY <2>1, <1>t
    <2> QED BY <2>1, <2>3, <2>5, <2>7, <2>8, <1>t DEF StoreIInv, StoreTypeOK
  <1>9. ASSUME NEW t \in Task, MarkTaskLaunchFailed(t)
        PROVE  StoreIInv'
    <2>1. /\ row[t].status = "queued" /\ UNCHANGED <<deps, before>>
          /\ row'[t].status = "failed" /\ \A u \in Task \ {t} : row'[u] = row[u]
          /\ row' \in [Task -> Row]
      BY <1>9, <1>t, StatusAndRank DEF MarkTaskLaunchFailed, Status, Final
    <2>2. RanksAreUnique' /\ WaitingRowsAreMembers'
      BY <2>1, StatusWithoutQueue
    <2>3. StartsAreOrdered'
      BY <2>1, SameRowsRun DEF StoreIInv, Running
    <2>4. DependenciesExist' /\ DependenciesAreAcyclic'
      BY <2>1, EdgesStay DEF StoreIInv, Exists
    <2> QED BY <2>1, <2>2, <2>3, <2>4, <1>t DEF StoreIInv, StoreTypeOK
  <1>10. ASSUME NEW t \in Task, NEW s \in Final, FinishTask(t, s)
         PROVE  StoreIInv'
    <2>1. /\ Running(t) /\ UNCHANGED deps /\ NoLongerRuns(t)
          /\ row'[t].status = s /\ \A u \in Task \ {t} : row'[u] = row[u]
          /\ row' \in [Task -> Row]
      BY <1>10, <1>t DEF FinishTask, Row, Status
    <2>2. s \notin {"queued", "staged", "running", "absent", "deleted"}
      BY DEF Final
    <2>3. RanksAreUnique' /\ WaitingRowsAreMembers'
      BY <2>1, <2>2, StatusWithoutQueue
    <2>4. StartsAreOrdered'
      BY <2>1, <2>2, OneRowEnds DEF StoreIInv, Running
    <2>5. DependenciesExist' /\ DependenciesAreAcyclic'
      BY <2>1, <2>2, EdgesStay DEF StoreIInv, Exists
    <2>6. before' \subseteq before
      BY <2>1 DEF NoLongerRuns
    <2> QED BY <2>1, <2>3, <2>4, <2>5, <2>6, <1>t DEF StoreIInv, StoreTypeOK
  <1>11. ASSUME NEW t \in Task, NEW q \in Queue, RequeueRunningTaskToQueueHead(t, q)
         PROVE  StoreIInv'
    BY <1>11, ReturnToHeadKeeps DEF RequeueRunningTaskToQueueHead
  <1>12. ASSUME NEW t \in Task, ScheduleTaskRetry(t)
         PROVE  StoreIInv'
    BY <1>12, ReturnToHeadKeeps, RetryReturnsToHead
  <1>13. ASSUME NEW t \in Task, PreemptRunningTaskToQueueHead(t)
         PROVE  StoreIInv'
    BY <1>13, ReturnToHeadKeeps DEF PreemptRunningTaskToQueueHead, Queue
  <1>14. CASE RequeueRunningTasksToQueueHead
    <2>1. row' \in [Task -> Row] /\ RanksAreUnique' /\ WaitingRowsAreMembers'
      BY <1>14, RestartKeepsRanksApart
    <2>2. before' = {} /\ UNCHANGED deps
      BY <1>14 DEF RequeueRunningTasksToQueueHead
    <2>3. \A u \in Task : /\ ~Running(u) => row'[u] = row[u]
                          /\ Running(u) => row'[u].status = "queued"
      BY <1>14, <1>t DEF RequeueRunningTasksToQueueHead, Row
    <2>4. StartsAreOrdered'
      <3>1. \A u \in Task : ~Running(u)'
        BY <2>3 DEF Running
      <3> QED BY <2>2, <3>1 DEF StartsAreOrdered
    <2>5. \A u \in Task : Exists(u) => Exists(u)'
      BY <2>3 DEF Exists
    <2>6. DependenciesExist' /\ DependenciesAreAcyclic'
      BY <2>2, <2>5, EdgesStay DEF StoreIInv
    <2> QED BY <2>1, <2>2, <2>4, <2>6, <1>t DEF StoreIInv, StoreTypeOK
  <1>15. CASE UNCHANGED storeVars
    BY <1>15 DEF storeVars, StoreIInv, StoreTypeOK, RanksAreUnique, WaitingRowsAreMembers,
       DependenciesExist, DependenciesAreAcyclic, Ancestors, StartsAreOrdered,
       Members, Waiting, Running, Exists
  <1> QED
    BY <1>1, <1>2, <1>3, <1>4, <1>5, <1>6, <1>7, <1>8, <1>9, <1>10, <1>11, <1>12, <1>13,
       <1>14, <1>15 DEF StoreNext

-----------------------------------------------------------------------------
(* The theorems.                                                             *)

\* The rows keep every part of the invariant through any sequence of operations.
THEOREM StoreInvariant == StoreSpec => []StoreIInv
  <1> QED
    BY StoreInitIInv, StoreInductive, PTL DEF StoreSpec

\* The rows, the dependency rows and the order of the starts have their types.
THEOREM StoreTyping == StoreSpec => []StoreTypeOK
  <1>1. StoreIInv => StoreTypeOK
    BY DEF StoreIInv
  <1> QED
    BY <1>1, StoreInvariant, PTL

\* No two waiting tasks of a queue ever have the same rank, whatever mix of tails,
\* heads, reorders, moves and restarts handed the ranks out.
THEOREM RanksStayUnique == StoreSpec => []RanksAreUnique
  <1>1. StoreIInv => RanksAreUnique
    BY DEF StoreIInv
  <1> QED
    BY <1>1, StoreInvariant, PTL

\* Every waiting row has the status of its queue, so that list_queue_tasks finds it.
THEOREM NoRowIsStranded == StoreSpec => []WaitingRowsAreMembers
  <1>1. StoreIInv => WaitingRowsAreMembers
    BY DEF StoreIInv
  <1> QED
    BY <1>1, StoreInvariant, PTL

\* The dependency rows never form a cycle of any length.
THEOREM NoCycles == StoreSpec => []DependenciesAreAcyclic
  <1>1. StoreIInv => DependenciesAreAcyclic
    BY DEF StoreIInv
  <1> QED
    BY <1>1, StoreInvariant, PTL

\* No dependency row outlives a task it names.
THEOREM NoDanglingDependencies == StoreSpec => []DependenciesExist
  <1>1. StoreIInv => DependenciesExist
    BY DEF StoreIInv
  <1> QED
    BY <1>1, StoreInvariant, PTL

\* A row that succeeded changes only by being deleted.
LEMMA SucceededRowsStay ==
    ASSUME StoreIInv, [StoreNext]_storeVars, NEW d \in Task, row[d].status = "succeeded"
    PROVE  row'[d].status = "succeeded" \/ DeleteTask(d)
  <1>t. row \in [Task -> Row] /\ \A t \in Task : row[t] \in Row
    BY DEF StoreIInv, StoreTypeOK
  <1>1. ASSUME NEW t \in Task, t # d, NEW R, row' = [row EXCEPT ![t] = R]
        PROVE  row'[d] = row[d]
    BY <1>1, <1>t
  <1>2. ASSUME NEW t \in Task, NEW q \in Queue, ToTail(t, q), t # d
        PROVE  row'[d] = row[d]
    BY <1>2, <1>1 DEF ToTail
  <1>3. ASSUME NEW t \in Task, NEW q \in Queue, Running(t), ReturnToHead(t, q)
        PROVE  row'[d] = row[d]
    BY <1>3, <1>1 DEF ReturnToHead, Running
  <1>4. ASSUME NEW t \in Task, NEW q \in Queue, NEW D \in Prerequisites,
               CreateTask(t, q, D) \/ UpdateQueuedTask(t, q, D)
        PROVE  row'[d] = row[d]
    BY <1>4, <1>2 DEF CreateTask, UpdateQueuedTask, NextId, Waiting
  <1>5. ASSUME NEW t \in Task, NEW D \in Prerequisites, ReplaceDependencies(t, D)
        PROVE  row'[d] = row[d]
    BY <1>5 DEF ReplaceDependencies
  <1>6. ASSUME NEW s \in Task, NEW t \in Task, CloneTaskForRequeue(s, t)
        PROVE  row'[d] = row[d]
    BY <1>6, <1>2, <1>t DEF CloneTaskForRequeue, NextId, Row
  <1>7. ASSUME NEW t \in Task, NEW q \in Queue,
               MoveTaskToQueue(t, q) \/ RequeueRunningTaskToQueueHead(t, q)
        PROVE  row'[d] = row[d]
    BY <1>7, <1>2, <1>3 DEF MoveTaskToQueue, Waiting, RequeueRunningTaskToQueueHead
  <1>8. ASSUME NEW q \in Queue, ReorderQueue(q)
        PROVE  row'[d] = row[d]
    <2>1. d \notin Members(q)
      BY DEF Members, StatusForQueue
    <2> QED BY <1>8, <2>1 DEF ReorderQueue
  <1>9. ASSUME NEW t \in Task, \/ MarkTaskRunning(t) \/ MarkTaskLaunchFailed(t)
                               \/ ScheduleTaskRetry(t) \/ PreemptRunningTaskToQueueHead(t)
        PROVE  row'[d] = row[d]
    <2>1. CASE MarkTaskRunning(t)
      BY <2>1, <1>t, StatusAndRank DEF MarkTaskRunning, Status
    <2>2. CASE MarkTaskLaunchFailed(t)
      BY <2>2, <1>t, StatusAndRank DEF MarkTaskLaunchFailed, Status, Final
    <2>3. CASE ScheduleTaskRetry(t) \/ PreemptRunningTaskToQueueHead(t)
      <3>1. CASE ScheduleTaskRetry(t)
        BY <1>3, <3>1, RetryReturnsToHead
      <3>2. CASE PreemptRunningTaskToQueueHead(t)
        BY <1>3, <3>2 DEF PreemptRunningTaskToQueueHead, Queue
      <3> QED BY <2>3, <3>1, <3>2
    <2> QED BY <1>9, <2>1, <2>2, <2>3
  <1>10. ASSUME NEW t \in Task, DeleteTask(t), t # d
         PROVE  row'[d] = row[d]
    BY <1>10, <1>1 DEF DeleteTask
  <1>11. ASSUME NEW t \in Task, NEW s \in Final, FinishTask(t, s)
         PROVE  row'[d] = row[d]
    BY <1>11, <1>t DEF FinishTask, Running
  <1>12. CASE RequeueRunningTasksToQueueHead
    BY <1>12 DEF RequeueRunningTasksToQueueHead, Running
  <1>13. CASE UNCHANGED storeVars
    BY <1>13 DEF storeVars
  <1> QED
    BY <1>4, <1>5, <1>6, <1>7, <1>8, <1>9, <1>10, <1>11, <1>12, <1>13 DEF StoreNext

\* With its prerequisites satisfied a task stays so until a request gives it others:
\* prerequisites that are there and satisfied have succeeded, which only a deletion
\* undoes, and that takes the edge away with the row.
THEOREM SatisfiedTasksStay == StoreSpec => DependenciesStaySatisfied
  <1> DEFINE Stays == \A t \in Task : Exists(t) /\ Satisfied(t) /\ deps'[t] \subseteq deps[t]
                                         => Satisfied(t)'
  <1>1. ASSUME StoreIInv, StoreIInv', [StoreNext]_storeVars PROVE Stays
    <2> SUFFICES ASSUME NEW t \in Task, Exists(t), Satisfied(t), deps'[t] \subseteq deps[t],
                        NEW d \in deps'[t]
                 PROVE  row'[d].status \in {"succeeded", "absent", "deleted"}
      BY DEF Satisfied
    <2>1. d \in deps[t] /\ d \in Task /\ Exists(d)
      BY <1>1 DEF StoreIInv, StoreTypeOK, DependenciesExist
    <2>2. row[d].status = "succeeded"
      BY <2>1 DEF Satisfied, Exists
    <2>3. CASE row'[d].status = "succeeded"
      BY <2>3
    <2>4. CASE DeleteTask(d)
      <3>1. row'[d].status = "deleted"
        BY <2>4, <2>1, <1>1 DEF DeleteTask, StoreIInv, StoreTypeOK
      <3> QED BY <3>1
    <2> QED BY <1>1, <2>1, <2>2, <2>3, <2>4, SucceededRowsStay
  <1>2. StoreIInv /\ StoreIInv' /\ [StoreNext]_storeVars => [Stays]_storeVars
    BY <1>1
  <1> HIDE DEF Stays
  <1>3. StoreSpec => [][Stays]_storeVars
    BY <1>2, StoreInvariant, PTL DEF StoreSpec
  <1> QED
    BY <1>3 DEF DependenciesStaySatisfied, Stays

-----------------------------------------------------------------------------
(* The rows implement the queues as orders.                                  *)

LEMMA SamePairs ==
    ASSUME NEW A \in SUBSET (Task \X Task), NEW B \in SUBSET (Task \X Task),
           \A t, u \in Task : <<t, u>> \in A <=> <<t, u>> \in B
    PROVE  A = B
  OBVIOUS

\* The rows of a queue stand in the order of their ranks, which are all different.
AheadIsByRank ==
    /\ Ahead \in SUBSET (Task \X Task)
    /\ \A t, u \in Task :
          <<t, u>> \in Ahead <=> \E q \in Queue : /\ t \in Members(q) /\ u \in Members(q)
                                                  /\ row[t].rank < row[u].rank

LEMMA OrderedByRank == StoreIInv => AheadIsByRank
  <1> SUFFICES ASSUME StoreIInv PROVE AheadIsByRank
    OBVIOUS
  <1>1. \A q \in Queue : Members(q) \subseteq Task
    BY DEF Members
  <1>2. \A q \in Queue : \A t, u \in Members(q) : AheadOf(t, u) <=> row[t].rank < row[u].rank
    <2> SUFFICES ASSUME NEW q \in Queue, NEW t \in Members(q), NEW u \in Members(q)
                 PROVE  AheadOf(t, u) <=> row[t].rank < row[u].rank
      OBVIOUS
    <2>1. row[t].rank \in Int /\ row[u].rank \in Int /\ t \in Int
      BY <1>1 DEF StoreIInv, StoreTypeOK, Row, Task
    <2>2. row[t].rank = row[u].rank => t = u
      BY DEF StoreIInv, RanksAreUnique
    <2> QED BY <2>1, <2>2 DEF AheadOf
  <1>3. Ahead \in SUBSET (Task \X Task)
    BY <1>1 DEF Ahead
  <1>4. \A t, u \in Task : <<t, u>> \in Ahead <=>
           \E q \in Queue : t \in Members(q) /\ u \in Members(q) /\ AheadOf(t, u)
    BY DEF Ahead
  <1> QED
    BY <1>2, <1>3, <1>4 DEF AheadIsByRank

LEMMA OrderedByRankNext == StoreIInv' => AheadIsByRank'
  BY OrderedByRank, PTL

\* A row belongs to the queue it names, if it waits.
LEMMA QueuesAreApart ==
    /\ \A q \in Queue : /\ Members(q) \subseteq Task
                        /\ \A t \in Members(q) : row[t].queue = q
                        /\ QueueMembers[q] = Members(q)
    /\ \A q \in Queue : QueueRunners[q] = {t \in Task : Running(t) /\ row[t].queue = q}
  BY DEF Members, QueueMembers, QueueRunners

LEMMA QueuesAreApartNext ==
    /\ \A q \in Queue : /\ Members(q)' \subseteq Task
                        /\ \A t \in Members(q)' : row'[t].queue = q
                        /\ QueueMembers'[q] = Members(q)'
    /\ \A q \in Queue : QueueRunners'[q] = {t \in Task : Running(t)' /\ row'[t].queue = q}
  BY DEF Members, QueueMembers, QueueRunners

\* When one row changes, the others stay in their queues and in their order.
LEMMA OthersKeepTheirOrder ==
    ASSUME AheadIsByRank, AheadIsByRank', NEW t \in Task, \A u \in Task \ {t} : row'[u] = row[u]
    PROVE  /\ \A q \in Queue : \A u \in Task \ {t} : u \in Members(q)' <=> u \in Members(q)
           /\ \A u, v \in Task \ {t} : <<u, v>> \in Ahead' <=> <<u, v>> \in Ahead
  <1>1. \A q \in Queue : \A u \in Task \ {t} : u \in Members(q)' <=> u \in Members(q)
    BY DEF Members
  <1>2. ASSUME NEW u \in Task \ {t}, NEW v \in Task \ {t}
        PROVE  <<u, v>> \in Ahead' <=> <<u, v>> \in Ahead
    <2>1. <<u, v>> \in Ahead <=> \E q \in Queue : /\ u \in Members(q) /\ v \in Members(q)
                                                  /\ row[u].rank < row[v].rank
      BY DEF AheadIsByRank
    <2>2. <<u, v>> \in Ahead' <=> \E q \in Queue : /\ u \in Members(q)' /\ v \in Members(q)'
                                                   /\ row'[u].rank < row'[v].rank
      BY DEF AheadIsByRank
    <2>3. row'[u] = row[u] /\ row'[v] = row[v]
      OBVIOUS
    <2> QED BY <1>1, <2>1, <2>2, <2>3
  <1> QED
    BY <1>1, <1>2

\* A row that does not wait any more leaves its queue, and the others keep their order.
LEMMA LeavingARow ==
    ASSUME AheadIsByRank, AheadIsByRank', NEW t \in Task, \A u \in Task \ {t} : row'[u] = row[u],
           \A q \in Queue : t \notin Members(q)'
    PROVE  Queues!Leaves(t)
  <1>1. QueueMembers' = Queues!WaitingWithout(t)
    <2>1. \A q \in Queue : Members(q)' = QueueMembers[q] \ {t}
      BY OthersKeepTheirOrder, QueuesAreApart, QueuesAreApartNext
    <2> QED BY <2>1 DEF QueueMembers, Queues!WaitingWithout
  <1>2. Ahead' = Queues!Without(Ahead, t)
    <2> DEFINE rest == Queues!Without(Ahead, t)
    <2>1. rest \in SUBSET (Task \X Task) /\ Ahead' \in SUBSET (Task \X Task)
      BY DEF AheadIsByRank, Queues!Without
    <2>2. ASSUME NEW u \in Task, NEW v \in Task
          PROVE  <<u, v>> \in Ahead' <=> <<u, v>> \in rest
      <3>1. <<u, v>> \in rest <=> <<u, v>> \in Ahead /\ u # t /\ v # t
        BY DEF Queues!Without
      <3>2. <<u, v>> \in Ahead' => u # t /\ v # t
        BY DEF AheadIsByRank
      <3> HIDE DEF rest
      <3> QED BY <3>1, <3>2, OthersKeepTheirOrder
    <2> HIDE DEF rest
    <2>3. Ahead' = rest
      BY <2>1, <2>2, SamePairs
    <2> QED BY <2>3 DEF rest
  <1> QED
    BY <1>1, <1>2 DEF Queues!Leaves

\* A row put at a rank above those of a queue waits behind all that wait there, and a
\* row put at a rank below them ahead of them.
LEMMA PlacingARow ==
    ASSUME AheadIsByRank, AheadIsByRank', NEW t \in Task, NEW q \in Queue, t \notin Members(q),
           \A u \in Task \ {t} : row'[u] = row[u],
           t \in Members(q)', row'[t].rank \in Int
    PROVE  /\ QueueMembers' = [Queues!WaitingWithout(t) EXCEPT ![q] = @ \cup {t}]
           /\ (\A u \in Members(q) : row[u].rank < row'[t].rank /\ ~(row'[t].rank < row[u].rank)) =>
                 Ahead' = Queues!Without(Ahead, t) \cup (QueueMembers[q] \X {t})
           /\ (\A u \in Members(q) : row'[t].rank < row[u].rank /\ ~(row[u].rank < row'[t].rank)) =>
                 Ahead' = Queues!Without(Ahead, t) \cup ({t} \X QueueMembers[q])
  <1> DEFINE rest == Queues!Without(Ahead, t)
             M == Members(q)
  <1>1. \A u \in Task \ {t} : \A p \in Queue : u \in Members(p)' <=> u \in Members(p)
    BY OthersKeepTheirOrder
  <1>2. \A p \in Queue : t \in Members(p)' <=> p = q
    BY QueuesAreApartNext
  <1>3. QueueMembers' = [Queues!WaitingWithout(t) EXCEPT ![q] = @ \cup {t}]
    <2>1. \A p \in Queue : Members(p)' = IF p = q THEN (QueueMembers[p] \ {t}) \cup {t}
                                         ELSE QueueMembers[p] \ {t}
      BY <1>1, <1>2, QueuesAreApart, QueuesAreApartNext
    <2>2. QueueMembers' = [p \in Queue |-> Members(p)']
      BY DEF QueueMembers
    <2>3. Queues!WaitingWithout(t) = [p \in Queue |-> QueueMembers[p] \ {t}]
      BY DEF Queues!WaitingWithout
    <2> QED BY <2>1, <2>2, <2>3
  <1>4. /\ rest \in SUBSET (Task \X Task) /\ Ahead' \in SUBSET (Task \X Task)
        /\ M \subseteq Task /\ QueueMembers[q] = M
    BY QueuesAreApart DEF AheadIsByRank, Queues!Without
  <1>5. \A u, v \in Task : <<u, v>> \in rest <=> <<u, v>> \in Ahead /\ u # t /\ v # t
    BY DEF Queues!Without
  <1>6. \A u, v \in Task \ {t} : <<u, v>> \in Ahead' <=> <<u, v>> \in rest
    BY <1>5, OthersKeepTheirOrder
  <1>7. \A u \in Task : /\ <<u, t>> \in Ahead' <=> u \in Members(q)' /\ row'[u].rank < row'[t].rank
                        /\ <<t, u>> \in Ahead' <=> u \in Members(q)' /\ row'[t].rank < row'[u].rank
    BY <1>2 DEF AheadIsByRank
  <1>8. ~(row'[t].rank < row'[t].rank)
    OBVIOUS
  <1>9. \A u \in Task \ {t} : (u \in Members(q)' <=> u \in M) /\ row'[u].rank = row[u].rank
    BY <1>1
  <1> HIDE DEF rest, M
  <1>10. ASSUME \A u \in M : row[u].rank < row'[t].rank /\ ~(row'[t].rank < row[u].rank)
         PROVE  Ahead' = rest \cup (QueueMembers[q] \X {t})
    <2> DEFINE after == rest \cup (QueueMembers[q] \X {t})
    <2>1. after \in SUBSET (Task \X Task)
      BY <1>4
    <2>2. ASSUME NEW u \in Task, NEW v \in Task
          PROVE  <<u, v>> \in Ahead' <=> <<u, v>> \in after
      <3>1. <<u, v>> \in after <=> <<u, v>> \in rest \/ (u \in M /\ v = t)
        BY <1>4
      <3> HIDE DEF after
      <3>2. CASE u # t /\ v # t
        BY <1>6, <3>1, <3>2
      <3>3. CASE u # t /\ v = t
        BY <1>5, <1>7, <1>9, <1>10, <3>1, <3>3
      <3>4. CASE u = t /\ v # t
        BY <1>5, <1>7, <1>9, <1>10, <3>1, <3>4
      <3>5. CASE u = t /\ v = t
        BY <1>5, <1>7, <1>8, <3>1, <3>5 DEF M
      <3> QED BY <3>2, <3>3, <3>4, <3>5
    <2> HIDE DEF after
    <2>3. Ahead' = after
      BY <1>4, <2>1, <2>2, SamePairs
    <2> QED BY <2>3 DEF after
  <1>11. ASSUME \A u \in M : row'[t].rank < row[u].rank /\ ~(row[u].rank < row'[t].rank)
         PROVE  Ahead' = rest \cup ({t} \X QueueMembers[q])
    <2> DEFINE after == rest \cup ({t} \X QueueMembers[q])
    <2>1. after \in SUBSET (Task \X Task)
      BY <1>4
    <2>2. ASSUME NEW u \in Task, NEW v \in Task
          PROVE  <<u, v>> \in Ahead' <=> <<u, v>> \in after
      <3>1. <<u, v>> \in after <=> <<u, v>> \in rest \/ (v \in M /\ u = t)
        BY <1>4
      <3> HIDE DEF after
      <3>2. CASE u # t /\ v # t
        BY <1>6, <3>1, <3>2
      <3>3. CASE u # t /\ v = t
        BY <1>5, <1>7, <1>9, <1>11, <3>1, <3>3
      <3>4. CASE u = t /\ v # t
        BY <1>5, <1>7, <1>9, <1>11, <3>1, <3>4
      <3>5. CASE u = t /\ v = t
        BY <1>5, <1>7, <1>8, <3>1, <3>5 DEF M
      <3> QED BY <3>2, <3>3, <3>4, <3>5
    <2> HIDE DEF after
    <2>3. Ahead' = after
      BY <1>4, <2>1, <2>2, SamePairs
    <2> QED BY <2>3 DEF after
  <1> QED
    BY <1>3, <1>10, <1>11 DEF rest, M

\* The rows that wait and that run are those of the queues.
LEMMA RowsOfTheQueues ==
    ASSUME StoreIInv, NEW t \in Task
    PROVE  /\ Queues!Waits(t) <=> Waiting(t)
           /\ Queues!Runs(t) <=> Running(t)
           /\ \A q \in Queue : t \in Members(q) <=> Waiting(t) /\ row[t].queue = q
  <1>1. row[t].queue \in Queue /\ row[t].status \in Status
    BY DEF StoreIInv, StoreTypeOK, Row
  <1>2. Waiting(t) => (row[t].queue = "staged" <=> row[t].status = "staged")
    BY DEF StoreIInv, WaitingRowsAreMembers
  <1>3. \A q \in Queue : t \in Members(q) <=> Waiting(t) /\ row[t].queue = q
    BY <1>2 DEF Members, Waiting, StatusForQueue
  <1> QED
    BY <1>1, <1>3, QueuesAreApart DEF Queues!Waits, Queues!Runs

LEMMA NothingToRemove ==
    ASSUME StoreIInv, NEW t \in Task, ~Waiting(t)
    PROVE  Queues!WaitingWithout(t) = QueueMembers /\ Queues!Without(Ahead, t) = Ahead
  <1>1. \A q \in Queue : t \notin Members(q)
    BY RowsOfTheQueues
  <1>2. Queues!WaitingWithout(t) = QueueMembers
    <2>1. \A q \in Queue : QueueMembers[q] \ {t} = Members(q)
      BY <1>1, QueuesAreApart
    <2> QED BY <2>1 DEF Queues!WaitingWithout, QueueMembers
  <1>3. Queues!Without(Ahead, t) = Ahead
    <2>1. AheadIsByRank
      BY OrderedByRank
    <2>2. \A p \in Ahead : t \notin {p[1], p[2]}
      BY <1>1, <2>1 DEF AheadIsByRank
    <2> QED BY <2>2 DEF Queues!Without
  <1> QED
    BY <1>2, <1>3

LEMMA RunnersStay ==
    ASSUME \A u \in Task : /\ Running(u)' <=> Running(u)
                           /\ Running(u) => row'[u].queue = row[u].queue
    PROVE  QueueRunners' = QueueRunners
  BY DEF QueueRunners

\* The ranks handed out next lie outside of those that are taken.
LEMMA EndsAreOutside ==
    ASSUME StoreTypeOK, NEW q \in Queue
    PROVE  /\ NextQueueRank(q) \in Int /\ HeadQueueRank(q) \in Int
           /\ \A t \in Members(q) : /\ row[t].rank < NextQueueRank(q)
                                    /\ ~(NextQueueRank(q) < row[t].rank)
                                    /\ HeadQueueRank(q) < row[t].rank
                                    /\ ~(row[t].rank < HeadQueueRank(q))
  <1>1. Members(q) \in SUBSET Task /\ \A t \in Members(q) : row[t].rank \in Int
    BY DEF Members, StoreTypeOK, Row
  <1>2. CASE Members(q) = {}
    BY <1>2 DEF NextQueueRank, HeadQueueRank
  <1>3. CASE Members(q) # {}
    <2> DEFINE R == Ranks(Members(q))
    <2>1. Lowest(R) \in Int /\ Highest(R) \in Int
      BY <1>1, <1>3, RanksLieBetween
    <2>2. \A t \in Members(q) : Lowest(R) <= row[t].rank /\ row[t].rank <= Highest(R)
      BY <1>1, <1>3, RanksLieBetween
    <2>3. NextQueueRank(q) = Highest(R) + 1 /\ HeadQueueRank(q) = Lowest(R) - 1
      BY <1>3 DEF NextQueueRank, HeadQueueRank
    <2> HIDE DEF R
    <2> QED BY <1>1, <2>1, <2>2, <2>3
  <1> QED
    BY <1>2, <1>3

\* What ToTail writes enqueues a new task or moves one that waits.
LEMMA ToTailIsATail ==
    ASSUME StoreIInv, StoreIInv', NEW t \in Task, NEW q \in Queue, t \notin Members(q),
           ToTail(t, q), ~Running(t), UNCHANGED before
    PROVE  Queues!Enqueue(t, q) \/ Queues!Move(t, q)
  <1>1. AheadIsByRank /\ AheadIsByRank'
    BY OrderedByRank, OrderedByRankNext
  <1>2. /\ row'[t] = Enqueued(q, NextQueueRank(q))
        /\ \A u \in Task \ {t} : row'[u] = row[u]
    BY DEF StoreIInv, StoreTypeOK, ToTail
  <1>3. /\ t \in Members(q)' /\ row'[t].rank = NextQueueRank(q)
        /\ ~Running(t)'
    BY <1>2 DEF Enqueued, Members, Running, StatusForQueue
  <1>4. /\ QueueMembers' = [Queues!WaitingWithout(t) EXCEPT ![q] = @ \cup {t}]
        /\ Ahead' = Queues!Without(Ahead, t) \cup (QueueMembers[q] \X {t})
    BY <1>1, <1>2, <1>3, EndsAreOutside, PlacingARow DEF StoreIInv
  <1>5. UNCHANGED <<QueueRunners, before>>
    BY <1>2, <1>3, RunnersStay DEF Running
  <1>6. CASE Waiting(t)
    BY <1>4, <1>5, <1>6, RowsOfTheQueues, QueuesAreApart DEF Queues!Move
  <1>7. CASE ~Waiting(t)
    BY <1>4, <1>5, <1>7, RowsOfTheQueues, NothingToRemove DEF Queues!Enqueue
  <1> QED
    BY <1>6, <1>7

\* A row that ran ends, or returns to the head of a queue.
LEMMA OneRunnerLess ==
    ASSUME StoreIInv, NEW t \in Task, Running(t), \A u \in Task \ {t} : row'[u] = row[u],
           ~Running(t)', NoLongerRuns(t)
    PROVE  Queues!Ends(t)
  <1>1. QueueRunners' = Queues!RunningWithout(t)
    <2>1. \A q \in Queue : {u \in Task : Running(u)' /\ row'[u].queue = q} = QueueRunners[q] \ {t}
      BY QueuesAreApart DEF Running
    <2> QED BY <2>1 DEF QueueRunners, Queues!RunningWithout
  <1>2. before' = Queues!Without(before, t)
    BY DEF NoLongerRuns, Queues!Without
  <1> QED
    BY <1>1, <1>2, RowsOfTheQueues DEF Queues!Ends

LEMMA ReturnToHeadIsAHead ==
    ASSUME StoreIInv, StoreIInv', NEW t \in Task, NEW q \in Queue, Running(t), ReturnToHead(t, q)
    PROVE  Queues!ReturnToHead(t, q)
  <1>1. AheadIsByRank /\ AheadIsByRank'
    BY OrderedByRank, OrderedByRankNext
  <1>2. /\ row'[t] = Enqueued(q, HeadQueueRank(q))
        /\ \A u \in Task \ {t} : row'[u] = row[u]
    BY DEF StoreIInv, StoreTypeOK, ReturnToHead
  <1>3. /\ t \in Members(q)' /\ row'[t].rank = HeadQueueRank(q)
        /\ ~Running(t)' /\ ~Waiting(t)
    BY <1>2 DEF Enqueued, Members, Running, Waiting, StatusForQueue
  <1>4. t \notin Members(q)
    BY <1>3, RowsOfTheQueues
  <1>5. /\ QueueMembers' = [Queues!WaitingWithout(t) EXCEPT ![q] = @ \cup {t}]
        /\ Ahead' = Queues!Without(Ahead, t) \cup ({t} \X QueueMembers[q])
    BY <1>1, <1>2, <1>3, <1>4, EndsAreOutside, PlacingARow DEF StoreIInv
  <1>6. Queues!Ends(t)
    BY <1>2, <1>3, OneRunnerLess DEF ReturnToHead
  <1> QED
    BY <1>3, <1>5, <1>6, NothingToRemove DEF Queues!ReturnToHead

\* A row whose wait or whose run is over.
LEMMA RowNoLongerWaits ==
    ASSUME StoreIInv, StoreIInv', NEW t \in Task, \A u \in Task \ {t} : row'[u] = row[u],
           ~Waiting(t)'
    PROVE  Queues!Leaves(t)
  <1>1. AheadIsByRank /\ AheadIsByRank'
    BY OrderedByRank, OrderedByRankNext
  <1>2. \A q \in Queue : t \notin Members(q)'
    BY DEF Members, Waiting, StatusForQueue
  <1> QED
    BY <1>1, <1>2, LeavingARow

\* Numbering the rows of a queue anew is a new order of them, and of nothing else.
LEMMA ReorderIsAnOrder ==
    ASSUME StoreIInv, StoreIInv', NEW q \in Queue, ReorderQueue(q)
    PROVE  Queues!Reorder(q)
  <1> DEFINE M == Members(q)
             own == M \X M
  <1>1. AheadIsByRank /\ AheadIsByRank'
    BY OrderedByRank, OrderedByRankNext
  <1>2. PICK place \in [M -> 1 .. Cardinality(M)] :
          row' = [t \in Task |-> IF t \in M THEN [row[t] EXCEPT !.rank = place[t]] ELSE row[t]]
    BY DEF ReorderQueue
  <1>3. \A t \in Task : /\ row'[t].status = row[t].status /\ row'[t].queue = row[t].queue
                        /\ t \notin M => row'[t] = row[t]
    BY <1>2 DEF StoreIInv, StoreTypeOK, Row
  <1>4. \A p \in Queue : Members(p)' = Members(p)
    BY <1>3 DEF Members
  <1>5. M \subseteq Task /\ QueueMembers[q] = M /\ QueueMembers' = QueueMembers
    BY <1>4, QueuesAreApart DEF QueueMembers
  <1>6. QueueRunners' = QueueRunners
    BY <1>3, RunnersStay DEF Running
  <1>7. before' = before
    BY DEF ReorderQueue
  <1>8. \A p \in Queue : p # q => \A t \in Members(p) : row'[t] = row[t]
    BY <1>3, <1>5, QueuesAreApart
  <1>9. \A t, u \in M : <<t, u>> \in Ahead' <=> row'[t].rank < row'[u].rank
    <2>1. \A t, u \in Task : <<t, u>> \in Ahead' <=>
             \E p \in Queue : t \in Members(p) /\ u \in Members(p) /\ row'[t].rank < row'[u].rank
      <3>1. \A t, u \in Task : <<t, u>> \in Ahead' <=>
               \E p \in Queue : /\ t \in Members(p)' /\ u \in Members(p)'
                                /\ row'[t].rank < row'[u].rank
        BY <1>1 DEF AheadIsByRank
      <3> QED BY <1>4, <3>1, Zenon
    <2>2. M = Members(q)
      OBVIOUS
    <2> HIDE DEF M
    <2> QED BY <1>5, <2>1, <2>2
  <1>10. Queues!Orders(Ahead' \cap own, M)
    <2>1. \A t \in M : row'[t].rank \in Int
      BY <1>5 DEF StoreIInv, StoreTypeOK, Row
    <2>2. \A t, u \in M : row'[t].rank = row'[u].rank => t = u
      BY <1>4 DEF StoreIInv, RanksAreUnique
    <2>3. \A t, u \in M : <<t, u>> \in Ahead' \cap own <=> row'[t].rank < row'[u].rank
      BY <1>9
    <2>4. Ahead' \cap own \subseteq M \X M
      OBVIOUS
    <2> HIDE DEF M, own
    <2>5. \A t, u \in M : t # u <=> row'[t].rank < row'[u].rank \/ row'[u].rank < row'[t].rank
      BY <2>1, <2>2
    <2>6. \A t, u, v \in M : row'[t].rank < row'[u].rank /\ row'[u].rank < row'[v].rank
             => row'[t].rank < row'[v].rank
      BY <2>1
    <2> QED BY <2>3, <2>4, <2>5, <2>6 DEF Queues!Orders
  <1>11. Ahead' \ own = Ahead \ own
    <2>1. Ahead' \ own \in SUBSET (Task \X Task) /\ Ahead \ own \in SUBSET (Task \X Task)
      BY <1>1 DEF AheadIsByRank
    <2>2. ASSUME NEW t \in Task, NEW u \in Task, t \notin M \/ u \notin M
          PROVE  <<t, u>> \in Ahead' <=> <<t, u>> \in Ahead
      <3>1. \A p \in Queue : t \in Members(p) /\ u \in Members(p) =>
               row'[t] = row[t] /\ row'[u] = row[u]
        BY <1>8, <2>2
      <3> QED BY <1>1, <1>4, <3>1 DEF AheadIsByRank
    <2>3. \A t, u \in Task : <<t, u>> \in own <=> t \in M /\ u \in M
      OBVIOUS
    <2> HIDE DEF M, own
    <2>4. \A t, u \in Task : <<t, u>> \in Ahead' \ own <=> <<t, u>> \in Ahead \ own
      BY <2>2, <2>3
    <2> QED BY <2>1, <2>4, SamePairs
  <1> QED
    BY <1>5, <1>6, <1>7, <1>10, <1>11 DEF Queues!Reorder

\* A launch takes the task from its place in its queue and starts it after all that run.
LEMMA StartIsALaunch ==
    ASSUME StoreIInv, StoreIInv', NEW t \in Task, MarkTaskRunning(t)
    PROVE  Queues!Launch(t, row[t].queue)
  <1> DEFINE q == row[t].queue
  <1>1. /\ \A u \in Task \ {t} : row'[u] = row[u]
        /\ row'[t].status = "running" /\ row'[t].queue = q
    BY DEF MarkTaskRunning, StoreIInv, StoreTypeOK, Row
  <1>2. Waiting(t) /\ ~Running(t) /\ ~Waiting(t)' /\ Running(t)'
    BY <1>1 DEF MarkTaskRunning, Waiting, Running
  <1>3. Queues!Leaves(t)
    BY <1>1, <1>2, RowNoLongerWaits
  <1>4. q \in Queue /\ t \in QueueMembers[q]
    BY <1>2, RowsOfTheQueues, QueuesAreApart DEF StoreIInv, StoreTypeOK, Row
  <1>5. QueueRunners' = [QueueRunners EXCEPT ![q] = @ \cup {t}]
    <2>1. \A p \in Queue : {u \in Task : Running(u)' /\ row'[u].queue = p}
                              = IF p = q THEN QueueRunners[p] \cup {t} ELSE QueueRunners[p]
      BY <1>1, <1>2, QueuesAreApart DEF Running
    <2> QED BY <2>1 DEF QueueRunners
  <1>6. before' = before \cup (Queues!AllRunning \X {t})
    <2>1. Queues!AllRunning = {u \in Task : Running(u)}
      BY QueuesAreApart DEF Queues!AllRunning, StoreIInv, StoreTypeOK, Row
    <2> QED BY <2>1 DEF MarkTaskRunning
  <1> QED
    BY <1>3, <1>4, <1>5, <1>6 DEF Queues!Launch

\* After the restart a queue has the rows that ran from it, in the order of their
\* starts, and then those that waited, as they did.
LEMMA QueueAfterRestart ==
    ASSUME StoreIInv, RequeueRunningTasksToQueueHead, NEW q \in Queue
    PROVE  /\ Members(q)' = Members(q) \cup QueueRunners[q]
           /\ \A t, u \in Members(q)' : row'[t].rank < row'[u].rank <=>
                 \/ t \in Members(q) /\ u \in Members(q) /\ row[t].rank < row[u].rank
                 \/ t \in QueueRunners[q] /\ u \in Members(q)
                 \/ t \in QueueRunners[q] /\ u \in QueueRunners[q] /\ <<t, u>> \in before
  <1> DEFINE M == Members(q)
             R == QueueRunners[q]
  <1>1. R = {t \in Task : Running(t) /\ row[t].queue = q}
    BY QueuesAreApart
  <1>2. \A t \in R : row[t].queue # "staged"
    BY <1>1 DEF Running, StoreIInv, WaitingRowsAreMembers
  <1>3. \A t \in M : t \in Task /\ ~Running(t) /\ row[t].queue = q /\ row'[t] = row[t]
    BY RestartKeepsRanksApart DEF Members, Running, StatusForQueue
  <1>4. \A t \in Task : t \in Members(q)' <=> t \in M \/ t \in R
    <2>1. \A t \in Task : ~Running(t) => row'[t] = row[t] /\ t \notin R
      BY <1>1, RestartKeepsRanksApart
    <2>2. \A t \in Task : Running(t) => /\ row'[t].status = "queued"
                                        /\ row'[t].queue = row[t].queue
      BY RestartKeepsRanksApart
    <2>3. ASSUME NEW t \in Task, Running(t)
          PROVE  t \in Members(q)' <=> t \in R
      BY <1>1, <1>2, <2>2, <2>3 DEF Members, StatusForQueue
    <2>4. ASSUME NEW t \in Task, ~Running(t)
          PROVE  t \in Members(q)' <=> t \in M
      BY <2>1, <2>4 DEF Members
    <2> QED BY <1>3, <2>1, <2>3, <2>4
  <1>5. Members(q)' = M \cup R
    BY <1>1, <1>3, <1>4 DEF Members
  <1>6. \A t, u \in Task : t \in R /\ u \in M => row'[t].rank < row'[u].rank
    <2> SUFFICES ASSUME NEW t \in Task, NEW u \in Task, t \in R, u \in M
                 PROVE  row'[t].rank < row'[u].rank
      OBVIOUS
    <2>1. row[u].status = "queued" /\ row[u].queue = row[t].queue /\ Running(t)
      BY <1>1, <1>2, <1>3 DEF Members, StatusForQueue
    <2>2. row'[t].rank < row[u].rank
      BY <2>1, RestartKeepsRanksApart
    <2> QED BY <1>3, <2>2
  <1>7. \A t, u \in Task : t \in R /\ u \in R /\ <<t, u>> \in before =>
           row'[t].rank < row'[u].rank
    BY <1>1, RestartKeepsRanksApart
  <1>8. \A t, u \in Task : t \in R /\ u \in R /\ t # u => <<t, u>> \in before \/ <<u, t>> \in before
    BY <1>1 DEF StoreIInv, StartsAreOrdered
  <1>9. \A t, u \in Task : t \in M \/ u \in M => <<t, u>> \notin before
    BY <1>3 DEF StoreIInv, StartsAreOrdered
  <1>10. \A t \in Task : row'[t].rank \in Int
    BY RestartKeepsRanksApart DEF Row
  <1>11. M \subseteq Task /\ R \subseteq Task /\ M \cap R = {}
    BY <1>1, <1>3
  <1>12. \A m, n \in Int : m < n => ~(n < m) /\ m # n
    OBVIOUS
  <1> HIDE DEF M, R
  <1>13. ASSUME NEW t \in M \cup R, NEW u \in M \cup R
         PROVE  row'[t].rank < row'[u].rank <=> \/ t \in M /\ u \in M /\ row[t].rank < row[u].rank
                                                \/ t \in R /\ u \in M
                                                \/ t \in R /\ u \in R /\ <<t, u>> \in before
    <2>1. t \in Task /\ u \in Task
      BY <1>11
    <2>2. CASE t \in M /\ u \in M
      BY <1>3, <1>11, <2>2
    <2>3. CASE t \in R /\ u \in M
      BY <1>6, <2>1, <2>3
    <2>4. CASE t \in M /\ u \in R
      BY <1>6, <1>10, <1>11, <1>12, <2>1, <2>4
    <2>5. CASE t \in R /\ u \in R
      BY <1>7, <1>8, <1>10, <1>11, <1>12, <2>1, <2>5
    <2> QED BY <2>2, <2>3, <2>4, <2>5
  <1> QED
    BY <1>5, <1>13 DEF M, R

LEMMA RestartReturnsAll ==
    ASSUME StoreIInv, StoreIInv', RequeueRunningTasksToQueueHead
    PROVE  Queues!ReturnAll
  <1> DEFINE R(q) == QueueRunners[q]
             Between(q) == (R(q) \X QueueMembers[q]) \cup (before \cap (R(q) \X R(q)))
             after == Ahead \cup UNION {Between(q) : q \in Queue}
  <1>1. AheadIsByRank /\ AheadIsByRank'
    BY OrderedByRank, OrderedByRankNext
  <1>2. \A q \in Queue : Members(q)' = QueueMembers[q] \cup QueueRunners[q]
    BY QueueAfterRestart, QueuesAreApart
  <1>3. QueueMembers' = [q \in Queue |-> QueueMembers[q] \cup QueueRunners[q]]
    BY <1>2 DEF QueueMembers
  <1>4. \A t \in Task : ~Running(t)'
    BY RestartKeepsRanksApart DEF Running
  <1>5. QueueRunners' = [q \in Queue |-> {}]
    BY <1>4 DEF QueueRunners
  <1>6. before' = {}
    BY DEF RequeueRunningTasksToQueueHead
  <1>7. \A q \in Queue : R(q) \subseteq Task /\ QueueMembers[q] \subseteq Task
    BY QueuesAreApart
  <1>8. Ahead' \in SUBSET (Task \X Task) /\ after \in SUBSET (Task \X Task)
    BY <1>1, <1>7 DEF AheadIsByRank
  <1>9. \A t, u \in Task : \A q \in Queue : <<t, u>> \in Between(q) <=>
           \/ t \in R(q) /\ u \in Members(q)
           \/ t \in R(q) /\ u \in R(q) /\ <<t, u>> \in before
    BY QueuesAreApart
  <1> HIDE DEF R, Between
  <1>10. \A t, u \in Task : <<t, u>> \in after <=>
            <<t, u>> \in Ahead \/ \E q \in Queue : <<t, u>> \in Between(q)
    OBVIOUS
  <1> HIDE DEF after
  <1>11. ASSUME NEW t \in Task, NEW u \in Task
         PROVE  <<t, u>> \in Ahead' <=> <<t, u>> \in after
    <2>1. <<t, u>> \in Ahead' <=> \E q \in Queue : /\ t \in Members(q)' /\ u \in Members(q)'
                                                   /\ row'[t].rank < row'[u].rank
      BY <1>1 DEF AheadIsByRank
    <2>2. <<t, u>> \in Ahead <=> \E q \in Queue : /\ t \in Members(q) /\ u \in Members(q)
                                                  /\ row[t].rank < row[u].rank
      BY <1>1 DEF AheadIsByRank
    <2>3. ASSUME NEW q \in Queue
          PROVE  /\ t \in Members(q)' /\ u \in Members(q)' /\ row'[t].rank < row'[u].rank
                 <=> \/ t \in Members(q) /\ u \in Members(q) /\ row[t].rank < row[u].rank
                     \/ <<t, u>> \in Between(q)
      <3>1. Members(q)' = Members(q) \cup R(q)
        BY QueueAfterRestart DEF R
      <3>2. \A x, y \in Members(q)' : row'[x].rank < row'[y].rank <=>
                 \/ x \in Members(q) /\ y \in Members(q) /\ row[x].rank < row[y].rank
                 \/ x \in R(q) /\ y \in Members(q)
                 \/ x \in R(q) /\ y \in R(q) /\ <<x, y>> \in before
        BY QueueAfterRestart DEF R
      <3> QED BY <1>9, <3>1, <3>2, Zenon
    <2> QED BY <1>10, <2>1, <2>2, <2>3, Zenon
  <1>12. Ahead' = after
    BY <1>8, <1>11, SamePairs
  <1> QED
    BY <1>3, <1>5, <1>6, <1>12 DEF Queues!ReturnAll, after, Between, R

\* Rows that stay as they are, up to their dependencies, leave the queues as they are.
LEMMA SameRowsSameQueues ==
    ASSUME UNCHANGED <<row, before>>
    PROVE  UNCHANGED Queues!queueVars
  BY DEF QueueMembers, Ahead, AheadOf, QueueRunners, Members, Running, Queues!queueVars

\* A row that did not run leaves its queue, or had left all queues before.
LEMMA WaitingRowIsOver ==
    ASSUME StoreIInv, StoreIInv', NEW t \in Task, ~Running(t), ~Running(t)', ~Waiting(t)',
           \A u \in Task \ {t} : row'[u] = row[u], UNCHANGED before
    PROVE  Queues!Leave(t) \/ UNCHANGED Queues!queueVars
  <1>1. Queues!Leaves(t)
    BY RowNoLongerWaits
  <1>2. QueueRunners' = QueueRunners
    BY RunnersStay DEF Running
  <1>3. CASE Waiting(t)
    BY <1>1, <1>2, <1>3, RowsOfTheQueues DEF Queues!Leave
  <1>4. CASE ~Waiting(t)
    BY <1>1, <1>2, <1>4, NothingToRemove DEF Queues!Leaves, Queues!queueVars
  <1> QED
    BY <1>3, <1>4

LEMMA QueuesInit == StoreInit => Queues!Init
  <1> SUFFICES ASSUME StoreInit PROVE Queues!Init
    OBVIOUS
  <1>1. \A q \in Queue : Members(q) = {}
    BY DEF StoreInit, Members, StatusForQueue
  <1>2. \A t \in Task : ~Running(t)
    BY DEF StoreInit, Running
  <1> QED
    BY <1>1, <1>2 DEF Queues!Init, QueueMembers, Ahead, QueueRunners, StoreInit

LEMMA QueuesStep == StoreIInv /\ StoreIInv' /\ [StoreNext]_storeVars => [Queues!Next]_Queues!queueVars
  <1> SUFFICES ASSUME StoreIInv, StoreIInv', [StoreNext]_storeVars
               PROVE  [Queues!Next]_Queues!queueVars
    OBVIOUS
  <1> DEFINE Step == Queues!Next \/ UNCHANGED Queues!queueVars
  <1>1. \A t \in Task, q \in Queue :
           Queues!Enqueue(t, q) \/ Queues!Move(t, q) \/ Queues!Launch(t, q) \/ Queues!ReturnToHead(t, q)
             => Step
    BY DEF Queues!Next
  <1>2. \A t \in Task : Queues!Leave(t) \/ Queues!End(t) => Step
    BY DEF Queues!Next
  <1>3. \A q \in Queue : Queues!Reorder(q) => Step
    BY DEF Queues!Next
  <1>4. Queues!ReturnAll => Step
    BY DEF Queues!Next
  <1>5. UNCHANGED Queues!queueVars => Step
    OBVIOUS
  <1>6. \A t \in Task : row[t].queue \in Queue
    BY DEF StoreIInv, StoreTypeOK, Row
  <1> HIDE DEF Step
  <1>7. ASSUME NEW t \in Task, NEW q \in Queue, t \notin Members(q), ToTail(t, q), ~Running(t),
               UNCHANGED before
        PROVE  Step
    BY <1>1, <1>7, ToTailIsATail
  <1>8. ASSUME NEW t \in Task, NEW q \in Queue, Waiting(t), UNCHANGED before,
               IF t \in Members(q) THEN UNCHANGED row ELSE ToTail(t, q)
        PROVE  Step
    <2>1. ~Running(t)
      BY <1>8 DEF Waiting, Running
    <2> QED BY <1>5, <1>7, <1>8, <2>1, SameRowsSameQueues
  <1>9. ASSUME NEW t \in Task, NEW q \in Queue, Running(t), ReturnToHead(t, q)
        PROVE  Step
    BY <1>1, <1>9, ReturnToHeadIsAHead
  <1>10. ASSUME NEW t \in Task, NextId(t)
         PROVE  ~Running(t) /\ \A q \in Queue : t \notin Members(q)
    BY <1>10 DEF NextId, Running, Members, StatusForQueue
  <1>11. ASSUME NEW t \in Task, NEW q \in Queue, NEW D \in Prerequisites,
                CreateTask(t, q, D) \/ UpdateQueuedTask(t, q, D)
         PROVE  Step
    <2>1. CASE CreateTask(t, q, D)
      BY <1>7, <1>10, <2>1 DEF CreateTask
    <2>2. CASE UpdateQueuedTask(t, q, D)
      BY <1>8, <2>2 DEF UpdateQueuedTask
    <2> QED BY <1>11, <2>1, <2>2
  <1>12. ASSUME NEW t \in Task, NEW D \in Prerequisites, ReplaceDependencies(t, D)
         PROVE  Step
    BY <1>5, <1>12, SameRowsSameQueues DEF ReplaceDependencies
  <1>13. ASSUME NEW s \in Task, NEW t \in Task, CloneTaskForRequeue(s, t)
         PROVE  Step
    BY <1>6, <1>7, <1>10, <1>13 DEF CloneTaskForRequeue
  <1>14. ASSUME NEW t \in Task, NEW q \in Queue,
                MoveTaskToQueue(t, q) \/ RequeueRunningTaskToQueueHead(t, q)
         PROVE  Step
    BY <1>8, <1>9, <1>14 DEF MoveTaskToQueue, RequeueRunningTaskToQueueHead
  <1>15. ASSUME NEW q \in Queue, ReorderQueue(q)
         PROVE  Step
    BY <1>3, <1>15, ReorderIsAnOrder
  <1>16. ASSUME NEW t \in Task, DeleteTask(t)
         PROVE  Step
    <2>1. /\ ~Running(t) /\ ~Running(t)' /\ ~Waiting(t)' /\ UNCHANGED before
          /\ \A u \in Task \ {t} : row'[u] = row[u]
      BY <1>16 DEF DeleteTask, Running, Waiting, StoreIInv, StoreTypeOK
    <2> QED BY <1>2, <1>5, <2>1, WaitingRowIsOver
  <1>17. ASSUME NEW t \in Task, MarkTaskRunning(t)
         PROVE  Step
    BY <1>1, <1>6, <1>17, StartIsALaunch
  <1>18. ASSUME NEW t \in Task, MarkTaskLaunchFailed(t)
         PROVE  Step
    <2>1. /\ ~Running(t) /\ ~Running(t)' /\ ~Waiting(t)' /\ UNCHANGED before
          /\ \A u \in Task \ {t} : row'[u] = row[u]
      BY <1>18 DEF MarkTaskLaunchFailed, Running, Waiting, StoreIInv, StoreTypeOK, Row
    <2> QED BY <1>2, <1>5, <2>1, WaitingRowIsOver
  <1>19. ASSUME NEW t \in Task, ScheduleTaskRetry(t) \/ PreemptRunningTaskToQueueHead(t)
         PROVE  Step
    <2>1. CASE ScheduleTaskRetry(t)
      BY <1>9, <2>1, RetryReturnsToHead
    <2>2. CASE PreemptRunningTaskToQueueHead(t)
      BY <1>9, <2>2 DEF PreemptRunningTaskToQueueHead, Queue
    <2> QED BY <1>19, <2>1, <2>2
  <1>20. ASSUME NEW t \in Task, NEW s \in Final, FinishTask(t, s)
         PROVE  Step
    <2>1. /\ \A u \in Task \ {t} : row'[u] = row[u]
          /\ Running(t) /\ ~Waiting(t) /\ ~Running(t)' /\ ~Waiting(t)' /\ NoLongerRuns(t)
      BY <1>20 DEF FinishTask, Final, Running, Waiting, StoreIInv, StoreTypeOK, Row
    <2>2. Queues!Ends(t)
      BY <2>1, OneRunnerLess
    <2>3. UNCHANGED <<QueueMembers, Ahead>>
      BY <2>1, RowNoLongerWaits, NothingToRemove DEF Queues!Leaves
    <2> QED BY <1>2, <2>2, <2>3 DEF Queues!End
  <1>21. ASSUME RequeueRunningTasksToQueueHead
         PROVE  Step
    BY <1>4, <1>21, RestartReturnsAll
  <1>22. ASSUME UNCHANGED storeVars
         PROVE  Step
    BY <1>5, <1>22, SameRowsSameQueues DEF storeVars
  <1>23. Step
    BY <1>11, <1>12, <1>13, <1>14, <1>15, <1>16, <1>17, <1>18, <1>19, <1>20, <1>21, <1>22
       DEF StoreNext
  <1> QED
    BY <1>23 DEF Step

\* The rows and their ranks implement the queues as orders: whatever the request, the
\* watcher or the restart, a task takes the place the queues promise it (the tail when
\* it comes, the head when it returns, before all others after a restart) and no other
\* two tasks change their order.
THEOREM RanksImplementTheQueues == StoreSpec => RanksImplementQueues
  BY QueuesInit, QueuesStep, StoreInvariant, PTL DEF StoreSpec, RanksImplementQueues, Queues!Spec
==============================================================================
