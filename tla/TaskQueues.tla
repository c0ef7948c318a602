----------------------------- MODULE TaskQueues -----------------------------
(* What the tasks table promises of the three queues, without ranks: the     *)
(* tasks of a queue wait in an order.  A task is enqueued behind all others, *)
(* is launched or deleted from any place, and returns before all others when *)
(* it was running; after a restart all that were running come first, as they *)
(* were started.                                                             *)
CONSTANTS Task, Queue
VARIABLES waiting,  \* waiting[q]: the tasks that wait in queue q
          ahead,    \* <<t, u>>: t and u wait in the same queue, t ahead of u
          running,  \* running[q]: the tasks that run and were launched from q
          earlier   \* <<t, u>>: both run, and t was started before u
queueVars == <<waiting, ahead, running, earlier>>

Waits(t) == \E q \in Queue : t \in waiting[q]
Runs(t) == \E q \in Queue : t \in running[q]
Without(order, t) == {p \in order : t \notin {p[1], p[2]}}
WaitingWithout(t) == [q \in Queue |-> waiting[q] \ {t}]
RunningWithout(t) == [q \in Queue |-> running[q] \ {t}]
AllRunning == UNION {running[q] : q \in Queue}

\* A strict order of S in which any two have their places.
Orders(order, S) ==
    /\ order \subseteq S \X S
    /\ \A t, u \in S : t # u <=> <<t, u>> \in order \/ <<u, t>> \in order
    /\ \A t, u, v \in S : <<t, u>> \in order /\ <<u, v>> \in order => <<t, v>> \in order

Init == /\ waiting = [q \in Queue |-> {}] /\ ahead = {}
        /\ running = [q \in Queue |-> {}] /\ earlier = {}

Enqueue(t, q) == /\ ~Waits(t) /\ ~Runs(t)
                 /\ waiting' = [waiting EXCEPT ![q] = @ \cup {t}]
                 /\ ahead' = ahead \cup (waiting[q] \X {t})
                 /\ UNCHANGED <<running, earlier>>

\* To the tail of another queue; a move to its own queue leaves it in its place.
Move(t, q) == /\ Waits(t) /\ t \notin waiting[q]
              /\ waiting' = [WaitingWithout(t) EXCEPT ![q] = @ \cup {t}]
              /\ ahead' = Without(ahead, t) \cup (waiting[q] \X {t})
              /\ UNCHANGED <<running, earlier>>

Leaves(t) == waiting' = WaitingWithout(t) /\ ahead' = Without(ahead, t)
Leave(t) == Waits(t) /\ Leaves(t) /\ UNCHANGED <<running, earlier>>

Launch(t, q) == /\ t \in waiting[q] /\ Leaves(t)
                /\ running' = [running EXCEPT ![q] = @ \cup {t}]
                /\ earlier' = earlier \cup (AllRunning \X {t})

Ends(t) == Runs(t) /\ running' = RunningWithout(t) /\ earlier' = Without(earlier, t)
End(t) == Ends(t) /\ UNCHANGED <<waiting, ahead>>

ReturnToHead(t, q) == /\ Ends(t)
                      /\ waiting' = [waiting EXCEPT ![q] = @ \cup {t}]
                      /\ ahead' = ahead \cup ({t} \X waiting[q])

\* Any order of the tasks of a queue; the other queues stay as they are.
Reorder(q) == LET own == waiting[q] \X waiting[q] IN
              /\ Orders(ahead' \cap own, waiting[q]) /\ ahead' \ own = ahead \ own
              /\ UNCHANGED <<waiting, running, earlier>>

ReturnAll ==
    /\ waiting' = [q \in Queue |-> waiting[q] \cup running[q]]
    /\ ahead' = ahead \cup UNION {(running[q] \X waiting[q])
                                  \cup (earlier \cap (running[q] \X running[q])) : q \in Queue}
    /\ running' = [q \in Queue |-> {}] /\ earlier' = {}

Next ==
    \/ \E t \in Task, q \in Queue : Enqueue(t, q) \/ Move(t, q) \/ Launch(t, q) \/ ReturnToHead(t, q)
    \/ \E t \in Task : Leave(t) \/ End(t)
    \/ \E q \in Queue : Reorder(q)
    \/ ReturnAll

Spec == Init /\ [][Next]_queueVars
=============================================================================
