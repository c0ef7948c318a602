------------------------- MODULE TerminalPage_proofs -------------------------
(* Proofs about TerminalPage, for any sessions and any bounds.               *)
EXTENDS TerminalPage, SequenceTheorems, TLAPS

USE TerminalBounds, NoneIsNoSession

-----------------------------------------------------------------------------
(* The inductive invariant.                                                  *)

InputQueue == [inflight : BOOLEAN, sending : Seq(Nat), pending : Seq(Nat)]
CallType == [op : {"create", "create ai", "reconnect", "close"},
             old : Session \cup {None}, new : Session \cup {None}]

\* (What is hidden, lost and archived may name any session, and so may an event.)
TerminalTypeOK ==
    /\ cards \subseteq Session /\ fetched \subseteq SUBSET Session
    /\ state \in [Session -> {"new", "alive", "closed", "connection_lost", "exited"}]
    /\ received \in [Session -> Seq(Nat)]
    /\ queue \in [Session -> InputQueue]
    /\ typed \in [Session -> Nat]
    /\ calls \subseteq CallType

\* How many of the keys typed have left the queue.
Base(q, n) == n - Len(q.sending) - Len(q.pending)

\* The queue has the keys from there on, and is pumped while there is something to send.
Waiting(q, n) ==
    /\ q.inflight <=> q.sending # <<>>
    /\ Base(q, n) \in Nat
    /\ \A i \in 1 .. Len(q.sending) : q.sending[i] = Base(q, n) + i
    /\ \A i \in 1 .. Len(q.pending) : q.pending[i] = Base(q, n) + Len(q.sending) + i

\* Of n keys typed a terminal got these, the first b of them for certain: each key is the
\* first or has its predecessor before it, and some key is the last that arrived.
Arrived(got, b, n) ==
    /\ b = 0 \/ \E i \in 1 .. Len(got) : got[i] = b
    /\ \A i \in 1 .. Len(got) : got[i] = 1 \/ \E j \in 1 .. i - 1 : got[j] = got[i] - 1
    /\ \E last \in 0 .. n : /\ b <= last
                            /\ \A i \in 1 .. Len(got) : got[i] <= last
                            /\ last = 0 \/ \E i \in 1 .. Len(got) : got[i] = last

\* Also the queue of a session whose earlier queue was thrown away goes on in order; only
\* what its terminal got has a gap.
QueuesAreInOrder == \A s \in Session : Waiting(queue[s], typed[s])
KeptInputArrives ==
    \A s \in Session \ dropped : Arrived(received[s], Base(queue[s], typed[s]), typed[s])

\* The card in front is one of the cards.
FrontHasCard == active \in cards \cup {None}

\* A session that a handler has asked for is asked for once and is not new any more, and
\* only its answer can make it an AI session.
NewSessionsAreApart ==
    /\ \A c \in calls : c.op # "close" => c.new \in Session /\ state[c.new] # "new" /\ c.new \notin ai
    /\ \A c, d \in calls : c.op # "close" /\ d.op # "close" /\ c.new = d.new => c = d
    /\ \A s \in ai : s \in Session /\ state[s] # "new"

TerminalIInv == /\ TerminalTypeOK
                /\ QueuesAreInOrder
                /\ KeptInputArrives
                /\ FrontHasCard
                /\ NewSessionsAreApart
                /\ TickedTerminalsHaveCards

-----------------------------------------------------------------------------
(* What a terminal has got.                                                  *)

LEMMA NothingArrived == ASSUME NEW n \in Nat PROVE Arrived(<<>>, 0, n)
  <1>1. Len(<<>>) = 0
    OBVIOUS
  <1>2. 0 \in 0 .. n
    OBVIOUS
  <1> QED
    BY <1>1, <1>2 DEF Arrived

\* When more is typed, or less is certain, the same has arrived.
LEMMA ArrivedGrows ==
    ASSUME NEW got, NEW b \in Nat, NEW n \in Nat, Arrived(got, b, n)
    PROVE  Arrived(got, b, n + 1)
  <1>1. 0 .. n \subseteq 0 .. n + 1
    OBVIOUS
  <1> QED
    BY <1>1 DEF Arrived

\* The key after those that arrived for certain arrives in order, whether its answer
\* comes or not.
LEMMA NextKeyArrives ==
    ASSUME NEW got \in Seq(Nat), NEW b \in Nat, NEW n \in Nat, Arrived(got, b, n), b + 1 <= n
    PROVE  /\ Arrived(Append(got, b + 1), b, n)
           /\ Arrived(Append(got, b + 1), b + 1, n)
  <1> DEFINE more == Append(got, b + 1)
  <1>1. /\ Len(more) = Len(got) + 1 /\ Len(got) \in Nat
        /\ more[Len(got) + 1] = b + 1
        /\ \A i \in 1 .. Len(got) : more[i] = got[i] /\ got[i] \in Nat
    OBVIOUS
  <1> HIDE DEF more
  <1>2. /\ b = 0 \/ \E i \in 1 .. Len(got) : got[i] = b
        /\ \A i \in 1 .. Len(got) : got[i] = 1 \/ \E j \in 1 .. i - 1 : got[j] = got[i] - 1
    BY DEF Arrived
  <1>3. PICK last \in 0 .. n : /\ b <= last
                               /\ \A i \in 1 .. Len(got) : got[i] <= last
                               /\ last = 0 \/ \E i \in 1 .. Len(got) : got[i] = last
    BY DEF Arrived
  <1>4. \E i \in 1 .. Len(more) : more[i] = b + 1
    BY <1>1
  <1>5. b = 0 \/ \E i \in 1 .. Len(more) : more[i] = b
    BY <1>1, <1>2
  <1>6. ASSUME NEW i \in 1 .. Len(more)
        PROVE  more[i] = 1 \/ \E j \in 1 .. i - 1 : more[j] = more[i] - 1
    <2>1. CASE i \in 1 .. Len(got)
      <3>1. CASE got[i] = 1
        BY <1>1, <2>1, <3>1
      <3>2. CASE \E j \in 1 .. i - 1 : got[j] = got[i] - 1
        <4>1. PICK j \in 1 .. i - 1 : got[j] = got[i] - 1
          BY <3>2
        <4>2. j \in 1 .. Len(got)
          BY <1>1, <2>1
        <4> QED BY <1>1, <2>1, <4>1, <4>2
      <3> QED BY <1>2, <2>1, <3>1, <3>2
    <2>2. CASE i = Len(got) + 1
      <3>1. more[i] = b + 1 /\ i - 1 = Len(got)
        BY <1>1, <2>2
      <3>2. CASE b = 0
        BY <3>1, <3>2
      <3>3. CASE \E j \in 1 .. Len(got) : got[j] = b
        <4>1. PICK j \in 1 .. Len(got) : got[j] = b
          BY <3>3
        <4>2. j \in 1 .. i - 1 /\ more[j] = more[i] - 1
          BY <1>1, <3>1, <4>1
        <4> QED BY <4>2
      <3> QED BY <1>2, <3>2, <3>3
    <2> QED BY <1>1, <2>1, <2>2
  <1>7. \E m \in 0 .. n : /\ b + 1 <= m
                          /\ \A i \in 1 .. Len(more) : more[i] <= m
                          /\ m = 0 \/ \E i \in 1 .. Len(more) : more[i] = m
    <2>1. CASE b + 1 <= last
      <3>1. ASSUME NEW i \in 1 .. Len(more) PROVE more[i] <= last
        <4>1. CASE i \in 1 .. Len(got)
          BY <1>1, <1>3, <4>1
        <4>2. CASE i = Len(got) + 1
          BY <1>1, <2>1, <4>2
        <4> QED BY <1>1, <4>1, <4>2
      <3>2. last = 0 \/ \E i \in 1 .. Len(more) : more[i] = last
        BY <1>1, <1>3
      <3> QED BY <2>1, <3>1, <3>2
    <2>2. CASE last < b + 1
      <3>1. ASSUME NEW i \in 1 .. Len(more) PROVE more[i] <= b + 1
        <4>1. CASE i \in 1 .. Len(got)
          <5>1. got[i] \in Nat /\ got[i] <= last /\ more[i] = got[i]
            BY <1>1, <1>3, <4>1
          <5> QED BY <2>2, <5>1
        <4>2. CASE i = Len(got) + 1
          BY <1>1, <4>2
        <4> QED BY <1>1, <4>1, <4>2
      <3>2. b + 1 \in 0 .. n /\ b + 1 <= b + 1
        OBVIOUS
      <3> QED BY <1>4, <3>1, <3>2
    <2> QED BY <2>1, <2>2
  <1>8. \E m \in 0 .. n : /\ b <= m
                          /\ \A i \in 1 .. Len(more) : more[i] <= m
                          /\ m = 0 \/ \E i \in 1 .. Len(more) : more[i] = m
    BY <1>7
  <1> QED
    BY <1>4, <1>5, <1>6, <1>7, <1>8 DEF Arrived, more

-----------------------------------------------------------------------------
(* What the pump and the keyboard do to one queue.                           *)

LEMMA QueueParts ==
    ASSUME NEW q \in InputQueue
    PROVE  /\ q.inflight \in BOOLEAN
           /\ q.sending \in Seq(Nat) /\ q.pending \in Seq(Nat)
           /\ Len(q.sending) \in Nat /\ Len(q.pending) \in Nat
  <1>1. q.inflight \in BOOLEAN
    BY Zenon DEF InputQueue
  <1> QED
    BY <1>1 DEF InputQueue

LEMMA NoKeys == <<>> \in Seq(Nat) /\ Len(<<>>) = 0
  OBVIOUS

LEMMA EmptyQueue ==
    ASSUME NEW n \in Nat
    PROVE  Quiet \in InputQueue /\ Waiting(Quiet, n) /\ Base(Quiet, n) = n
  <1>2. Quiet.inflight = FALSE /\ Quiet.sending = <<>> /\ Quiet.pending = <<>>
    BY DEF Quiet
  <1>3. Quiet \in InputQueue
    BY NoKeys DEF Quiet, InputQueue
  <1>4. Base(Quiet, n) = n
    <2>1. Len(Quiet.sending) = 0 /\ Len(Quiet.pending) = 0
      BY <1>2, NoKeys
    <2> QED BY <2>1 DEF Base
  <1>5. Quiet.inflight <=> Quiet.sending # <<>>
    BY <1>2
  <1>6. /\ \A i \in 1 .. Len(Quiet.sending) : Quiet.sending[i] = Base(Quiet, n) + i
        /\ \A i \in 1 .. Len(Quiet.pending) :
              Quiet.pending[i] = Base(Quiet, n) + Len(Quiet.sending) + i
    BY <1>2, NoKeys
  <1> QED
    BY <1>3, <1>4, <1>5, <1>6 DEF Waiting

\* What is sent next is the key after those that have left the queue.
LEMMA NextKey ==
    ASSUME NEW q \in InputQueue, NEW n \in Nat, Waiting(q, n), q.sending # <<>>
    PROVE  Base(q, n) \in Nat /\ Head(q.sending) = Base(q, n) + 1 /\ Base(q, n) + 1 <= n
  <1>2. Base(q, n) \in Nat /\ \A i \in 1 .. Len(q.sending) : q.sending[i] = Base(q, n) + i
    BY Zenon DEF Waiting
  <1>3. /\ Len(q.sending) \in Nat /\ Len(q.sending) > 0 /\ Len(q.pending) \in Nat
        /\ Head(q.sending) = q.sending[1]
    BY QueueParts
  <1>4. 1 \in 1 .. Len(q.sending)
    BY <1>3
  <1>5. q.sending[1] = Base(q, n) + 1
    BY <1>2, <1>4
  <1>6. Base(q, n) + 1 <= n
    <2>1. \A k, m \in Nat : k > 0 => n - k - m + 1 <= n
      OBVIOUS
    <2> QED BY <1>3, <2>1, Zenon DEF Base
  <1> QED
    BY <1>2, <1>3, <1>5, <1>6

\* What has not been sent goes back in front of what was typed meanwhile.
LEMMA UnsentStaysInOrder ==
    ASSUME NEW q \in InputQueue, NEW n \in Nat, Waiting(q, n)
    PROVE  /\ UnsentFirst(q) \in InputQueue /\ Waiting(UnsentFirst(q), n)
           /\ Base(UnsentFirst(q), n) = Base(q, n)
  <1> DEFINE b == Base(q, n)
             all == q.sending \o q.pending
             u == UnsentFirst(q)
  <1>1. /\ q.sending \in Seq(Nat) /\ q.pending \in Seq(Nat)
        /\ Len(q.sending) \in Nat /\ Len(q.pending) \in Nat
    BY QueueParts
  <1>2. /\ all \in Seq(Nat) /\ Len(all) = Len(q.sending) + Len(q.pending)
        /\ \A i \in 1 .. Len(all) :
              all[i] = IF i <= Len(q.sending) THEN q.sending[i] ELSE q.pending[i - Len(q.sending)]
    BY <1>1, ConcatProperties
  <1>3. /\ b \in Nat
        /\ \A i \in 1 .. Len(q.sending) : q.sending[i] = b + i
        /\ \A i \in 1 .. Len(q.pending) : q.pending[i] = b + Len(q.sending) + i
    BY Zenon DEF Waiting
  <1>4. u = [inflight |-> FALSE, sending |-> <<>>, pending |-> all]
    BY DEF UnsentFirst
  <1>5. b = n - Len(q.sending) - Len(q.pending)
    BY DEF Base
  <1> HIDE DEF all, b, u
  <1>6. u.inflight = FALSE /\ u.sending = <<>> /\ u.pending = all
    BY <1>4
  <1>7. u \in InputQueue
    BY <1>2, <1>4, NoKeys DEF InputQueue
  <1>8. Base(u, n) = b
    <2>1. Len(u.sending) = 0 /\ Len(u.pending) = Len(all)
      BY <1>6, NoKeys
    <2> QED BY <1>1, <1>2, <1>5, <2>1 DEF Base
  <1>9. ASSUME NEW i \in 1 .. Len(all)
        PROVE  all[i] = b + i
    <2> DEFINE ns == Len(q.sending)
               np == Len(q.pending)
    <2>3. ns \in Nat /\ np \in Nat /\ i \in 1 .. ns + np
      BY <1>1, <1>2
    <2>4. all[i] = IF i <= ns THEN q.sending[i] ELSE q.pending[i - ns]
      BY <1>2, Zenon
    <2>1. CASE i <= Len(q.sending)
      <3>1. i \in 1 .. Len(q.sending)
        <4> HIDE DEF ns, np
        <4> QED BY <2>1, <2>3 DEF ns
      <3> QED BY <1>3, <2>1, <2>4, <3>1
    <2>2. CASE Len(q.sending) < i
      <3>1. i - Len(q.sending) \in 1 .. Len(q.pending)
        <4>1. \A k, m \in Nat : k < i /\ i \in 1 .. k + m => i - k \in 1 .. m
          OBVIOUS
        <4> QED BY <2>2, <2>3, <4>1
      <3>2. q.pending[i - Len(q.sending)] = b + Len(q.sending) + (i - Len(q.sending))
        BY <1>3, <3>1
      <3>3. all[i] = q.pending[i - Len(q.sending)]
        <4> HIDE DEF ns, np
        <4>1. ~(i <= ns)
          BY <2>2, <2>3 DEF ns
        <4> QED BY <2>4, <4>1 DEF ns
      <3>4. \A k \in Nat : b + k + (i - k) = b + i
        BY <1>3
      <3> QED BY <1>1, <3>2, <3>3, <3>4
    <2> QED BY <2>1, <2>2, <2>3
  <1>10. Waiting(u, n)
    <2>1. u.inflight <=> u.sending # <<>>
      BY <1>6
    <2>2. \A i \in 1 .. Len(u.sending) : u.sending[i] = Base(u, n) + i
      BY <1>6, NoKeys
    <2>3. \A i \in 1 .. Len(u.pending) : u.pending[i] = Base(u, n) + Len(u.sending) + i
      <3>1. \A i \in 1 .. Len(all) : b + 0 + i = b + i
        BY <1>2, <1>3
      <3> QED BY <1>6, <1>8, <1>9, <3>1, NoKeys
    <2> QED BY <1>3, <1>8, <2>1, <2>2, <2>3 DEF Waiting
  <1> QED
    BY <1>7, <1>8, <1>10 DEF b, u

\* After a piece has been sent, the queue goes on with the next.
LEMMA PumpStaysInOrder ==
    ASSUME NEW q \in InputQueue, NEW n \in Nat, Waiting(q, n), q.sending # <<>>
    PROVE  /\ Pumped(q) \in InputQueue /\ Waiting(Pumped(q), n)
           /\ Base(Pumped(q), n) = Base(q, n) + 1
  <1> DEFINE b == Base(q, n)
             p == Pumped(q)
  <1>1. /\ q.sending \in Seq(Nat) /\ q.pending \in Seq(Nat)
        /\ Len(q.sending) \in Nat /\ Len(q.pending) \in Nat
    BY QueueParts
  <1>2. /\ b \in Nat
        /\ \A i \in 1 .. Len(q.sending) : q.sending[i] = b + i
        /\ \A i \in 1 .. Len(q.pending) : q.pending[i] = b + Len(q.sending) + i
    BY Zenon DEF Waiting
  <1>3. Len(q.sending) > 0
    BY <1>1
  <1>9. q.inflight
    BY Zenon DEF Waiting
  <1>5. b = n - Len(q.sending) - Len(q.pending)
    BY DEF Base
  <1> HIDE DEF b, p
  <1>6. CASE Len(q.sending) > 1
    <2>1. p = [q EXCEPT !.sending = Tail(@)]
      BY <1>6 DEF p, Pumped
    <2> DEFINE tail == Tail(q.sending)
    <2>2. /\ tail \in Seq(Nat) /\ Len(tail) = Len(q.sending) - 1
          /\ \A i \in 1 .. Len(tail) : tail[i] = q.sending[i + 1]
      BY <1>1
    <2> HIDE DEF tail
    <2>3. p.sending = tail /\ p.pending = q.pending /\ p.inflight = q.inflight
      BY <2>1 DEF InputQueue, tail
    <2>4. p \in InputQueue
      BY <2>1, <2>2 DEF InputQueue, tail
    <2>5. Base(p, n) = b + 1
      <3>1. \A k, m \in Nat : n - (k - 1) - m = n - k - m + 1
        OBVIOUS
      <3>2. Base(p, n) = n - (Len(q.sending) - 1) - Len(q.pending)
        BY <2>2, <2>3 DEF Base
      <3> QED BY <1>1, <1>5, <3>1, <3>2
    <2>6. tail # <<>>
      <3>1. Len(tail) > 0
        BY <1>1, <1>6, <2>2
      <3> QED BY <3>1, NoKeys
    <2>7. p.inflight <=> p.sending # <<>>
      BY <1>9, <2>3, <2>6
    <2>8. \A i \in 1 .. Len(tail) : tail[i] = b + 1 + i
      <3> TAKE i \in 1 .. Len(tail)
      <3>1. i + 1 \in 1 .. Len(q.sending)
        BY <1>1, <2>2
      <3>2. q.sending[i + 1] = b + (i + 1)
        BY <1>2, <3>1
      <3> QED BY <1>2, <2>2, <3>2
    <2>9. \A i \in 1 .. Len(q.pending) : q.pending[i] = b + 1 + Len(tail) + i
      <3> TAKE i \in 1 .. Len(q.pending)
      <3>1. \A k \in Nat : b + k + i = b + 1 + (k - 1) + i
        BY <1>2
      <3>2. b + Len(q.sending) + i = b + 1 + Len(tail) + i
        BY <1>1, <2>2, <3>1
      <3> QED BY <1>2, <3>2
    <2>10. Waiting(p, n)
      <3>1. b + 1 \in Nat
        BY <1>2
      <3> QED BY <2>3, <2>5, <2>7, <2>8, <2>9, <3>1, Zenon DEF Waiting
    <2> QED BY <2>4, <2>5, <2>10 DEF b, p
  <1>7. CASE Len(q.sending) = 1 /\ q.pending # <<>>
    <2>1. p = [q EXCEPT !.sending = q.pending, !.pending = <<>>]
      BY <1>7 DEF p, Pumped
    <2>2. p.sending = q.pending /\ p.pending = <<>> /\ p.inflight = q.inflight
      BY <2>1 DEF InputQueue
    <2>3. p \in InputQueue
      BY <1>1, <2>1, NoKeys DEF InputQueue
    <2>4. Base(p, n) = b + 1
      <3>1. \A k, m \in Nat : k = 1 => n - m - 0 = n - k - m + 1
        OBVIOUS
      <3>2. Base(p, n) = n - Len(q.pending) - 0
        BY <2>2, NoKeys DEF Base
      <3> QED BY <1>1, <1>5, <1>7, <3>1, <3>2
    <2>5. p.inflight <=> p.sending # <<>>
      BY <1>7, <1>9, <2>2
    <2>6. \A i \in 1 .. Len(q.pending) : q.pending[i] = b + 1 + i
      BY <1>2, <1>7
    <2>7. \A i \in 1 .. Len(p.pending) : p.pending[i] = b + 1 + Len(p.sending) + i
      BY <2>2, NoKeys
    <2>8. Waiting(p, n)
      <3>1. b + 1 \in Nat
        BY <1>2
      <3> QED BY <2>2, <2>4, <2>5, <2>6, <2>7, <3>1, Zenon DEF Waiting
    <2> QED BY <2>3, <2>4, <2>8 DEF b, p
  <1>8. CASE Len(q.sending) = 1 /\ q.pending = <<>>
    <2>1. p = Quiet
      BY <1>8 DEF p, Pumped
    <2>2. p.sending = <<>> /\ p.pending = <<>> /\ p.inflight = FALSE
      BY <2>1 DEF Quiet
    <2>3. Base(p, n) = b + 1
      BY <1>1, <1>5, <1>8, <2>2, NoKeys DEF Base
    <2>4. p.inflight <=> p.sending # <<>>
      BY <2>2
    <2>5. /\ \A i \in 1 .. Len(p.sending) : p.sending[i] = Base(p, n) + i
          /\ \A i \in 1 .. Len(p.pending) : p.pending[i] = Base(p, n) + Len(p.sending) + i
      BY <2>2, NoKeys
    <2>6. Waiting(p, n)
      <3>1. b + 1 \in Nat
        BY <1>2
      <3> QED BY <2>3, <2>4, <2>5, <3>1, Zenon DEF Waiting
    <2> QED BY <2>1, <2>3, <2>6, EmptyQueue DEF b, p
  <1> QED
    <2>1. Len(q.sending) > 1 \/ Len(q.sending) = 1
      <3>1. \A k \in Nat : k > 0 => k > 1 \/ k = 1
        OBVIOUS
      <3> QED BY <1>1, <1>3, <3>1, Zenon
    <2> QED BY <1>6, <1>7, <1>8, <2>1, Zenon DEF b, p

\* A key typed goes behind what waits; only what has left the queue stays the same.
LEMMA TypingStaysInOrder ==
    ASSUME NEW q \in InputQueue, NEW n \in Nat, Waiting(q, n)
    PROVE  /\ enqueueInput(q, n + 1) \in InputQueue /\ Waiting(enqueueInput(q, n + 1), n + 1)
           /\ Base(enqueueInput(q, n + 1), n + 1) = Base(q, n)
  <1> DEFINE b == Base(q, n)
             e == enqueueInput(q, n + 1)
             more == Append(q.pending, n + 1)
  <1>1. /\ q.sending \in Seq(Nat) /\ q.pending \in Seq(Nat)
        /\ Len(q.sending) \in Nat /\ Len(q.pending) \in Nat
    BY QueueParts
  <1>2. /\ b \in Nat
        /\ \A i \in 1 .. Len(q.sending) : q.sending[i] = b + i
        /\ \A i \in 1 .. Len(q.pending) : q.pending[i] = b + Len(q.sending) + i
    BY Zenon DEF Waiting
  <1>3. q.inflight <=> q.sending # <<>>
    BY Zenon DEF Waiting
  <1>4. b = n - Len(q.sending) - Len(q.pending)
    BY DEF Base
  <1>5. /\ more \in Seq(Nat) /\ Len(more) = Len(q.pending) + 1
        /\ more[Len(q.pending) + 1] = n + 1
        /\ \A i \in 1 .. Len(q.pending) : more[i] = q.pending[i]
    BY <1>1
  <1> HIDE DEF b
  <1>6. more # <<>>
    <2>1. Len(more) # 0
      <3> HIDE DEF more
      <3> QED BY <1>1, <1>5
    <2> QED BY <2>1, NoKeys, Zenon
  <1>7. e = IF q.inflight THEN [q EXCEPT !.pending = more]
            ELSE [inflight |-> TRUE, sending |-> more, pending |-> <<>>]
    BY DEF enqueueInput
  <1> HIDE DEF e, more
  <1>8. \A i \in 1 .. Len(more) : more[i] = b + Len(q.sending) + i
    <2> TAKE i \in 1 .. Len(more)
    <2>1. CASE i \in 1 .. Len(q.pending)
      BY <1>2, <1>5, <2>1
    <2>2. CASE i = Len(q.pending) + 1
      BY <1>1, <1>4, <1>5, <2>2
    <2> QED BY <1>1, <1>5, <2>1, <2>2
  <1>11. n + 1 - Len(q.sending) - Len(more) = b
    <2>1. \A k, m \in Nat : n + 1 - k - (m + 1) = n - k - m
      OBVIOUS
    <2> QED BY <1>1, <1>4, <1>5, <2>1
  <1>12. ASSUME q.sending = <<>>
         PROVE  /\ n + 1 - Len(more) - 0 = b
                /\ \A i \in 1 .. Len(more) : more[i] = b + i
    <2>1. Len(q.sending) = 0
      BY <1>12, NoKeys
    <2>2. \A i \in 1 .. Len(more) : b + 0 + i = b + i
      BY <1>2, <1>5
    <2> QED BY <1>1, <1>5, <1>8, <1>11, <2>1, <2>2
  <1>9. CASE q.inflight
    <2>1. e = [q EXCEPT !.pending = more]
      BY <1>7, <1>9, Zenon
    <2>2. e.sending = q.sending /\ e.pending = more
      BY <2>1 DEF InputQueue
    <2>5. e.inflight = q.inflight
      BY <2>1 DEF InputQueue
    <2>3. e \in InputQueue
      BY <1>5, <2>1 DEF InputQueue
    <2>4. Base(e, n + 1) = b
      <3>1. n + 1 - Len(e.sending) - Len(e.pending) = b
        BY <1>11, <2>2, Zenon
      <3>2. Base(e, n + 1) = n + 1 - Len(e.sending) - Len(e.pending)
        BY DEF Base
      <3> QED BY <3>1, <3>2, Zenon
    <2> QED BY <1>2, <1>3, <1>8, <2>2, <2>3, <2>4, <2>5, Zenon DEF Waiting, b, e
  <1>10. CASE ~q.inflight
    <2>1. e = [inflight |-> TRUE, sending |-> more, pending |-> <<>>]
      BY <1>7, <1>10, Zenon
    <2>2. e.sending = more /\ e.pending = <<>> /\ e.inflight = TRUE
      BY <2>1
    <2>3. e \in InputQueue
      BY <1>5, <2>1, NoKeys DEF InputQueue
    <2>4. q.sending = <<>>
      BY <1>3, <1>10, Zenon
    <2>5. Len(q.sending) = 0 /\ Len(e.pending) = 0
      BY <2>2, <2>4, NoKeys
    <2>6. Base(e, n + 1) = b
      BY <1>12, <2>2, <2>4, <2>5 DEF Base
    <2>7. \A i \in 1 .. Len(more) : more[i] = b + i
      BY <1>12, <2>4, Zenon
    <2>8. \A i \in 1 .. Len(e.pending) : e.pending[i] = Base(e, n + 1) + Len(e.sending) + i
      BY <2>5
    <2>9. e.inflight <=> e.sending # <<>>
      BY <1>6, <2>2
    <2> QED BY <1>2, <2>2, <2>3, <2>6, <2>7, <2>8, <2>9, Zenon DEF Waiting, b, e
  <1> QED
    BY <1>1, <1>9, <1>10

-----------------------------------------------------------------------------
(* The order of input, step by step.                                         *)

InputTypeOK == /\ received \in [Session -> Seq(Nat)]
               /\ queue \in [Session -> InputQueue]
               /\ typed \in [Session -> Nat]
InputIInv == InputTypeOK /\ QueuesAreInOrder /\ KeptInputArrives

LEMMA InputStays == ASSUME InputIInv, UNCHANGED <<received, input>> PROVE InputIInv'
  BY DEF InputIInv, InputTypeOK, QueuesAreInOrder, KeptInputArrives, input

LEMMA DroppingKeepsOrder ==
    ASSUME InputIInv, NEW s, Drops(s), UNCHANGED received
    PROVE  InputIInv'
  <1>1. InputTypeOK'
    <2>1. Quiet \in InputQueue
      BY EmptyQueue
    <2> QED BY <2>1 DEF InputIInv, InputTypeOK, Drops
  <1>2. \A t \in Session : queue'[t] = IF t = s THEN Quiet ELSE queue[t]
    BY DEF InputIInv, InputTypeOK, Drops
  <1>3. UNCHANGED <<received, typed>> /\ dropped' = dropped \cup {s}
    BY DEF Drops
  <1>4. QueuesAreInOrder'
    <2> SUFFICES ASSUME NEW t \in Session PROVE Waiting(queue'[t], typed[t])
      BY <1>3 DEF QueuesAreInOrder
    <2>1. typed[t] \in Nat
      BY DEF InputIInv, InputTypeOK
    <2> QED BY <1>2, <2>1, EmptyQueue DEF InputIInv, QueuesAreInOrder
  <1>5. KeptInputArrives'
    BY <1>2, <1>3 DEF InputIInv, KeptInputArrives
  <1> QED
    BY <1>1, <1>4, <1>5 DEF InputIInv

LEMMA PumpingKeepsOrder ==
    ASSUME InputIInv, NEW s \in Session, PumpInput(s)
    PROVE  InputIInv'
  <1> DEFINE got == received[s]
             q == queue[s]
             n == typed[s]
             more == Append(got, Head(q.sending))
  <1>1. q \in InputQueue /\ got \in Seq(Nat) /\ n \in Nat
    BY DEF InputIInv, InputTypeOK
  <1>2. UNCHANGED <<typed, dropped>>
    BY DEF PumpInput
  <1>3. \/ /\ received' = [received EXCEPT ![s] = more]
           /\ queue' = [queue EXCEPT ![s] = Pumped(q)]
        \/ /\ received' = [received EXCEPT ![s] = more]
           /\ queue' = [queue EXCEPT ![s] = UnsentFirst(q)]
        \/ /\ received' = received
           /\ queue' = [queue EXCEPT ![s] = UnsentFirst(q)]
    BY Zenon DEF PumpInput
  <1>4. Waiting(q, n) /\ q.sending # <<>>
    BY Zenon DEF InputIInv, QueuesAreInOrder, PumpInput, Waiting
  <1>5. s \notin dropped => Arrived(got, Base(q, n), n)
    BY DEF InputIInv, KeptInputArrives
  <1> HIDE DEF got, q, n
  <1>6. Base(q, n) \in Nat /\ Head(q.sending) = Base(q, n) + 1 /\ Base(q, n) + 1 <= n
    BY <1>1, <1>4, NextKey
  <1>7. more \in Seq(Nat)
    BY <1>1, <1>6
  <1>8. s \notin dropped => Arrived(more, Base(q, n), n) /\ Arrived(more, Base(q, n) + 1, n)
    BY <1>1, <1>5, <1>6, NextKeyArrives
  <1> HIDE DEF more
  <1>9. PICK u \in InputQueue, sent \in Seq(Nat) :
           /\ received' = [received EXCEPT ![s] = sent]
           /\ queue' = [queue EXCEPT ![s] = u]
           /\ Waiting(u, n) /\ (s \notin dropped => Arrived(sent, Base(u, n), n))
    <2>1. received = [received EXCEPT ![s] = got]
      BY DEF InputIInv, InputTypeOK, got
    <2>2. CASE /\ received' = [received EXCEPT ![s] = more]
               /\ queue' = [queue EXCEPT ![s] = Pumped(q)]
      BY <1>1, <1>4, <1>7, <1>8, <2>2, PumpStaysInOrder
    <2>3. CASE /\ received' = [received EXCEPT ![s] = more]
               /\ queue' = [queue EXCEPT ![s] = UnsentFirst(q)]
      BY <1>1, <1>4, <1>7, <1>8, <2>3, UnsentStaysInOrder
    <2>4. CASE /\ received' = received
               /\ queue' = [queue EXCEPT ![s] = UnsentFirst(q)]
      BY <1>1, <1>4, <1>5, <2>1, <2>4, UnsentStaysInOrder
    <2> QED BY <1>3, <2>2, <2>3, <2>4
  <1>10. InputTypeOK'
    BY <1>2, <1>9 DEF InputIInv, InputTypeOK
  <1>11. /\ \A t \in Session : queue'[t] = IF t = s THEN u ELSE queue[t]
         /\ \A t \in Session : received'[t] = IF t = s THEN sent ELSE received[t]
    BY <1>9 DEF InputIInv, InputTypeOK
  <1>12. QueuesAreInOrder'
    BY <1>2, <1>9, <1>11 DEF InputIInv, QueuesAreInOrder, n
  <1>13. KeptInputArrives'
    BY <1>2, <1>9, <1>11 DEF InputIInv, KeptInputArrives, n
  <1> QED
    BY <1>10, <1>12, <1>13 DEF InputIInv

LEMMA TypingKeepsOrder ==
    ASSUME InputIInv, handleTerminalData
    PROVE  InputIInv'
  <1> DEFINE front == Targets(active)
  <1>1. UNCHANGED <<received, dropped>>
    BY DEF handleTerminalData, service
  <1>2. \A s \in Session : typed'[s] = IF s \in front THEN typed[s] + 1 ELSE typed[s]
    BY DEF handleTerminalData
  <1>3. \A s \in Session :
           queue'[s] = IF s \in front THEN enqueueInput(queue[s], typed[s] + 1) ELSE queue[s]
    BY <1>2 DEF handleTerminalData
  <1> HIDE DEF front
  <1>4. ASSUME NEW s \in Session
        PROVE  /\ typed'[s] \in Nat /\ queue'[s] \in InputQueue /\ Waiting(queue'[s], typed'[s])
               /\ s \notin dropped => Arrived(received[s], Base(queue'[s], typed'[s]), typed'[s])
    <2>1. queue[s] \in InputQueue /\ typed[s] \in Nat /\ Waiting(queue[s], typed[s])
      BY DEF InputIInv, InputTypeOK, QueuesAreInOrder
    <2>2. s \notin dropped => Arrived(received[s], Base(queue[s], typed[s]), typed[s])
      BY DEF InputIInv, KeptInputArrives
    <2>3. CASE s \in front
      <3>1. Base(queue[s], typed[s]) \in Nat
        BY <2>1 DEF Waiting
      <3>2. s \notin dropped => Arrived(received[s], Base(queue[s], typed[s]), typed[s] + 1)
        BY <2>1, <2>2, <3>1, ArrivedGrows
      <3>3. typed[s] + 1 \in Nat
        BY <2>1
      <3> QED BY <1>2, <1>3, <2>1, <2>3, <3>2, <3>3, TypingStaysInOrder
    <2>4. CASE s \notin front
      BY <1>2, <1>3, <2>1, <2>2, <2>4
    <2> QED BY <2>3, <2>4
  <1>5. InputTypeOK'
    <2>1. typed' = [s \in Session |-> typed'[s]] /\ queue' = [s \in Session |-> queue'[s]]
      BY DEF handleTerminalData
    <2>2. typed' \in [Session -> Nat]
      BY <1>4, <2>1
    <2>3. queue' \in [Session -> InputQueue]
      BY <1>4, <2>1
    <2> QED BY <1>1, <2>2, <2>3 DEF InputIInv, InputTypeOK
  <1> QED
    BY <1>1, <1>4, <1>5 DEF InputIInv, QueuesAreInOrder, KeptInputArrives

\* What the invariant says of a queue is what InputArrivesInOrder says.
LEMMA OrderIsVisible == InputIInv => InputArrivesInOrder
  <1> SUFFICES ASSUME InputIInv, NEW s \in Session \ dropped
               PROVE  LET waiting == queue[s].sending \o queue[s].pending
                      IN /\ \A i \in DOMAIN received[s] :
                              received[s][i] = 1
                              \/ \E j \in 1..(i - 1) : received[s][j] = received[s][i] - 1
                         /\ waiting = [i \in 1..Len(waiting) |-> typed[s] - Len(waiting) + i]
                         /\ typed[s] - Len(waiting) <= Reached(s)
    BY DEF InputArrivesInOrder
  <1> DEFINE got == received[s]
             q == queue[s]
             n == typed[s]
             b == Base(q, n)
             waiting == q.sending \o q.pending
  <1>1. q \in InputQueue /\ got \in Seq(Nat) /\ n \in Nat /\ Waiting(q, n) /\ Arrived(got, b, n)
    BY DEF InputIInv, InputTypeOK, QueuesAreInOrder, KeptInputArrives
  <1>2. Reached(s) = CHOOSE m \in 0..n : /\ \A i \in DOMAIN got : got[i] <= m
                                         /\ m = 0 \/ \E i \in DOMAIN got : got[i] = m
    BY DEF Reached
  <1> HIDE DEF got, q, n, b
  <1>3. DOMAIN got = 1 .. Len(got) /\ Len(got) \in Nat /\ \A i \in 1 .. Len(got) : got[i] \in Nat
    BY <1>1
  <1>4. \A i \in DOMAIN got : got[i] = 1 \/ \E j \in 1..(i - 1) : got[j] = got[i] - 1
    BY <1>1, <1>3 DEF Arrived
  <1>5. /\ UnsentFirst(q) \in InputQueue /\ Waiting(UnsentFirst(q), n)
        /\ Base(UnsentFirst(q), n) = b
    BY <1>1, UnsentStaysInOrder DEF b
  <1>6. UnsentFirst(q).sending = <<>> /\ UnsentFirst(q).pending = waiting
    BY DEF UnsentFirst
  <1>7. waiting \in Seq(Nat)
    BY <1>5, <1>6, QueueParts
  <1> HIDE DEF waiting
  <1>8. b \in Nat /\ b = n - Len(waiting) /\ \A i \in 1 .. Len(waiting) : waiting[i] = b + i
    <2>1. b \in Nat /\ b = n - 0 - Len(waiting)
      BY <1>5, <1>6, NoKeys DEF Waiting, Base
    <2>2. \A i \in 1 .. Len(waiting) : waiting[i] = b + 0 + i
      BY <1>5, <1>6, NoKeys DEF Waiting
    <2> QED BY <1>1, <1>7, <2>1, <2>2
  <1>9. waiting = [i \in 1..Len(waiting) |-> n - Len(waiting) + i]
    <2>1. waiting = [i \in 1..Len(waiting) |-> waiting[i]]
      BY <1>7
    <2> QED BY <1>8, <2>1
  <1>10. b <= Reached(s)
    <2> DEFINE Fits(m) == /\ \A i \in DOMAIN got : got[i] <= m
                          /\ m = 0 \/ \E i \in DOMAIN got : got[i] = m
    <2>1. PICK last \in 0 .. n : /\ b <= last
                                 /\ last = 0 \/ \E i \in 1 .. Len(got) : got[i] = last
                                 /\ Fits(last)
      BY <1>1, <1>3 DEF Arrived
    <2>2. Reached(s) = CHOOSE m \in 0 .. n : Fits(m)
      BY <1>2
    <2> HIDE DEF Fits
    <2>3. Reached(s) \in 0 .. n /\ Fits(Reached(s))
      BY <2>1, <2>2
    <2>4. CASE last = 0
      BY <1>8, <2>1, <2>3, <2>4
    <2>5. CASE \E i \in 1 .. Len(got) : got[i] = last
      BY <1>3, <1>8, <2>1, <2>3, <2>5 DEF Fits
    <2> QED BY <2>1, <2>4, <2>5
  <1> QED
    BY <1>4, <1>8, <1>9, <1>10 DEF got, q, n, waiting

-----------------------------------------------------------------------------
(* The registry, and the sessions that a handler has asked for.              *)

RegistryTypeOK ==
    /\ state \in [Session -> {"new", "alive", "closed", "connection_lost", "exited"}]
    /\ calls \subseteq CallType

MovesOn == \A s \in Session : state[s] # "new" => state'[s] # "new"

LEMMA SessionsMoveOn ==
    ASSUME RegistryTypeOK, NEW s \in Session,
           \/ Creates(s)
           \/ Closes(s)
           \/ \E why \in {"connection_lost", "exited"} : state' = [state EXCEPT ![s] = why]
    PROVE  /\ state' \in [Session -> {"new", "alive", "closed", "connection_lost", "exited"}]
           /\ MovesOn
  BY DEF RegistryTypeOK, Creates, Closes, MovesOn

LEMMA StaysApart ==
    ASSUME RegistryTypeOK, NewSessionsAreApart, MovesOn, calls' \subseteq calls, ai' \subseteq ai
    PROVE  NewSessionsAreApart'
  BY DEF RegistryTypeOK, NewSessionsAreApart, MovesOn

\* A handler that creates a session takes one that no other call waits for.
LEMMA CreatingStaysApart ==
    ASSUME RegistryTypeOK, NewSessionsAreApart, UNCHANGED ai,
           NEW op \in {"create", "create ai", "reconnect"}, NEW old \in Session \cup {None},
           NEW s \in Session, Creates(s), Call(op, old, s)
    PROVE  RegistryTypeOK' /\ NewSessionsAreApart'
  <1> DEFINE call == [op |-> op, old |-> old, new |-> s]
  <1>1. call \in CallType /\ call.op # "close" /\ call.new = s
    BY DEF CallType
  <1>2. calls' = calls \cup {call}
    BY DEF Call
  <1>3. RegistryTypeOK' /\ MovesOn
    BY <1>1, <1>2, SessionsMoveOn DEF RegistryTypeOK
  <1>4. state[s] = "new" /\ state'[s] = "alive"
    BY DEF RegistryTypeOK, Creates
  <1>5. \A c \in calls : c.op # "close" => c.new # s
    BY <1>4 DEF NewSessionsAreApart
  <1>6. s \notin ai
    BY <1>4 DEF NewSessionsAreApart
  <1> HIDE DEF call
  <1>7. \A c \in calls' : c.op # "close" => c.new \in Session /\ state'[c.new] # "new" /\ c.new \notin ai'
    BY <1>1, <1>2, <1>3, <1>4, <1>6 DEF NewSessionsAreApart, MovesOn
  <1>8. \A c, d \in calls' : c.op # "close" /\ d.op # "close" /\ c.new = d.new => c = d
    BY <1>1, <1>2, <1>5 DEF NewSessionsAreApart
  <1>9. \A t \in ai' : t \in Session /\ state'[t] # "new"
    BY <1>3 DEF NewSessionsAreApart, MovesOn
  <1> QED
    BY <1>3, <1>7, <1>8, <1>9 DEF NewSessionsAreApart

-----------------------------------------------------------------------------
(* The cards and the ticks.                                                  *)

CardsIInv == cards \subseteq Session /\ FrontHasCard /\ TickedTerminalsHaveCards

LEMMA LaysPutsACardInFront ==
    ASSUME NEW shown, NEW hidden, NEW wanted, Lays(shown, hidden, wanted)
    PROVE  cards' = shown /\ FrontHasCard'
  BY DEF Lays, Settled, FrontHasCard

LEMMA RemovingKeepsTheCards ==
    ASSUME CardsIInv, NEW s, removeSessionLocally(s)
    PROVE  CardsIInv' /\ ai' \subseteq ai
  BY LaysPutsACardInFront DEF CardsIInv, removeSessionLocally, TickedTerminalsHaveCards

\* The answer of a handler: its session gets a card, and becomes an AI session or takes
\* over a tick only as nobody else's.
LEMMA AnswersKeepTheCards ==
    ASSUME CardsIInv, RegistryTypeOK, NewSessionsAreApart, NEW call \in calls,
           CreateAnswered(call) \/ ReconnectAnswered(call) \/ CloseAnswered(call)
    PROVE  CardsIInv' /\ ai' \subseteq ai \cup (IF call.op = "create ai" THEN {call.new} ELSE {})
  <1>1. CASE CreateAnswered(call)
    <2>1. call.op # "close" /\ call.new \in Session
      BY <1>1 DEF CreateAnswered, NewSessionsAreApart
    <2>2. cards' = cards \cup {call.new} /\ FrontHasCard'
      BY <1>1, LaysPutsACardInFront DEF CreateAnswered
    <2> QED BY <1>1, <2>1, <2>2 DEF CreateAnswered, CardsIInv, TickedTerminalsHaveCards
  <1>2. CASE ReconnectAnswered(call)
    <2>1. call.op = "reconnect" /\ call.new \in Session /\ call.new \notin ai
      BY <1>2 DEF ReconnectAnswered, NewSessionsAreApart
    <2>2. cards' = (cards \ {call.old}) \cup {call.new} /\ FrontHasCard'
      BY <1>2, LaysPutsACardInFront DEF ReconnectAnswered
    <2> QED BY <1>2, <2>1, <2>2 DEF ReconnectAnswered, CardsIInv, TickedTerminalsHaveCards
  <1>3. CASE CloseAnswered(call)
    BY <1>3, RemovingKeepsTheCards DEF CloseAnswered
  <1> QED
    BY <1>1, <1>2, <1>3

LEMMA AnsweredStaysApart ==
    ASSUME RegistryTypeOK, NewSessionsAreApart, NEW call \in calls, calls' = calls \ {call},
           UNCHANGED state,
           ai' \subseteq ai \cup (IF call.op = "create ai" THEN {call.new} ELSE {})
    PROVE  RegistryTypeOK' /\ NewSessionsAreApart'
  <1>1. RegistryTypeOK'
    BY DEF RegistryTypeOK
  <1>2. CASE call.op = "create ai"
    <2>1. call.new \in Session /\ state[call.new] # "new"
      BY <1>2 DEF NewSessionsAreApart
    <2>2. \A c \in calls' : c.op # "close" => c.new # call.new
      BY <1>2 DEF NewSessionsAreApart
    <2>3. \A t \in ai' : t \in ai \/ t = call.new
      BY <1>2
    <2> QED BY <1>1, <2>1, <2>2, <2>3 DEF NewSessionsAreApart
  <1>3. CASE call.op # "create ai"
    BY <1>1, <1>3 DEF NewSessionsAreApart
  <1> QED
    BY <1>2, <1>3

-----------------------------------------------------------------------------
(* The invariant, action by action.                                          *)

Parts == /\ InputIInv
         /\ RegistryTypeOK /\ NewSessionsAreApart
         /\ CardsIInv
         /\ fetched \subseteq SUBSET Session

LEMMA InvariantParts == TerminalIInv <=> Parts
  BY DEF TerminalIInv, Parts, TerminalTypeOK, InputIInv, InputTypeOK, RegistryTypeOK, CardsIInv

LEMMA CardsStay ==
    ASSUME CardsIInv, UNCHANGED <<layout, checked, ai>> PROVE CardsIInv'
  BY DEF CardsIInv, FrontHasCard, TickedTerminalsHaveCards, layout

LEMMA RegistryStays ==
    ASSUME RegistryTypeOK, NewSessionsAreApart, UNCHANGED <<state, calls>>, ai' \subseteq ai
    PROVE  RegistryTypeOK' /\ NewSessionsAreApart'
  BY StaysApart DEF RegistryTypeOK, MovesOn

LEMMA AliveIsSessions == Alive \in SUBSET Session
  BY DEF Alive

LEMMA TerminalStep ==
    ASSUME Parts, [TerminalNext]_terminalVars
    PROVE  Parts'
  <1> USE DEF Parts, service, layout, marks
  <1>1. CASE Elsewhere
    <2>1. RegistryTypeOK' /\ NewSessionsAreApart'
      <3>1. PICK s \in Session : \/ Creates(s)
                                 \/ Closes(s)
                                 \/ \E why \in {"connection_lost", "exited"} :
                                       state' = [state EXCEPT ![s] = why]
        BY <1>1 DEF Elsewhere
      <3>2. UNCHANGED <<calls, ai>>
        BY <1>1 DEF Elsewhere
      <3> QED BY <3>1, <3>2, SessionsMoveOn, StaysApart DEF RegistryTypeOK
    <2> QED BY <1>1, <2>1, InputStays, CardsStay DEF Elsewhere
  <1>2. CASE PanelExits
    BY <1>2, InputStays, RegistryStays DEF PanelExits, CardsIInv, FrontHasCard, TickedTerminalsHaveCards
  <1>3. CASE EventArrives
    <2> DEFINE s == Head(events).session
    <2>1. UNCHANGED <<state, received, calls>>
      BY <1>3 DEF EventArrives
    <2>2. \/ fetched' = fetched \cup {Alive} /\ UNCHANGED <<layout, marks, input>>
          \/ checked' \subseteq checked /\ UNCHANGED <<ai, layout, input, fetched>>
          \/ removeSessionLocally(s) /\ UNCHANGED fetched
      BY <1>3 DEF EventArrives
    <2> HIDE DEF s
    <2>3. CASE fetched' = fetched \cup {Alive} /\ UNCHANGED <<layout, marks, input>>
      BY <2>1, <2>3, InputStays, RegistryStays, CardsStay, AliveIsSessions
    <2>4. CASE checked' \subseteq checked /\ UNCHANGED <<ai, layout, input, fetched>>
      <3>1. CardsIInv'
        BY <2>4 DEF CardsIInv, FrontHasCard, TickedTerminalsHaveCards
      <3> QED BY <2>1, <2>4, <3>1, InputStays, RegistryStays
    <2>5. CASE removeSessionLocally(s) /\ UNCHANGED fetched
      <3>1. InputIInv'
        BY <2>1, <2>5, DroppingKeepsOrder DEF removeSessionLocally
      <3> QED BY <2>1, <2>5, <3>1, RegistryStays, RemovingKeepsTheCards
    <2> QED BY <2>2, <2>3, <2>4, <2>5
  <1>4. CASE EventLost
    BY <1>4, InputStays, RegistryStays, CardsStay DEF EventLost
  <1>5. CASE mergeSessions
    <2>1. PICK answer \in fetched :
             /\ fetched' = fetched \ {answer}
             /\ Lays(cards \cup answer, minimized, active)
             /\ UNCHANGED <<service, marks, input, calls>>
      BY <1>5 DEF mergeSessions
    <2>2. cards' = cards \cup answer /\ FrontHasCard'
      BY <2>1, LaysPutsACardInFront
    <2>3. CardsIInv'
      BY <2>1, <2>2 DEF CardsIInv, TickedTerminalsHaveCards
    <2> QED BY <2>1, <2>3, InputStays, RegistryStays
  <1>6. ASSUME NEW s \in Session, PumpInput(s)
        PROVE  Parts'
    <2>1. UNCHANGED <<state, layout, marks, fetched, calls>>
      BY <1>6 DEF PumpInput
    <2> QED BY <1>6, <2>1, PumpingKeepsOrder, RegistryStays, CardsStay
  <1>7. CASE handleTerminalData
    <2>1. UNCHANGED <<state, layout, marks, fetched, calls>>
      BY <1>7 DEF handleTerminalData
    <2> QED BY <1>7, <2>1, TypingKeepsOrder, RegistryStays, CardsStay
  <1>8. ASSUME NEW op \in {"create", "create ai"}, handleCreate(op)
        PROVE  Parts'
    <2>1. UNCHANGED <<received, layout, marks, input, fetched>>
      BY <1>8 DEF handleCreate, Page
    <2>2. RegistryTypeOK' /\ NewSessionsAreApart'
      <3>1. PICK s \in Session : Creates(s) /\ Call(op, None, s)
        BY <1>8 DEF handleCreate
      <3>2. op \in {"create", "create ai", "reconnect"} /\ None \in Session \cup {None}
        OBVIOUS
      <3> HIDE DEF marks
      <3>3. UNCHANGED ai
        BY <2>1 DEF marks
      <3> QED BY <3>1, <3>2, <3>3, CreatingStaysApart
    <2> QED BY <2>1, <2>2, InputStays, CardsStay
  <1>9. CASE handleReconnect
    <2>1. UNCHANGED <<received, layout, marks, input, fetched>>
      BY <1>9 DEF handleReconnect, Page
    <2>2. active \in Session \cup {None}
      BY DEF CardsIInv, FrontHasCard
    <2>3. RegistryTypeOK' /\ NewSessionsAreApart'
      BY <1>9, <2>1, <2>2, CreatingStaysApart DEF handleReconnect
    <2> QED BY <2>1, <2>3, InputStays, CardsStay
  <1>10. CASE handleClose
    <2>1. active \in Session
      BY <1>10 DEF CardsIInv, FrontHasCard, handleClose
    <2>2. CASE active \in lost
      <3>1. UNCHANGED <<service, calls, fetched>> /\ removeSessionLocally(active)
        BY <1>10, <2>2 DEF handleClose
      <3>2. InputIInv'
        BY <3>1, DroppingKeepsOrder DEF removeSessionLocally
      <3> QED BY <3>1, <3>2, RegistryStays, RemovingKeepsTheCards
    <2>3. CASE active \notin lost
      <3>1. /\ Closes(active) \/ UNCHANGED state
            /\ Call("close", active, None)
            /\ UNCHANGED <<received, layout, marks, input, fetched>>
        BY <1>10, <2>3 DEF handleClose
      <3>2. RegistryTypeOK' /\ MovesOn
        <4>1. [op |-> "close", old |-> active, new |-> None] \in CallType
          BY <2>1 DEF CallType
        <4>2. calls' \subseteq CallType
          BY <3>1, <4>1 DEF RegistryTypeOK, Call
        <4> QED BY <2>1, <3>1, <4>2, SessionsMoveOn DEF RegistryTypeOK, MovesOn
      <3>3. \A c \in calls' : c.op # "close" => c \in calls
        BY <3>1 DEF Call
      <3>4. NewSessionsAreApart'
        BY <3>1, <3>2, <3>3 DEF NewSessionsAreApart, MovesOn
      <3> QED BY <3>1, <3>2, <3>4, InputStays, CardsStay
    <2> QED BY <2>2, <2>3
  <1>11. CASE Answered
    <2>1. PICK call \in calls :
             /\ calls' = calls \ {call}
             /\ UNCHANGED <<service, fetched>>
             /\ CreateAnswered(call) \/ ReconnectAnswered(call) \/ CloseAnswered(call)
      BY <1>11 DEF Answered
    <2>2. CardsIInv' /\ ai' \subseteq ai \cup (IF call.op = "create ai" THEN {call.new} ELSE {})
      BY <2>1, AnswersKeepTheCards
    <2>3. RegistryTypeOK' /\ NewSessionsAreApart'
      BY <2>1, <2>2, AnsweredStaysApart
    <2>4. InputIInv'
      <3>1. UNCHANGED input \/ Drops(call.old)
        BY <2>1 DEF CreateAnswered, ReconnectAnswered, CloseAnswered, removeSessionLocally
      <3> QED BY <2>1, <3>1, InputStays, DroppingKeepsOrder
    <2> QED BY <2>1, <2>2, <2>3, <2>4
  <1>12. CASE Controls
    <2>1. UNCHANGED <<received, state, ai, input, fetched, calls>>
      BY <1>12 DEF Controls, toggleChecked, Arranges
    <2>2. CardsIInv'
      <3>1. CASE toggleChecked
        BY <3>1 DEF toggleChecked, CardsIInv, FrontHasCard, TickedTerminalsHaveCards
      <3>2. CASE Arranges
        <4>1. PICK hidden, wanted : Lays(cards, hidden, wanted)
          BY <3>2 DEF Arranges
        <4>2. cards' = cards /\ FrontHasCard'
          BY <4>1, LaysPutsACardInFront
        <4> QED BY <3>2, <4>2 DEF Arranges, CardsIInv, TickedTerminalsHaveCards
      <3>3. CASE UNCHANGED <<layout, marks>>
        BY <3>3, CardsStay
      <3> QED BY <1>12, <3>1, <3>2, <3>3 DEF Controls
    <2> QED BY <2>1, <2>2, InputStays, RegistryStays
  <1>13. CASE UNCHANGED terminalVars
    BY <1>13, InputStays, RegistryStays, CardsStay DEF terminalVars
  <1> QED
    BY <1>1, <1>2, <1>3, <1>4, <1>5, <1>6, <1>7, <1>8, <1>9, <1>10, <1>11, <1>12, <1>13
       DEF TerminalNext

LEMMA TerminalStart == TerminalInit => Parts
  <1> SUFFICES ASSUME TerminalInit PROVE Parts
    OBVIOUS
  <1>1. /\ received = [s \in Session |-> <<>>] /\ queue = [s \in Session |-> Quiet]
        /\ typed = [s \in Session |-> 0]
    BY DEF TerminalInit
  <1>2. InputIInv
    <2>1. Quiet \in InputQueue /\ Waiting(Quiet, 0) /\ Base(Quiet, 0) = 0
      BY EmptyQueue
    <2>2. Arrived(<<>>, 0, 0)
      BY NothingArrived
    <2>3. InputTypeOK
      BY <1>1, <2>1, NoKeys DEF InputTypeOK
    <2> QED BY <1>1, <2>1, <2>2, <2>3 DEF InputIInv, QueuesAreInOrder, KeptInputArrives
  <1>3. RegistryTypeOK /\ NewSessionsAreApart
    BY DEF TerminalInit, RegistryTypeOK, NewSessionsAreApart
  <1>4. CardsIInv /\ fetched \subseteq SUBSET Session
    BY DEF TerminalInit, CardsIInv, FrontHasCard, TickedTerminalsHaveCards
  <1> QED
    BY <1>2, <1>3, <1>4 DEF Parts

\* The invariant holds whatever the sessions, the page's requests and their failures do.
THEOREM TerminalInvariance == TerminalSpec => []TerminalIInv
  <1>1. TerminalInit => Parts
    BY TerminalStart
  <1>2. Parts /\ [TerminalNext]_terminalVars => Parts'
    BY TerminalStep
  <1>3. TerminalIInv <=> Parts
    BY InvariantParts
  <1> QED
    BY <1>1, <1>2, <1>3, PTL DEF TerminalSpec

\* While a session has its card, its input reaches it in the order it was typed and
\* without a gap, whatever requests fail or are answered without an answer that arrives.
THEOREM InputIsInOrder == TerminalSpec => []InputArrivesInOrder
  <1>1. TerminalIInv => InputArrivesInOrder
    BY InvariantParts, OrderIsVisible DEF Parts
  <1> QED
    BY <1>1, TerminalInvariance, PTL

\* A tick is never left on a session without a card, nor on an AI session, so that
\* broadcast input only goes where the page shows it goes.
THEOREM TicksHaveCards == TerminalSpec => []TickedTerminalsHaveCards
  <1>1. TerminalIInv => TickedTerminalsHaveCards
    BY DEF TerminalIInv
  <1> QED
    BY <1>1, TerminalInvariance, PTL
==============================================================================
