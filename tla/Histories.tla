----------------------------- MODULE Histories -----------------------------
(***************************************************************************)
(* A queue of events between a party that changes and a reader that has to *)
(* find out: which states the party has gone through since what the reader *)
(* knows.  Used for the daemon's event socket and for the dongle's frames. *)
(* A history is a function of the positions in the queue, so that these    *)
(* facts need no induction over the queue.                                 *)
(***************************************************************************)
EXTENDS Integers, Sequences, TLAPS

\* The party is in h[i] once it has sent the first i events of the queue q and
\* in now after all of them.  An event about it is a step from one state to
\* the next, <<state, event, state>> in Steps; others leave it alone, so that
\* it is in its last state when there is no event about it to come.  The
\* history begins at k: at the start of the queue, or at an event that tells
\* the state whatever was before, <<event, state>> in Marks.
History(h, k, q, now, About, Steps, Marks) ==
  /\ k \in 0 .. Len(q)
  /\ h[Len(q)] = now
  /\ \A i \in k + 1 .. Len(q) :
       IF q[i] \in About THEN <<h[i - 1], q[i], h[i]>> \in Steps ELSE h[i] = h[i - 1]
  /\ \A i \in k .. Len(q) : (\A j \in i + 1 .. Len(q) : q[j] \notin About) => h[i] = now
  /\ k > 0 => q[k] \in About /\ <<q[k], h[k]>> \in Marks

\* Nothing was sent yet.
LEMMA HistoryBegins ==
  ASSUME NEW now, NEW About, NEW Steps, NEW Marks
  PROVE  \E h : History(h, 0, <<>>, now, About, Steps, Marks) /\ h[0] = now
<1> DEFINE h == [i \in {0} |-> now]
<1>1. History(h, 0, <<>>, now, About, Steps, Marks)
  BY DEF History
<1>2. h[0] = now
  OBVIOUS
<1> QED BY <1>1, <1>2

\* The history goes on with an event that is added to the queue.
LEMMA HistoryGrows ==
  ASSUME NEW E, NEW q \in Seq(E), NEW e \in E, NEW h, NEW k, NEW now, NEW next,
         NEW About, NEW Steps, NEW Marks,
         History(h, k, q, now, About, Steps, Marks),
         IF e \in About THEN <<now, e, next>> \in Steps ELSE next = now
  PROVE  \E g : History(g, k, Append(q, e), next, About, Steps, Marks) /\ (k = 0 => g[0] = h[0])
<1> DEFINE n == Len(q)
           p == Append(q, e)
           g == [i \in 0 .. n + 1 |-> IF i <= n THEN h[i] ELSE next]
<1>1. /\ n \in Nat /\ Len(p) = n + 1 /\ p[n + 1] = e
      /\ \A i \in 1 .. n : p[i] = q[i]
  OBVIOUS
<1>2. /\ k \in 0 .. n /\ h[n] = now
      /\ \A i \in k + 1 .. n : IF q[i] \in About THEN <<h[i - 1], q[i], h[i]>> \in Steps ELSE h[i] = h[i - 1]
      /\ \A i \in k .. n : (\A j \in i + 1 .. n : q[j] \notin About) => h[i] = now
      /\ k > 0 => q[k] \in About /\ <<q[k], h[k]>> \in Marks
  BY DEF History
<1>3. g[n + 1] = next /\ \A i \in 0 .. n : g[i] = h[i]
  BY <1>1
<1> HIDE DEF n, p, g
<1>4. ASSUME NEW i \in k + 1 .. n + 1
      PROVE  IF p[i] \in About THEN <<g[i - 1], p[i], g[i]>> \in Steps ELSE g[i] = g[i - 1]
  <2>1. CASE i = n + 1
    <3>1. g[i - 1] = now /\ g[i] = next /\ p[i] = e
      BY <1>1, <1>2, <1>3, <2>1
    <3> QED BY <3>1
  <2>2. CASE i # n + 1
    <3>1. i \in k + 1 .. n /\ g[i - 1] = h[i - 1] /\ g[i] = h[i] /\ p[i] = q[i]
      BY <1>1, <1>2, <1>3, <2>2
    <3> QED BY <1>2, <3>1
  <2> QED BY <2>1, <2>2
<1>5. ASSUME NEW i \in k .. n + 1, \A j \in i + 1 .. n + 1 : p[j] \notin About
      PROVE  g[i] = next
  <2>1. CASE i = n + 1
    BY <1>3, <2>1
  <2>2. CASE i # n + 1
    <3>1. i \in k .. n /\ i \in 0 .. n /\ n + 1 \in i + 1 .. n + 1
      BY <1>1, <1>2, <2>2
    <3>2. e \notin About /\ next = now
      BY <1>1, <1>5, <3>1
    <3>3. \A j \in i + 1 .. n : q[j] \notin About
      BY <1>1, <1>2, <1>5
    <3>4. h[i] = now
      BY <1>2, <3>1, <3>3
    <3> QED BY <1>3, <3>1, <3>2, <3>4
  <2> QED BY <2>1, <2>2
<1>6. ASSUME k > 0 PROVE p[k] \in About /\ <<p[k], g[k]>> \in Marks
  <2>1. k \in 1 .. n /\ k \in 0 .. n
    BY <1>1, <1>2, <1>6
  <2>2. p[k] = q[k] /\ g[k] = h[k]
    BY <1>1, <1>3, <2>1
  <2> QED BY <1>2, <1>6, <2>2
<1>7. k \in 0 .. Len(p) /\ g[Len(p)] = next
  BY <1>1, <1>2, <1>3
<1>8. History(g, k, p, next, About, Steps, Marks)
  BY <1>1, <1>4, <1>5, <1>6, <1>7 DEF History
<1>9. k = 0 => g[0] = h[0]
  BY <1>1, <1>3
<1> QED BY <1>8, <1>9 DEF p

\* A history begins with an event that tells the state, whatever is unknown
\* of those before.
LEMMA HistoryRestarts ==
  ASSUME NEW E, NEW q \in Seq(E), NEW e \in E, NEW now, NEW About, NEW Steps, NEW Marks,
         e \in About, <<e, now>> \in Marks
  PROVE  \E g : History(g, Len(q) + 1, Append(q, e), now, About, Steps, Marks)
<1> DEFINE n == Len(q)
           p == Append(q, e)
           g == [i \in {n + 1} |-> now]
<1>1. n \in Nat /\ Len(p) = n + 1 /\ p[n + 1] = e /\ g[n + 1] = now
  OBVIOUS
<1> HIDE DEF n, p, g
<1>2. \A i \in n + 1 .. n + 1 : g[i] = now
  BY <1>1
<1>3. History(g, n + 1, p, now, About, Steps, Marks)
  BY <1>1, <1>2 DEF History
<1> QED BY <1>3 DEF n, p

\* The history may as well begin at a later event that tells the state.
LEMMA HistoryCut ==
  ASSUME NEW h, NEW k, NEW q, NEW now, NEW About, NEW Steps, NEW Marks,
         History(h, k, q, now, About, Steps, Marks), Len(q) \in Nat,
         NEW j \in k + 1 .. Len(q), q[j] \in About, <<q[j], h[j]>> \in Marks
  PROVE  History(h, j, q, now, About, Steps, Marks)
BY DEF History

\* The reader takes the event at the head: what was the state after it is now
\* the first of the history, unless that begins later anyway.
LEMMA HistoryShrinks ==
  ASSUME NEW E, NEW q \in Seq(E), q # <<>>, NEW h, NEW k, NEW now,
         NEW About, NEW Steps, NEW Marks,
         History(h, k, q, now, About, Steps, Marks)
  PROVE  \E g, m : /\ History(g, m, Tail(q), now, About, Steps, Marks)
                   /\ m = 0 => /\ k <= 1 /\ g[0] = h[1]
                               /\ k = 0 => IF q[1] \in About THEN <<h[0], q[1], h[1]>> \in Steps
                                                             ELSE h[1] = h[0]
                               /\ k = 1 => q[1] \in About /\ <<q[1], h[1]>> \in Marks
<1> DEFINE n == Len(q)
           p == Tail(q)
           m == IF k = 0 THEN 0 ELSE k - 1
           g == [i \in 0 .. n - 1 |-> h[i + 1]]
<1>1. /\ n \in Nat /\ n >= 1 /\ Len(p) = n - 1
      /\ \A i \in 1 .. n - 1 : p[i] = q[i + 1]
  OBVIOUS
<1>2. /\ k \in 0 .. n /\ h[n] = now
      /\ \A i \in k + 1 .. n : IF q[i] \in About THEN <<h[i - 1], q[i], h[i]>> \in Steps ELSE h[i] = h[i - 1]
      /\ \A i \in k .. n : (\A j \in i + 1 .. n : q[j] \notin About) => h[i] = now
      /\ k > 0 => q[k] \in About /\ <<q[k], h[k]>> \in Marks
  BY DEF History
<1>3. \A i \in 0 .. n - 1 : g[i] = h[i + 1]
  BY <1>1
<1>4. m \in 0 .. n - 1 /\ m + 1 >= k
  BY <1>1, <1>2
<1>5. m = 0 => k <= 1
  BY <1>2
<1>6. m > 0 => m = k - 1
  OBVIOUS
<1> HIDE DEF n, p, m, g
<1>7. ASSUME NEW i \in m + 1 .. n - 1
      PROVE  IF p[i] \in About THEN <<g[i - 1], p[i], g[i]>> \in Steps ELSE g[i] = g[i - 1]
  <2>1. /\ i + 1 \in k + 1 .. n /\ (i + 1) - 1 = i /\ (i - 1) + 1 = i
        /\ i \in 0 .. n - 1 /\ i - 1 \in 0 .. n - 1 /\ i \in 1 .. n - 1
    BY <1>1, <1>2, <1>4
  <2>2. g[i] = h[i + 1] /\ g[i - 1] = h[i] /\ p[i] = q[i + 1]
    BY <1>1, <1>3, <2>1
  <2>3. IF q[i + 1] \in About THEN <<h[i], q[i + 1], h[i + 1]>> \in Steps ELSE h[i + 1] = h[i]
    BY <1>2, <2>1
  <2> QED BY <2>2, <2>3
<1>8. ASSUME NEW i \in m .. n - 1, \A j \in i + 1 .. n - 1 : p[j] \notin About
      PROVE  g[i] = now
  <2>1. i + 1 \in k .. n /\ i \in 0 .. n - 1
    BY <1>1, <1>2, <1>4
  <2>2. ASSUME NEW j \in i + 2 .. n PROVE q[j] \notin About
    <3>1. j - 1 \in i + 1 .. n - 1 /\ j - 1 \in 1 .. n - 1 /\ (j - 1) + 1 = j
      BY <1>1, <2>1
    <3>2. p[j - 1] = q[j]
      BY <1>1, <3>1
    <3> QED BY <1>8, <3>1, <3>2
  <2>3. h[i + 1] = now
    BY <1>2, <2>1, <2>2
  <2> QED BY <1>3, <2>1, <2>3
<1>9. ASSUME m > 0 PROVE p[m] \in About /\ <<p[m], g[m]>> \in Marks
  <2>1. k > 0 /\ m + 1 = k /\ m \in 1 .. n - 1 /\ m \in 0 .. n - 1
    BY <1>1, <1>2, <1>4, <1>6, <1>9
  <2>2. p[m] = q[k] /\ g[m] = h[k]
    BY <1>1, <1>3, <2>1
  <2> QED BY <1>2, <2>1, <2>2
<1>10. m \in 0 .. Len(p) /\ g[Len(p)] = now
  BY <1>1, <1>2, <1>3, <1>4
<1>11. History(g, m, p, now, About, Steps, Marks)
  BY <1>1, <1>7, <1>8, <1>9, <1>10, SMTT(60) DEF History
<1>12. m = 0 => /\ k <= 1 /\ g[0] = h[1]
                /\ k = 0 => IF q[1] \in About THEN <<h[0], q[1], h[1]>> \in Steps ELSE h[1] = h[0]
                /\ k = 1 => q[1] \in About /\ <<q[1], h[1]>> \in Marks
  <2>1. 0 \in 0 .. n - 1 /\ 0 + 1 = 1 /\ 1 - 1 = 0
    BY <1>1
  <2>2. k = 0 => 1 \in k + 1 .. n
    BY <1>1
  <2> QED BY <1>2, <1>3, <1>5, <2>1, <2>2
<1> QED BY <1>11, <1>12 DEF p

\* With nothing about it on the way, the party is where the history begins,
\* and that is at the start of the queue.
LEMMA HistoryEnds ==
  ASSUME NEW h, NEW k, NEW q, NEW now, NEW About, NEW Steps, NEW Marks,
         History(h, k, q, now, About, Steps, Marks), Len(q) \in Nat,
         \A i \in 1 .. Len(q) : q[i] \notin About
  PROVE  k = 0 /\ h[0] = now
<1>1. k = 0
  BY DEF History
<1>2. \A i \in k .. Len(q) : (\A j \in i + 1 .. Len(q) : q[j] \notin About) => h[i] = now
  BY Zenon DEF History
<1> QED BY <1>1, <1>2
-----------------------------------------------------------------------------
(* A reader that follows the party                                         *)

\* What the reader knows, one of the states in Known, and the events on their
\* way lead to the state the party is in now.
Follows(q, now, Known, About, Steps, Marks) ==
  \E h, k : History(h, k, q, now, About, Steps, Marks) /\ (k = 0 => h[0] \in Known)

\* Nothing is on its way, and the reader is right.
LEMMA FollowsFromStart ==
  ASSUME NEW Known, NEW now \in Known, NEW About, NEW Steps, NEW Marks
  PROVE  Follows(<<>>, now, Known, About, Steps, Marks)
BY HistoryBegins, ZenonT(60) DEF Follows

\* An event is sent, about the party's change or about others.
LEMMA FollowsSent ==
  ASSUME NEW E, NEW q \in Seq(E), NEW e \in E, NEW now, NEW next, NEW Known,
         NEW About, NEW Steps, NEW Marks,
         Follows(q, now, Known, About, Steps, Marks),
         IF e \in About THEN <<now, e, next>> \in Steps ELSE next = now
  PROVE  Follows(Append(q, e), next, Known, About, Steps, Marks)
<1>1. PICK h, k : History(h, k, q, now, About, Steps, Marks) /\ (k = 0 => h[0] \in Known)
  BY DEF Follows
<1>2. PICK g : History(g, k, Append(q, e), next, About, Steps, Marks) /\ (k = 0 => g[0] = h[0])
  BY <1>1, HistoryGrows
<1> QED BY <1>1, <1>2 DEF Follows

\* An event is sent that tells the state, whatever was lost before.
LEMMA FollowsAgain ==
  ASSUME NEW E, NEW q \in Seq(E), NEW e \in E, NEW now, NEW Known,
         NEW About, NEW Steps, NEW Marks, e \in About, <<e, now>> \in Marks
  PROVE  Follows(Append(q, e), now, Known, About, Steps, Marks)
<1>1. PICK g : History(g, Len(q) + 1, Append(q, e), now, About, Steps, Marks)
  BY HistoryRestarts, Zenon
<1>2. Len(q) + 1 # 0
  OBVIOUS
<1> QED BY <1>1, <1>2 DEF Follows

\* The reader takes the event at the head for what it is.
LEMMA FollowsTaken ==
  ASSUME NEW E, NEW q \in Seq(E), q # <<>>, NEW now, NEW Known, NEW Learnt,
         NEW About, NEW Steps, NEW Marks,
         Follows(q, now, Known, About, Steps, Marks),
         \A r, n : r \in Known /\ (IF q[1] \in About THEN <<r, q[1], n>> \in Steps ELSE n = r)
                     => n \in Learnt,
         \A n : q[1] \in About /\ <<q[1], n>> \in Marks => n \in Learnt
  PROVE  Follows(Tail(q), now, Learnt, About, Steps, Marks)
<1>1. PICK h, k : History(h, k, q, now, About, Steps, Marks) /\ (k = 0 => h[0] \in Known)
  BY DEF Follows
<1>2. PICK g, m : /\ History(g, m, Tail(q), now, About, Steps, Marks)
                  /\ m = 0 => /\ k <= 1 /\ g[0] = h[1]
                              /\ k = 0 => IF q[1] \in About THEN <<h[0], q[1], h[1]>> \in Steps
                                                            ELSE h[1] = h[0]
                              /\ k = 1 => q[1] \in About /\ <<q[1], h[1]>> \in Marks
  BY <1>1, HistoryShrinks
<1>3. k \in 0 .. Len(q) /\ Len(q) \in Nat
  BY <1>1 DEF History
<1>4. m = 0 => k = 0 \/ k = 1
  BY <1>2, <1>3
<1>5. m = 0 => g[0] \in Learnt
  BY <1>1, <1>2, <1>4
<1> QED BY <1>2, <1>5 DEF Follows

\* The reader makes nothing of the event at the head, or something wrong, but
\* one behind it tells the state.
LEMMA FollowsLater ==
  ASSUME NEW E, NEW q \in Seq(E), NEW now, NEW Known, NEW Learnt,
         NEW About, NEW Steps, NEW Marks,
         Follows(q, now, Known, About, Steps, Marks),
         NEW j \in 2 .. Len(q), q[j] \in About,
         \A r, n : <<r, q[j], n>> \in Steps => <<q[j], n>> \in Marks
  PROVE  Follows(Tail(q), now, Learnt, About, Steps, Marks)
<1>1. PICK h, k : History(h, k, q, now, About, Steps, Marks) /\ (k = 0 => h[0] \in Known)
  BY DEF Follows
<1>2. k \in 0 .. Len(q) /\ Len(q) \in Nat /\ q # <<>>
  BY <1>1 DEF History
<1>3. \E i : i >= 2 /\ History(h, i, q, now, About, Steps, Marks)
  <2>1. CASE k >= j
    BY <1>1, <1>2, <2>1
  <2>2. CASE k < j
    <3>1. j \in k + 1 .. Len(q)
      BY <1>2, <2>2
    <3>2. <<h[j - 1], q[j], h[j]>> \in Steps
      BY <1>1, <3>1 DEF History
    <3>3. <<q[j], h[j]>> \in Marks
      BY <3>2
    <3>4. History(h, j, q, now, About, Steps, Marks)
      BY <1>1, <1>2, <3>1, <3>3, HistoryCut
    <3> QED BY <3>4
  <2> QED BY <1>2, <2>1, <2>2
<1>4. PICK i : i >= 2 /\ History(h, i, q, now, About, Steps, Marks)
  BY <1>3
<1>5. PICK g, m : History(g, m, Tail(q), now, About, Steps, Marks) /\ (m = 0 => i <= 1)
  <2>1. \E g, m : /\ History(g, m, Tail(q), now, About, Steps, Marks)
                  /\ m = 0 => /\ i <= 1 /\ g[0] = h[1]
                              /\ i = 0 => IF q[1] \in About THEN <<h[0], q[1], h[1]>> \in Steps
                                                            ELSE h[1] = h[0]
                              /\ i = 1 => q[1] \in About /\ <<q[1], h[1]>> \in Marks
    BY <1>2, <1>4, HistoryShrinks
  <2> QED BY <2>1
<1>6. i \in Nat
  BY <1>2, <1>4 DEF History
<1>7. m # 0
  BY <1>4, <1>5, <1>6
<1> QED BY <1>5, <1>7 DEF Follows

\* With nothing about it on the way, the reader knows the party's state.
LEMMA FollowsToEnd ==
  ASSUME NEW E, NEW q \in Seq(E), NEW now, NEW Known, NEW About, NEW Steps, NEW Marks,
         Follows(q, now, Known, About, Steps, Marks), \A i \in 1 .. Len(q) : q[i] \notin About
  PROVE  now \in Known
<1>1. PICK h, k : History(h, k, q, now, About, Steps, Marks) /\ (k = 0 => h[0] \in Known)
  BY DEF Follows
<1>2. k = 0 /\ h[0] = now
  BY <1>1, HistoryEnds
<1> QED BY <1>1, <1>2
=============================================================================
