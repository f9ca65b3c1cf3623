--------------------------- MODULE BenchRun_proofs ---------------------------
(***************************************************************************)
(* Machine-checked proofs about BenchRun, for any number of publishers,    *)
(* subscribers and messages.  The sums the properties are about (messages  *)
(* over the publishers, deliveries over the subscribers) are cardinalities *)
(* of sets that a step grows by one element: no induction over the tasks   *)
(* is needed.                                                              *)
(***************************************************************************)
EXTENDS BenchRun, FiniteSetTheorems, TLAPS

Active == {"connecting", "sending", "acquiring", "writing", "settling"}
Before == {"settle", "publishing", "drain"}

\* Where the tasks may be while bench::run is where it is, and what the stop signal says.
Tasks ==
    /\ main \in Before /\ stop => timer = "fired"
    /\ main = "settle" <=> timer = "unset"
    /\ timer = "armed" => main \in {"publishing", "drain"}
    /\ \A p \in Publishers :
         /\ main = "settle" <=> pub[p] = "unspawned"
         /\ pub[p] \in Active => main = "publishing"
         /\ pub[p] # "lost"
         /\ main = "settle" => unread[p] = 0
         /\ detached[p] => pub[p] = "err"
         /\ pub[p] \in {"settling", "ok"} => sent[p] = QuotaFor(p) \/ timer = "fired"
    /\ \A s \in Subscribers :
         /\ sub[s] \in {"ok", "lost"} => stop
         /\ sub[s] = "reading" => s \in subscribed
         /\ main = "reported" => sub[s] \in Ended

\* quota_for deals the messages out in rounds: the k-th of publisher p is number
\* k * NumPublishers + p of the run.
Number(p, k) == k * NumPublishers + p
Numbers == {n \in 0..(Count - 1) :
              \E p \in Publishers : \E k \in 0..(sent[p] - 1) : n = Number(p, k)}
Quotas ==
    /\ \A p \in Publishers : /\ sent[p] <= QuotaFor(p)
                             /\ pub[p] \in {"acquiring", "writing"} => sent[p] < QuotaFor(p)
    /\ Cardinality(Numbers) = published

\* As long as nobody was late, lost or interrupted, what was counted is, subscriber by
\* subscriber, what the broker accepted and is not on its way.
Kept == /\ main # "settle" /\ timely /\ timer # "fired"
        /\ \A s \in Subscribers : sub[s] \in {"reading", "ok"}
Counted == {x \in Subscribers \X (1..accepted) : x[2] <= accepted - inbox[x[1]]}
Deliveries ==
    /\ main = "settle" => accepted = 0 /\ received = 0 /\ \A s \in Subscribers : inbox[s] = 0
    /\ main # "settle" /\ timely => \A s \in Subscribers : sub[s] \notin {"connecting", "subscribing"}
    /\ Kept =>
         /\ main \in Before => \A s \in Subscribers : sub[s] = "reading"
         /\ main \notin Before => \A s \in Subscribers : inbox[s] = 0
         /\ \A s \in Subscribers : inbox[s] <= accepted
         /\ Cardinality(Counted) = received

\* A function of the publishers as the set of its units: its cardinality is the sum.
Units(f) == {x \in Publishers \X (1..Count) : x[2] <= f[x[1]]}
Flights == [p \in Publishers |-> InFlight(p)]

\* Every message published is answered or in flight, every one accepted is acknowledged or
\* its acknowledgement is on its way.
Answers ==
    /\ \A p \in Publishers : InFlight(p) <= sent[p]
    /\ Cardinality(Units(Flights)) + acknowledged + refused = published
    /\ Cardinality(Units(acks)) + acknowledged = accepted

\* The report is a snapshot of counters of which at most the answers still change.
Reported ==
    /\ report.printed \in BOOLEAN /\ (main = "reported" <=> report.printed)
    /\ report.printed =>
         /\ report.published = published /\ report.received = received
         /\ report.acknowledged \in Nat /\ report.acknowledged <= acknowledged
         /\ report.refused \in Nat /\ report.refused <= refused
         /\ report.success => Success

RunInv == TypeOK /\ Tasks /\ Quotas /\ Deliveries /\ Answers /\ Reported

-----------------------------------------------------------------------------
(***************************************************************************)
(* Types.                                                                  *)
(***************************************************************************)

\* A run starts with its types in order.
LEMMA TypeInit == Init => TypeOK
<1> SUFFICES ASSUME Init PROVE TypeOK
  OBVIOUS
<1>1. report.printed \in BOOLEAN
  BY DEF Init, NoReport
<1>2. {published, acknowledged, received, pubErrors, refused} \subseteq Nat
  BY DEF Init
<1> QED
  BY <1>1, <1>2 DEF Init, TypeOK, Ended

\* Every step of bench::run, of its tasks and of the broker keeps the types.
LEMMA TypeNext == ASSUME TypeOK, [Next]_vars PROVE TypeOK'
<1>1. CASE SpawnPublishers
  BY <1>1 DEF SpawnPublishers, TypeOK, Ended, mainVars, pubVars, flightVars, subVars,
     counters
<1>2. CASE DeadlineStop
  BY <1>2 DEF DeadlineStop, TypeOK, Ended, mainVars, pubVars, flightVars, subVars,
     counters
<1>3. CASE JoinPublishers
  BY <1>3 DEF JoinPublishers, TypeOK, Ended, mainVars, pubVars, flightVars, subVars,
     counters
<1>4. CASE DrainElapsed
  BY <1>4 DEF DrainElapsed, TypeOK, Ended, mainVars, pubVars, flightVars, subVars,
     counters
<1>5. CASE PrintReport
  BY <1>5 DEF PrintReport, TypeOK, Ended, mainVars, pubVars, flightVars, subVars, counters
<1>6. ASSUME NEW s \in Subscribers, SubConnect(s) PROVE TypeOK'
  BY <1>6 DEF SubConnect, SetSub, TypeOK, Ended, mainVars, pubVars, flightVars, subVars,
     counters
<1>7. ASSUME NEW s \in Subscribers, BrokerSubscribes(s) PROVE TypeOK'
  BY <1>7 DEF BrokerSubscribes, TypeOK, Ended, mainVars, pubVars, flightVars, subVars,
     counters
<1>8. ASSUME NEW s \in Subscribers, SubAck(s) PROVE TypeOK'
  BY <1>8 DEF SubAck, SetSub, TypeOK, Ended, mainVars, pubVars, flightVars, subVars,
     counters
<1>9. ASSUME NEW s \in Subscribers, SubReceive(s) PROVE TypeOK'
  BY <1>9 DEF SubReceive, SetSub, TypeOK, Ended, mainVars, pubVars, flightVars, subVars,
     counters
<1>10. ASSUME NEW s \in Subscribers, SubStop(s) PROVE TypeOK'
  BY <1>10 DEF SubStop, SetSub, TypeOK, Ended, mainVars, pubVars, flightVars, subVars,
     counters
<1>11. ASSUME NEW s \in Subscribers, SubLost(s) PROVE TypeOK'
  BY <1>11 DEF SubLost, SetSub, TypeOK, Ended, mainVars, pubVars, flightVars, subVars,
     counters
<1>12. ASSUME NEW p \in Publishers, PubConnect(p) PROVE TypeOK'
  BY <1>12 DEF PubConnect, SetPub, TypeOK, Ended, mainVars, pubVars, flightVars, subVars,
     counters
<1>13. ASSUME NEW p \in Publishers, PubLoop(p) PROVE TypeOK'
  BY <1>13 DEF PubLoop, SetPub, TypeOK, Ended, mainVars, pubVars, flightVars, subVars,
     counters
<1>14. ASSUME NEW p \in Publishers, PubAcquire(p) PROVE TypeOK'
  BY <1>14 DEF PubAcquire, SetPub, TypeOK, Ended, mainVars, pubVars, flightVars, subVars,
     counters
<1>15. ASSUME NEW p \in Publishers, PubWrite(p) PROVE TypeOK'
  BY <1>15 DEF PubWrite, SetPub, TypeOK, Ended, mainVars, pubVars, flightVars, subVars,
     counters
<1>16. ASSUME NEW p \in Publishers, PubWriteFails(p) PROVE TypeOK'
  BY <1>16 DEF PubWriteFails, SetPub, TypeOK, Ended, mainVars, pubVars, flightVars,
     subVars, counters
<1>17. ASSUME NEW p \in Publishers, BrokerAccepts(p) PROVE TypeOK'
  BY <1>17 DEF BrokerAccepts, TypeOK, Ended, mainVars, pubVars, flightVars, subVars,
     counters
<1>18. ASSUME NEW p \in Publishers, BrokerRefuses(p) PROVE TypeOK'
  BY <1>18 DEF BrokerRefuses, TypeOK, Ended, mainVars, pubVars, flightVars, subVars,
     counters
<1>19. ASSUME NEW p \in Publishers, AckTaskCounts(p) PROVE TypeOK'
  BY <1>19 DEF AckTaskCounts, TypeOK, Ended, mainVars, pubVars, flightVars, subVars,
     counters
<1>20. ASSUME NEW p \in Publishers, AckTaskEnds(p) PROVE TypeOK'
  BY <1>20 DEF AckTaskEnds, TypeOK, Ended, mainVars, pubVars, flightVars, subVars,
     counters
<1>21. ASSUME NEW p \in Publishers, PubReturns(p) PROVE TypeOK'
  BY <1>21 DEF PubReturns, PubLeaves, SetPub, TypeOK, Ended, mainVars, pubVars,
     flightVars, subVars, counters
<1>22. ASSUME NEW p \in Publishers, PubGivesUp(p) PROVE TypeOK'
  BY <1>22 DEF PubGivesUp, PubLeaves, SetPub, TypeOK, Ended, mainVars, pubVars,
     flightVars, subVars, counters
<1>23. ASSUME NEW p \in Publishers, PubLost(p) PROVE TypeOK'
  BY <1>23 DEF PubLost, SetPub, TypeOK, Ended, mainVars, pubVars, flightVars, subVars,
     counters
<1>24. CASE UNCHANGED vars
  BY <1>24 DEF vars, TypeOK, Ended, mainVars, pubVars, flightVars, subVars, counters
<1> QED
  BY <1>1, <1>2, <1>3, <1>4, <1>5, <1>6, <1>7, <1>8, <1>9, <1>10, <1>11, <1>12, <1>13,
     <1>14, <1>15, <1>16, <1>17, <1>18, <1>19, <1>20, <1>21, <1>22, <1>23, <1>24
     DEF Next, Main, Subscriber, Publisher, PublisherWrites, AckTask, BrokerAnswersSub,
         BrokerAnswersPub, Finished

\* The types of the run, of its tasks and of its counters.
THEOREM RunTypeCorrect == Spec => []TypeOK
<1>1. TypeOK /\ [Next]_vars => TypeOK'
  BY TypeNext
<1> QED
  BY <1>1, TypeInit, PTL DEF Spec

-----------------------------------------------------------------------------
(***************************************************************************)
(* The tasks.                                                              *)
(***************************************************************************)

\* Shares of --count are numbers.
LEMMA QuotaType == \A p \in Publishers : QuotaFor(p) \in Nat
<1>1. Count \div NumPublishers \in Nat /\ Count % NumPublishers \in Nat
  BY RunAssumption
<1> QED
  BY <1>1 DEF QuotaFor

\* No task has started when the run begins.
LEMMA TasksInit == Init => Tasks
BY RunAssumption DEF Init, Tasks, Before, Active, Publishers, Ended

\* Tasks start and end in the order of bench::run, and the stop signal comes from the
\* deadline until the drain window is over.
LEMMA TasksNext == ASSUME TypeOK, Quotas, Tasks, [Next]_vars PROVE Tasks'
<1>1. CASE SpawnPublishers
  BY <1>1 DEF SpawnPublishers, TypeOK, Tasks, Before, Active, Ended, mainVars, pubVars,
     flightVars, subVars, counters
<1>2. CASE DeadlineStop
  BY <1>2 DEF DeadlineStop, TypeOK, Tasks, Before, Active, Ended, mainVars, pubVars,
     flightVars, subVars, counters
<1>3. CASE JoinPublishers
  BY <1>3 DEF JoinPublishers, TypeOK, Tasks, Before, Active, Ended, mainVars, pubVars,
     flightVars, subVars, counters
<1>4. CASE DrainElapsed
  BY <1>4 DEF DrainElapsed, TypeOK, Tasks, Before, Active, Ended, mainVars, pubVars,
     flightVars, subVars, counters
<1>5. CASE PrintReport
  BY <1>5 DEF PrintReport, TypeOK, Tasks, Before, Active, Ended, mainVars, pubVars,
     flightVars, subVars, counters
<1>6. ASSUME NEW s \in Subscribers, SubConnect(s) PROVE Tasks'
  BY <1>6 DEF SubConnect, SetSub, TypeOK, Tasks, Before, Active, Ended, mainVars, pubVars,
     flightVars, subVars, counters
<1>7. ASSUME NEW s \in Subscribers, BrokerSubscribes(s) PROVE Tasks'
  BY <1>7 DEF BrokerSubscribes, TypeOK, Tasks, Before, Active, Ended, mainVars, pubVars,
     flightVars, subVars, counters
<1>8. ASSUME NEW s \in Subscribers, SubAck(s) PROVE Tasks'
  BY <1>8 DEF SubAck, SetSub, TypeOK, Tasks, Before, Active, Ended, mainVars, pubVars,
     flightVars, subVars, counters
<1>9. ASSUME NEW s \in Subscribers, SubReceive(s) PROVE Tasks'
  BY <1>9 DEF SubReceive, SetSub, TypeOK, Tasks, Before, Active, Ended, mainVars, pubVars,
     flightVars, subVars, counters
<1>10. ASSUME NEW s \in Subscribers, SubStop(s) PROVE Tasks'
  BY <1>10 DEF SubStop, SetSub, TypeOK, Tasks, Before, Active, Ended, mainVars, pubVars,
     flightVars, subVars, counters
<1>11. ASSUME NEW s \in Subscribers, SubLost(s) PROVE Tasks'
  BY <1>11 DEF SubLost, SetSub, TypeOK, Tasks, Before, Active, Ended, mainVars, pubVars,
     flightVars, subVars, counters
<1>12. ASSUME NEW p \in Publishers, PubConnect(p) PROVE Tasks'
  BY <1>12 DEF PubConnect, SetPub, TypeOK, Tasks, Before, Active, Ended, mainVars,
     pubVars, flightVars, subVars, counters
<1>13. ASSUME NEW p \in Publishers, PubLoop(p) PROVE Tasks'
  BY <1>13, QuotaType DEF PubLoop, SetPub, TypeOK, Tasks, Quotas, Before, Active, Ended, mainVars,
     subVars, flightVars, counters
<1>14. ASSUME NEW p \in Publishers, PubAcquire(p) PROVE Tasks'
  BY <1>14 DEF PubAcquire, SetPub, TypeOK, Tasks, Before, Active, Ended, mainVars,
     pubVars, flightVars, subVars, counters
<1>15. ASSUME NEW p \in Publishers, PubWrite(p) PROVE Tasks'
  BY <1>15 DEF PubWrite, SetPub, TypeOK, Tasks, Before, Active, Ended, mainVars, pubVars,
     flightVars, subVars, counters
<1>16. ASSUME NEW p \in Publishers, PubWriteFails(p) PROVE Tasks'
  BY <1>16 DEF PubWriteFails, SetPub, TypeOK, Tasks, Before, Active, Ended, mainVars,
     pubVars, flightVars, subVars, counters
<1>17. ASSUME NEW p \in Publishers, BrokerAccepts(p) PROVE Tasks'
  BY <1>17 DEF BrokerAccepts, TypeOK, Tasks, Before, Active, Ended, mainVars, pubVars,
     flightVars, subVars, counters
<1>18. ASSUME NEW p \in Publishers, BrokerRefuses(p) PROVE Tasks'
  BY <1>18 DEF BrokerRefuses, TypeOK, Tasks, Before, Active, Ended, mainVars, pubVars,
     flightVars, subVars, counters
<1>19. ASSUME NEW p \in Publishers, AckTaskCounts(p) PROVE Tasks'
  BY <1>19 DEF AckTaskCounts, TypeOK, Tasks, Before, Active, Ended, mainVars, pubVars,
     flightVars, subVars, counters
<1>20. ASSUME NEW p \in Publishers, AckTaskEnds(p) PROVE Tasks'
  BY <1>20 DEF AckTaskEnds, TypeOK, Tasks, Before, Active, Ended, mainVars, pubVars,
     flightVars, subVars, counters
<1>21. ASSUME NEW p \in Publishers, PubReturns(p) PROVE Tasks'
  BY <1>21 DEF PubReturns, PubLeaves, SetPub, TypeOK, Tasks, Before, Active, Ended,
     mainVars, pubVars, flightVars, subVars, counters
<1>22. ASSUME NEW p \in Publishers, PubGivesUp(p) PROVE Tasks'
  BY <1>22 DEF PubGivesUp, PubLeaves, SetPub, TypeOK, Tasks, Before, Active, Ended,
     mainVars, pubVars, flightVars, subVars, counters
<1>23. ASSUME NEW p \in Publishers, PubLost(p) PROVE Tasks'
  BY <1>23 DEF PubLost, SetPub, TypeOK, Tasks, Before, Active, Ended, mainVars, pubVars,
     flightVars, subVars, counters
<1>24. CASE UNCHANGED vars
  BY <1>24 DEF vars, TypeOK, Tasks, Before, Active, Ended, mainVars, pubVars, flightVars,
     subVars, counters
<1> QED
  BY <1>1, <1>2, <1>3, <1>4, <1>5, <1>6, <1>7, <1>8, <1>9, <1>10, <1>11, <1>12, <1>13,
     <1>14, <1>15, <1>16, <1>17, <1>18, <1>19, <1>20, <1>21, <1>22, <1>23, <1>24
     DEF Next, Main, Subscriber, Publisher, PublisherWrites, AckTask, BrokerAnswersSub,
         BrokerAnswersPub, Finished

-----------------------------------------------------------------------------
(***************************************************************************)
(* The shares of --count.                                                  *)
(***************************************************************************)

\* The rounds of different publishers never give one number twice.
LEMMA NumberUnique ==
  ASSUME NEW p \in Publishers, NEW q \in Publishers, NEW j \in Nat, NEW k \in Nat,
         Number(p, j) = Number(q, k)
  PROVE  p = q /\ j = k
<1>1. NumPublishers \in Nat /\ NumPublishers > 0 /\ p \in 0..(NumPublishers - 1) /\ q \in 0..(NumPublishers - 1)
  BY RunAssumption DEF Publishers
<1>2. ASSUME NEW a \in Nat, NEW b \in Nat, a < b
      PROVE  a * NumPublishers + NumPublishers <= b * NumPublishers
  <2>1. (a + 1) * NumPublishers <= b * NumPublishers
    BY <1>1, <1>2
  <2>2. (a + 1) * NumPublishers = a * NumPublishers + NumPublishers
    BY <1>1
  <2> QED
    BY <2>1, <2>2
<1>3. j * NumPublishers \in Nat /\ k * NumPublishers \in Nat
  BY <1>1
<1>4. ~(j < k) /\ ~(k < j)
  <2>1. j < k => j * NumPublishers + NumPublishers <= k * NumPublishers
    BY <1>2
  <2>2. k < j => k * NumPublishers + NumPublishers <= j * NumPublishers
    BY <1>2
  <2> DEFINE x == j * NumPublishers
             y == k * NumPublishers
  <2>3. x + p = y + q
    BY DEF Number
  <2> HIDE DEF x, y
  <2> QED
    BY <1>1, <1>3, <2>1, <2>2, <2>3 DEF x, y
<1>5. j = k
  BY <1>4
<1> QED
  BY <1>1, <1>3, <1>5 DEF Number

\* quota_for: a message within the share of its publisher is a message of the run.
LEMMA NumberInCount ==
  ASSUME NEW p \in Publishers, NEW k \in Nat, k < QuotaFor(p)
  PROVE  Number(p, k) \in 0..(Count - 1)
<1> DEFINE c == Count \div NumPublishers
           r == Count % NumPublishers
<1>1. NumPublishers \in Nat /\ NumPublishers > 0 /\ p \in 0..(NumPublishers - 1) /\ Count \in Nat
  BY RunAssumption DEF Publishers
<1>2. c \in Nat /\ r \in 0..(NumPublishers - 1) /\ Count = NumPublishers * c + r
  BY <1>1
<1>3. k < c + (IF p < r THEN 1 ELSE 0)
  BY DEF QuotaFor
<1> HIDE DEF c, r
<1>4. k < c \/ (k = c /\ p < r)
  BY <1>1, <1>2, <1>3
<1>5. CASE k < c
  <2>1. (k + 1) * NumPublishers <= c * NumPublishers
    BY <1>1, <1>2, <1>5
  <2>2. (k + 1) * NumPublishers = k * NumPublishers + NumPublishers /\ k * NumPublishers \in Nat
        /\ c * NumPublishers = NumPublishers * c /\ NumPublishers * c \in Nat
    BY <1>1, <1>2
  <2> QED
    BY <1>1, <1>2, <2>1, <2>2 DEF Number
<1>6. CASE k = c /\ p < r
  <2>1. c * NumPublishers = NumPublishers * c /\ NumPublishers * c \in Nat
    BY <1>1, <1>2
  <2> QED
    BY <1>1, <1>2, <1>6, <2>1 DEF Number
<1> QED
  BY <1>4, <1>5, <1>6

\* Nothing is sent when the run begins.
LEMMA QuotasInit == Init => Quotas
<1> SUFFICES ASSUME Init PROVE Quotas
  OBVIOUS
<1>1. \A p \in Publishers : sent[p] = 0 /\ pub[p] = "unspawned"
  BY DEF Init
<1>2. Numbers = {}
  BY <1>1 DEF Numbers
<1> QED
  BY <1>1, <1>2, QuotaType, FS_EmptySet DEF Init, Quotas

\* A PUBLISH adds one number, and one the run has not used.
LEMMA WriteQuotas == ASSUME TypeOK, Quotas, NEW p \in Publishers, PubWrite(p) PROVE Quotas'
<1> DEFINE n == Number(p, sent[p])
<1>0. /\ sent' = [sent EXCEPT ![p] = @ + 1] /\ published' = published + 1 /\ pub[p] = "writing"
      /\ \A q \in Publishers : pub'[q] = IF q = p THEN "sending" ELSE pub[q]
      /\ sent \in [Publishers -> Nat] /\ published \in Nat
      /\ sent[p] \in Nat
  BY DEF PubWrite, SetPub, TypeOK
<1>1. n \in 0..(Count - 1)
  BY <1>0, NumberInCount DEF Quotas
<1>2. n \notin Numbers
  <2> SUFFICES ASSUME n \in Numbers PROVE FALSE
    OBVIOUS
  <2>1. PICK q \in Publishers : \E k \in 0..(sent[q] - 1) : n = Number(q, k)
    BY DEF Numbers
  <2>1a. PICK k \in 0..(sent[q] - 1) : n = Number(q, k)
    BY <2>1
  <2>2. k \in Nat /\ k < sent[q]
    BY <1>0
  <2>3. q = p /\ k = sent[p]
    BY <1>0, <2>1a, <2>2, NumberUnique
  <2> QED
    BY <1>0, <2>2, <2>3
<1>3. Numbers' = Numbers \cup {n}
  <2>1. \A q \in Publishers : sent'[q] = IF q = p THEN sent[p] + 1 ELSE sent[q]
    BY <1>0
  <2>2. ASSUME NEW x \in Numbers PROVE x \in Numbers'
    <3>1. PICK q \in Publishers : \E k \in 0..(sent[q] - 1) : x = Number(q, k)
      BY DEF Numbers
    <3>1a. PICK k \in 0..(sent[q] - 1) : x = Number(q, k)
      BY <3>1
    <3>2. k \in 0..(sent'[q] - 1) /\ x \in 0..(Count - 1)
      BY <1>0, <2>1 DEF Numbers
    <3> QED
      BY <3>1a, <3>2 DEF Numbers
  <2>3. n \in Numbers'
    <3>1. sent[p] \in 0..(sent'[p] - 1)
      BY <1>0, <2>1
    <3> QED
      BY <1>1, <3>1 DEF Numbers
  <2>4. ASSUME NEW x \in Numbers' PROVE x \in Numbers \/ x = n
    <3>1. PICK q \in Publishers : \E k \in 0..(sent'[q] - 1) : x = Number(q, k)
      BY DEF Numbers
    <3>1a. PICK k \in 0..(sent'[q] - 1) : x = Number(q, k)
      BY <3>1
    <3>2. k \in 0..(sent[q] - 1) \/ (q = p /\ k = sent[p])
      BY <1>0, <2>1
    <3> QED
      BY <3>1a, <3>2 DEF Numbers
  <2> QED
    BY <2>2, <2>3, <2>4
<1>4. IsFiniteSet(Numbers) /\ Cardinality(Numbers) = published
  <2>1. Numbers \in SUBSET (0..(Count - 1)) /\ IsFiniteSet(0..(Count - 1))
    BY FS_Interval, RunAssumption DEF Numbers
  <2> QED
    BY <2>1, FS_Subset DEF Quotas
<1> HIDE DEF n
<1>5. Cardinality(Numbers \cup {n}) = Cardinality(Numbers) + 1
  BY <1>2, <1>4, FS_AddElement, Zenon
<1>6. Cardinality(Numbers') = published'
  BY <1>0, <1>3, <1>4, <1>5
<1>7. ASSUME NEW q \in Publishers
      PROVE  sent'[q] <= QuotaFor(q) /\ (pub'[q] \in {"acquiring", "writing"} => sent'[q] < QuotaFor(q))
  <2>1. QuotaFor(q) \in Nat
    BY QuotaType
  <2> QED
    BY <1>0, <2>1 DEF Quotas
<1> QED
  BY <1>6, <1>7 DEF Quotas

\* The writer's loop checks the share before it writes.
LEMMA QuotasNext == ASSUME TypeOK, Quotas, [Next]_vars PROVE Quotas'
<1>a. ASSUME UNCHANGED sent PROVE Numbers' = Numbers
  BY <1>a DEF Numbers
<1>b. ASSUME UNCHANGED <<sent, published>>,
             \A p \in Publishers : pub'[p] \in {"acquiring", "writing"} =>
               pub[p] \in {"acquiring", "writing"} \/ sent[p] < QuotaFor(p)
      PROVE  Quotas'
  BY <1>a, <1>b DEF Quotas
<1>1. CASE SpawnPublishers
  BY <1>b, <1>1 DEF SpawnPublishers, TypeOK, Ended, mainVars, pubVars, flightVars,
     subVars, counters
<1>2. CASE DeadlineStop
  BY <1>b, <1>2 DEF DeadlineStop, TypeOK, Ended, mainVars, pubVars, flightVars, subVars,
     counters
<1>3. CASE JoinPublishers
  BY <1>b, <1>3 DEF JoinPublishers, TypeOK, Ended, mainVars, pubVars, flightVars, subVars,
     counters
<1>4. CASE DrainElapsed
  BY <1>b, <1>4 DEF DrainElapsed, TypeOK, Ended, mainVars, pubVars, flightVars, subVars,
     counters
<1>5. CASE PrintReport
  BY <1>b, <1>5 DEF PrintReport, TypeOK, Ended, mainVars, pubVars, flightVars, subVars,
     counters
<1>6. ASSUME NEW s \in Subscribers, SubConnect(s) PROVE Quotas'
  BY <1>b, <1>6 DEF SubConnect, SetSub, TypeOK, Ended, mainVars, pubVars, flightVars,
     subVars, counters
<1>7. ASSUME NEW s \in Subscribers, BrokerSubscribes(s) PROVE Quotas'
  BY <1>b, <1>7 DEF BrokerSubscribes, TypeOK, Ended, mainVars, pubVars, flightVars,
     subVars, counters
<1>8. ASSUME NEW s \in Subscribers, SubAck(s) PROVE Quotas'
  BY <1>b, <1>8 DEF SubAck, SetSub, TypeOK, Ended, mainVars, pubVars, flightVars, subVars,
     counters
<1>9. ASSUME NEW s \in Subscribers, SubReceive(s) PROVE Quotas'
  BY <1>b, <1>9 DEF SubReceive, SetSub, TypeOK, Ended, mainVars, pubVars, flightVars,
     subVars, counters
<1>10. ASSUME NEW s \in Subscribers, SubStop(s) PROVE Quotas'
  BY <1>b, <1>10 DEF SubStop, SetSub, TypeOK, Ended, mainVars, pubVars, flightVars,
     subVars, counters
<1>11. ASSUME NEW s \in Subscribers, SubLost(s) PROVE Quotas'
  BY <1>b, <1>11 DEF SubLost, SetSub, TypeOK, Ended, mainVars, pubVars, flightVars,
     subVars, counters
<1>12. ASSUME NEW p \in Publishers, PubConnect(p) PROVE Quotas'
  BY <1>b, <1>12 DEF PubConnect, SetPub, TypeOK, Ended, mainVars, pubVars, flightVars,
     subVars, counters
<1>13. ASSUME NEW p \in Publishers, PubLoop(p) PROVE Quotas'
  BY <1>b, <1>13, QuotaType DEF PubLoop, SetPub, TypeOK, Ended, mainVars, counters
<1>14. ASSUME NEW p \in Publishers, PubAcquire(p) PROVE Quotas'
  BY <1>b, <1>14 DEF PubAcquire, SetPub, TypeOK, Ended, mainVars, pubVars, flightVars,
     subVars, counters
<1>15. ASSUME NEW p \in Publishers, PubWrite(p) PROVE Quotas'
  BY <1>15, WriteQuotas
<1>16. ASSUME NEW p \in Publishers, PubWriteFails(p) PROVE Quotas'
  BY <1>b, <1>16 DEF PubWriteFails, SetPub, TypeOK, Ended, mainVars, pubVars, flightVars,
     subVars, counters
<1>17. ASSUME NEW p \in Publishers, BrokerAccepts(p) PROVE Quotas'
  BY <1>b, <1>17 DEF BrokerAccepts, TypeOK, Ended, mainVars, pubVars, flightVars, subVars,
     counters
<1>18. ASSUME NEW p \in Publishers, BrokerRefuses(p) PROVE Quotas'
  BY <1>b, <1>18 DEF BrokerRefuses, TypeOK, Ended, mainVars, pubVars, flightVars, subVars,
     counters
<1>19. ASSUME NEW p \in Publishers, AckTaskCounts(p) PROVE Quotas'
  BY <1>b, <1>19 DEF AckTaskCounts, TypeOK, Ended, mainVars, pubVars, flightVars, subVars,
     counters
<1>20. ASSUME NEW p \in Publishers, AckTaskEnds(p) PROVE Quotas'
  BY <1>b, <1>20 DEF AckTaskEnds, TypeOK, Ended, mainVars, pubVars, flightVars, subVars,
     counters
<1>21. ASSUME NEW p \in Publishers, PubReturns(p) PROVE Quotas'
  BY <1>b, <1>21 DEF PubReturns, PubLeaves, SetPub, TypeOK, Ended, mainVars, pubVars,
     flightVars, subVars, counters
<1>22. ASSUME NEW p \in Publishers, PubGivesUp(p) PROVE Quotas'
  BY <1>b, <1>22 DEF PubGivesUp, PubLeaves, SetPub, TypeOK, Ended, mainVars, pubVars,
     flightVars, subVars, counters
<1>23. ASSUME NEW p \in Publishers, PubLost(p) PROVE Quotas'
  BY <1>b, <1>23 DEF PubLost, SetPub, TypeOK, Ended, mainVars, pubVars, flightVars,
     subVars, counters
<1>24. CASE UNCHANGED vars
  BY <1>b, <1>24 DEF vars, pubVars, counters
<1> QED
  BY <1>1, <1>2, <1>3, <1>4, <1>5, <1>6, <1>7, <1>8, <1>9, <1>10, <1>11, <1>12, <1>13,
     <1>14, <1>15, <1>16, <1>17, <1>18, <1>19, <1>20, <1>21, <1>22, <1>23, <1>24
     DEF Next, Main, Subscriber, Publisher, PublisherWrites, AckTask, BrokerAnswersSub,
         BrokerAnswersPub, Finished

\* quota_for: however the publishers run, and whatever fails, they never publish more
\* than --count between them.
THEOREM CountIsNeverExceeded == Spec => []NeverOverCount
<1> DEFINE Inv == TypeOK /\ Quotas
<1>1. Init => Inv
  BY TypeInit, QuotasInit
<1>2. Inv /\ [Next]_vars => Inv'
  BY TypeNext, QuotasNext
<1>3. Inv => NeverOverCount
  <2> SUFFICES ASSUME Inv PROVE published <= Count
    BY DEF NeverOverCount
  <2>1. Numbers \in SUBSET (0..(Count - 1)) /\ Count \in Nat
    BY RunAssumption DEF Numbers
  <2>2. IsFiniteSet(0..(Count - 1)) /\ Cardinality(0..(Count - 1)) = Count
    BY <2>1, FS_Interval
  <2>3. Cardinality(Numbers) <= Cardinality(0..(Count - 1))
    BY <2>1, <2>2, FS_Subset
  <2> QED
    BY <2>2, <2>3 DEF Quotas
<1> QED
  BY <1>1, <1>2, <1>3, PTL DEF Spec

-----------------------------------------------------------------------------
(***************************************************************************)
(* The deliveries.                                                         *)
(***************************************************************************)

\* What is counted is finite, and all of it when nothing is on its way.
LEMMA CountedFinite ==
  ASSUME TypeOK
  PROVE  /\ IsFiniteSet(Counted) /\ Cardinality(Counted) \in Nat
         /\ (\A s \in Subscribers : inbox[s] = 0) => Cardinality(Counted) = NumSubscribers * accepted
<1>1. accepted \in Nat /\ NumSubscribers \in Nat
  BY RunAssumption DEF TypeOK
<1>2. /\ IsFiniteSet(Subscribers) /\ IsFiniteSet(1..accepted)
      /\ Cardinality(Subscribers) = NumSubscribers /\ Cardinality(1..accepted) = accepted
  BY <1>1, FS_Interval DEF Subscribers
<1>3. /\ IsFiniteSet(Subscribers \X (1..accepted))
      /\ Cardinality(Subscribers \X (1..accepted)) = NumSubscribers * accepted
  BY <1>2, FS_Product
<1>4. Counted \in SUBSET (Subscribers \X (1..accepted))
  BY DEF Counted
<1>5. IsFiniteSet(Counted) /\ Cardinality(Counted) \in Nat
  BY <1>3, <1>4, FS_Subset, FS_CardinalityType
<1>6. (\A s \in Subscribers : inbox[s] = 0) => Counted = Subscribers \X (1..accepted)
  BY <1>1 DEF Counted
<1> QED
  BY <1>3, <1>5, <1>6

\* Before the publishers start nothing is accepted, delivered or counted.
LEMMA DeliveriesInit == Init => Deliveries
BY DEF Init, Deliveries, Kept

\* Steps that touch no delivery.
LEMMA DeliveriesSame ==
  ASSUME Deliveries, UNCHANGED <<main, timely, timer, sub, accepted, received, inbox>>
  PROVE  Deliveries'
BY DEF Deliveries, Kept, Counted

\* SUBSCRIBER_SETTLE is over.
LEMMA SpawnDeliveries == ASSUME TypeOK, Tasks, Deliveries, SpawnPublishers PROVE Deliveries'
<1>1. /\ main = "settle" /\ main' = "publishing" /\ UNCHANGED <<sub, accepted, received, inbox>>
      /\ timely' = \A s \in Subscribers : sub[s] \notin {"connecting", "subscribing"}
  BY DEF SpawnPublishers, subVars, counters
<1>2. accepted = 0 /\ received = 0 /\ \A s \in Subscribers : inbox[s] = 0
  BY <1>1 DEF Deliveries
<1>3. \A s \in Subscribers : sub[s] # "ok"
  BY <1>1 DEF Tasks, Before
<1>4. Counted' = {}
  BY <1>1, <1>2 DEF Counted
<1>5. Cardinality(Counted') = 0
  BY <1>4, FS_EmptySet
<1> QED
  BY <1>1, <1>2, <1>3, <1>5 DEF Deliveries, Kept, Before

\* subscriber::run counts one delivery.
LEMMA ReceiveDeliveries ==
  ASSUME TypeOK, Tasks, Deliveries, NEW s \in Subscribers, SubReceive(s) PROVE Deliveries'
<1>1. /\ UNCHANGED <<main, timely, timer, sub, accepted>> /\ received' = received + 1
      /\ inbox[s] > 0 /\ inbox' = [inbox EXCEPT ![s] = @ - 1] /\ sub[s] = "reading"
  BY DEF SubReceive, mainVars
<1>2. inbox \in [Subscribers -> Nat] /\ accepted \in Nat /\ received \in Nat
  BY DEF TypeOK
<1>3. main # "settle"
  BY <1>1, <1>2 DEF Deliveries
<1>4. Kept' <=> Kept
  BY <1>1 DEF Kept
<1> SUFFICES ASSUME Kept
             PROVE  /\ main \in Before => \A t \in Subscribers : sub[t] = "reading"
                    /\ main \notin Before => \A t \in Subscribers : inbox'[t] = 0
                    /\ \A t \in Subscribers : inbox'[t] <= accepted
                    /\ Cardinality(Counted') = received + 1
  BY <1>1, <1>3, <1>4 DEF Deliveries
<1>5. /\ main \in Before /\ (\A t \in Subscribers : inbox[t] <= accepted)
      /\ (\A t \in Subscribers : sub[t] = "reading") /\ Cardinality(Counted) = received
  BY <1>1, <1>2 DEF Deliveries
<1> DEFINE x == <<s, accepted - inbox[s] + 1>>
<1>6. x \notin Counted /\ Counted' = Counted \cup {x}
  <2>1. x \in Subscribers \X (1..accepted) /\ x[1] = s /\ x[2] = accepted - inbox[s] + 1
    BY <1>1, <1>2, <1>5
  <2>2. x \notin Counted
    BY <1>2, <2>1 DEF Counted
  <2>3. \A t \in Subscribers : inbox'[t] = IF t = s THEN inbox[s] - 1 ELSE inbox[t]
    BY <1>1, <1>2
  <2>4. ASSUME NEW y \in Subscribers \X (1..accepted)
        PROVE  y[2] <= accepted - inbox'[y[1]] <=> (y[2] <= accepted - inbox[y[1]] \/ y = x)
    <3>1. PICK t \in Subscribers, j \in 1..accepted : y = <<t, j>>
      OBVIOUS
    <3>2. CASE t = s
      BY <1>1, <1>2, <2>3, <3>1, <3>2
    <3>3. CASE t # s
      BY <1>1, <1>2, <2>3, <3>1, <3>3
    <3> QED
      BY <3>2, <3>3
  <2>5. Counted' = {y \in Subscribers \X (1..accepted) : y[2] <= accepted - inbox'[y[1]]}
    BY <1>1 DEF Counted
  <2> HIDE DEF x
  <2>6. Counted' = Counted \cup {x}
    BY <2>1, <2>4, <2>5 DEF Counted
  <2> QED
    BY <2>2, <2>6
<1> HIDE DEF x
<1>7. Cardinality(Counted') = received + 1
  <2>1. IsFiniteSet(Counted)
    BY CountedFinite
  <2>2. Cardinality(Counted \cup {x}) = Cardinality(Counted) + 1
    BY <1>6, <2>1, FS_AddElement, Zenon
  <2> QED
    BY <1>5, <1>6, <2>2
<1> QED
  BY <1>1, <1>2, <1>5, <1>7

\* The broker hands a message to every subscription it knows: all of them, as long as
\* everybody was ready in time; one it accepts after the drain window makes the run late.
LEMMA AcceptDeliveries ==
  ASSUME TypeOK, Tasks, Deliveries, NEW p \in Publishers, BrokerAccepts(p) PROVE Deliveries'
<1>1. /\ UNCHANGED <<main, timer, sub, received>> /\ accepted' = accepted + 1
      /\ inbox' = [s \in Subscribers |-> IF s \in subscribed THEN inbox[s] + 1 ELSE inbox[s]]
      /\ unread[p] > 0 /\ timely' = (timely /\ main \in {"publishing", "drain"})
  BY DEF BrokerAccepts, counters
<1>2. inbox \in [Subscribers -> Nat] /\ accepted \in Nat /\ received \in Nat
  BY DEF TypeOK
<1>3. main # "settle"
  BY <1>1 DEF Tasks
<1>4. Kept' => Kept /\ main \in {"publishing", "drain"}
  BY <1>1 DEF Kept
<1>4a. timely' => timely
  BY <1>1
<1> SUFFICES ASSUME Kept, main \in {"publishing", "drain"}
             PROVE  /\ main \in Before => \A t \in Subscribers : sub[t] = "reading"
                    /\ main \notin Before => \A t \in Subscribers : inbox'[t] = 0
                    /\ \A t \in Subscribers : inbox'[t] <= accepted + 1
                    /\ Cardinality(Counted') = received
  BY <1>1, <1>3, <1>4, <1>4a DEF Deliveries
<1>5. /\ main \in Before /\ (\A t \in Subscribers : inbox[t] <= accepted)
      /\ (\A t \in Subscribers : sub[t] = "reading") /\ Cardinality(Counted) = received
  BY DEF Deliveries, Before
<1>6. \A t \in Subscribers : inbox'[t] = inbox[t] + 1
  BY <1>1, <1>5 DEF Tasks
<1>7. Counted' = Counted
  <2>1. Counted' = {y \in Subscribers \X (1..(accepted + 1)) : y[2] <= (accepted + 1) - inbox'[y[1]]}
    BY <1>1 DEF Counted
  <2>2. ASSUME NEW t \in Subscribers, NEW j \in Nat
        PROVE  /\ (j \in 1..(accepted + 1) /\ j <= (accepted + 1) - inbox'[t])
                   <=> (j \in 1..accepted /\ j <= accepted - inbox[t])
    BY <1>2, <1>6
  <2>3. ASSUME NEW t, NEW j PROVE <<t, j>> \in Counted' <=> <<t, j>> \in Counted
    BY <1>2, <2>1, <2>2 DEF Counted
  <2>4. \A y \in Counted \cup Counted' : \E t, j : y = <<t, j>>
    BY <2>1 DEF Counted
  <2> QED
    BY <2>3, <2>4
<1> QED
  BY <1>2, <1>5, <1>6, <1>7

\* No step makes a delivery late, lost or counted twice while the run is kept.
LEMMA DeliveriesNext == ASSUME TypeOK, Tasks, Deliveries, [Next]_vars PROVE Deliveries'
<1>1. CASE SpawnPublishers
  BY <1>1, SpawnDeliveries
<1>2. CASE DeadlineStop
  BY <1>2 DEF DeadlineStop, TypeOK, Tasks, Deliveries, Kept, Counted, Before, Active,
     mainVars, pubVars, flightVars, subVars, counters
<1>3. CASE JoinPublishers
  BY <1>3 DEF JoinPublishers, TypeOK, Tasks, Deliveries, Kept, Counted, Before, Active,
     mainVars, pubVars, flightVars, subVars, counters
<1>4. CASE DrainElapsed
  BY <1>4 DEF DrainElapsed, TypeOK, Tasks, Deliveries, Kept, Counted, Before, Active,
     mainVars, pubVars, flightVars, subVars, counters
<1>5. CASE PrintReport
  BY <1>5 DEF PrintReport, TypeOK, Tasks, Deliveries, Kept, Counted, Before, Active,
     mainVars, pubVars, flightVars, subVars, counters
<1>6. ASSUME NEW s \in Subscribers, SubConnect(s) PROVE Deliveries'
  BY <1>6 DEF SubConnect, SetSub, TypeOK, Tasks, Deliveries, Kept, Counted, Before,
     Active, mainVars, pubVars, flightVars, subVars, counters
<1>7. ASSUME NEW s \in Subscribers, BrokerSubscribes(s) PROVE Deliveries'
  BY <1>7, DeliveriesSame DEF BrokerSubscribes, mainVars, pubVars, flightVars, subVars, counters
<1>8. ASSUME NEW s \in Subscribers, SubAck(s) PROVE Deliveries'
  BY <1>8 DEF SubAck, SetSub, TypeOK, Tasks, Deliveries, Kept, Counted, Before, Active,
     mainVars, pubVars, flightVars, subVars, counters
<1>9. ASSUME NEW s \in Subscribers, SubReceive(s) PROVE Deliveries'
  BY <1>9, ReceiveDeliveries
<1>10. ASSUME NEW s \in Subscribers, SubStop(s) PROVE Deliveries'
  BY <1>10 DEF SubStop, SetSub, TypeOK, Tasks, Deliveries, Kept, Counted, Before, Active,
     mainVars, pubVars, flightVars, subVars, counters
<1>11. ASSUME NEW s \in Subscribers, SubLost(s) PROVE Deliveries'
  BY <1>11 DEF SubLost, SetSub, TypeOK, Tasks, Deliveries, Kept, Counted, Before, Active,
     mainVars, pubVars, flightVars, subVars, counters
<1>12. ASSUME NEW p \in Publishers, PubConnect(p) PROVE Deliveries'
  BY <1>12, DeliveriesSame DEF PubConnect, mainVars, pubVars, flightVars, subVars, counters
<1>13. ASSUME NEW p \in Publishers, PubLoop(p) PROVE Deliveries'
  BY <1>13, DeliveriesSame DEF PubLoop, mainVars, pubVars, flightVars, subVars, counters
<1>14. ASSUME NEW p \in Publishers, PubAcquire(p) PROVE Deliveries'
  BY <1>14, DeliveriesSame DEF PubAcquire, mainVars, pubVars, flightVars, subVars, counters
<1>15. ASSUME NEW p \in Publishers, PubWrite(p) PROVE Deliveries'
  BY <1>15, DeliveriesSame DEF PubWrite, mainVars, pubVars, flightVars, subVars, counters
<1>16. ASSUME NEW p \in Publishers, PubWriteFails(p) PROVE Deliveries'
  BY <1>16, DeliveriesSame DEF PubWriteFails, mainVars, pubVars, flightVars, subVars, counters
<1>17. ASSUME NEW p \in Publishers, BrokerAccepts(p) PROVE Deliveries'
  BY <1>17, AcceptDeliveries
<1>18. ASSUME NEW p \in Publishers, BrokerRefuses(p) PROVE Deliveries'
  BY <1>18, DeliveriesSame DEF BrokerRefuses, mainVars, pubVars, flightVars, subVars, counters
<1>19. ASSUME NEW p \in Publishers, AckTaskCounts(p) PROVE Deliveries'
  BY <1>19, DeliveriesSame DEF AckTaskCounts, mainVars, pubVars, flightVars, subVars, counters
<1>20. ASSUME NEW p \in Publishers, AckTaskEnds(p) PROVE Deliveries'
  BY <1>20, DeliveriesSame DEF AckTaskEnds, mainVars, pubVars, flightVars, subVars, counters
<1>21. ASSUME NEW p \in Publishers, PubReturns(p) PROVE Deliveries'
  BY <1>21, DeliveriesSame DEF PubReturns, PubLeaves, mainVars, pubVars, flightVars, subVars, counters
<1>22. ASSUME NEW p \in Publishers, PubGivesUp(p) PROVE Deliveries'
  BY <1>22, DeliveriesSame DEF PubGivesUp, PubLeaves, mainVars, pubVars, flightVars, subVars, counters
<1>23. ASSUME NEW p \in Publishers, PubLost(p) PROVE Deliveries'
  BY <1>23, DeliveriesSame DEF PubLost, mainVars, pubVars, flightVars, subVars, counters
<1>24. CASE UNCHANGED vars
  BY <1>24, DeliveriesSame DEF vars, mainVars, subVars, counters
<1> QED
  BY <1>1, <1>2, <1>3, <1>4, <1>5, <1>6, <1>7, <1>8, <1>9, <1>10, <1>11, <1>12, <1>13,
     <1>14, <1>15, <1>16, <1>17, <1>18, <1>19, <1>20, <1>21, <1>22, <1>23, <1>24
     DEF Next, Main, Subscriber, Publisher, PublisherWrites, AckTask, BrokerAnswersSub,
         BrokerAnswersPub, Finished

-----------------------------------------------------------------------------
(***************************************************************************)
(* The answers.                                                            *)
(***************************************************************************)

\* The units of a function are finite in number, and none only when it is zero.
LEMMA UnitsFinite ==
  ASSUME NEW f \in [Publishers -> Nat]
  PROVE  /\ IsFiniteSet(Units(f)) /\ Cardinality(Units(f)) \in Nat
         /\ (\A p \in Publishers : f[p] = 0) => Cardinality(Units(f)) = 0
         /\ Cardinality(Units(f)) = 0 /\ (\A p \in Publishers : f[p] <= Count)
              => \A p \in Publishers : f[p] = 0
<1>1. Count \in Nat /\ NumPublishers \in Nat
  BY RunAssumption
<1>2. IsFiniteSet(Publishers) /\ IsFiniteSet(1..Count)
  BY <1>1, FS_Interval DEF Publishers
<1>3. IsFiniteSet(Publishers \X (1..Count)) /\ Units(f) \in SUBSET (Publishers \X (1..Count))
  BY <1>2, FS_Product DEF Units
<1>4. IsFiniteSet(Units(f)) /\ Cardinality(Units(f)) \in Nat
  BY <1>3, FS_Subset, FS_CardinalityType
<1>5. (\A p \in Publishers : f[p] = 0) => Units(f) = {}
  BY DEF Units
<1>6. ASSUME Cardinality(Units(f)) = 0, NEW p \in Publishers, f[p] <= Count PROVE f[p] = 0
  <2>1. Units(f) = {}
    BY <1>4, <1>6, FS_EmptySet
  <2>2. SUFFICES ASSUME f[p] > 0 PROVE FALSE
    OBVIOUS
  <2>3. <<p, f[p]>> \in Units(f)
    BY <1>1, <1>6, <2>2 DEF Units
  <2> QED
    BY <2>1, <2>3
<1> QED
  BY <1>4, <1>5, <1>6, FS_EmptySet

\* One more for one publisher is one more in the sum.
LEMMA UnitsAdd ==
  ASSUME NEW f \in [Publishers -> Nat], NEW g \in [Publishers -> Nat], NEW p \in Publishers,
         g[p] = f[p] + 1, g[p] <= Count, \A q \in Publishers : q # p => g[q] = f[q]
  PROVE  Cardinality(Units(g)) = Cardinality(Units(f)) + 1
<1> DEFINE x == <<p, g[p]>>
<1>0. Count \in Nat
  BY RunAssumption
<1>1. x \in Publishers \X (1..Count) /\ x[1] = p /\ x[2] = g[p]
  BY <1>0
<1>2. x \notin Units(f)
  BY <1>1 DEF Units
<1>3. ASSUME NEW y \in Publishers \X (1..Count)
      PROVE  y[2] <= g[y[1]] <=> (y[2] <= f[y[1]] \/ y = x)
  <2>1. PICK q \in Publishers, j \in 1..Count : y = <<q, j>>
    OBVIOUS
  <2>2. CASE q = p
    BY <1>0, <2>1, <2>2
  <2>3. CASE q # p
    BY <2>1, <2>3
  <2> QED
    BY <2>2, <2>3
<1> HIDE DEF x
<1>4. Units(g) = Units(f) \cup {x}
  BY <1>1, <1>3 DEF Units
<1>5. IsFiniteSet(Units(f))
  BY UnitsFinite
<1> QED
  BY <1>2, <1>4, <1>5, FS_AddElement, Zenon

\* The share of a publisher is at most the whole.
LEMMA ShareWithinCount == \A p \in Publishers : QuotaFor(p) <= Count
<1> SUFFICES ASSUME NEW p \in Publishers, QuotaFor(p) > 0 PROVE QuotaFor(p) <= Count
  BY QuotaType, RunAssumption
<1> DEFINE k == QuotaFor(p) - 1
<1>1. k \in Nat /\ k < QuotaFor(p) /\ QuotaFor(p) \in Nat
  BY QuotaType
<1> HIDE DEF k
<1>2. k * NumPublishers + p \in 0..(Count - 1)
  BY <1>1, NumberInCount DEF Number
<1>3. NumPublishers \in Nat /\ NumPublishers >= 1 /\ p \in Nat /\ Count \in Nat
  BY RunAssumption DEF Publishers
<1>4. k <= k * NumPublishers /\ k * NumPublishers \in Nat
  BY <1>1, <1>3
<1> QED
  BY <1>1, <1>2, <1>3, <1>4 DEF k

\* The types of what the sums are over.
LEMMA FlightTypes ==
  ASSUME TypeOK
  PROVE  /\ Flights \in [Publishers -> Nat] /\ acks \in [Publishers -> Nat]
         /\ \A p \in Publishers : /\ Flights[p] = InFlight(p) /\ InFlight(p) \in Nat
                                   /\ unread[p] \in Nat /\ acks[p] \in Nat /\ nacks[p] \in Nat
                                   /\ InFlight(p) = unread[p] + acks[p] + nacks[p]
BY DEF TypeOK, Flights, InFlight

\* No message is on its way when the run begins.
LEMMA AnswersInit == Init => Answers
<1> SUFFICES ASSUME Init PROVE Answers
  OBVIOUS
<1>1. TypeOK
  BY TypeInit
<1>2. \A p \in Publishers : Flights[p] = 0 /\ acks[p] = 0 /\ InFlight(p) = 0 /\ sent[p] = 0
  BY DEF Init, Flights, InFlight
<1>3. Cardinality(Units(Flights)) = 0 /\ Cardinality(Units(acks)) = 0
  BY <1>1, <1>2, FlightTypes, UnitsFinite
<1> QED
  BY <1>2, <1>3 DEF Init, Answers

\* Steps that touch no message of a publisher.
LEMMA AnswersSame ==
  ASSUME Answers, UNCHANGED <<sent, unread, acks, nacks, published, acknowledged, refused, accepted>>
  PROVE  Answers'
<1>1. Flights' = Flights /\ \A p \in Publishers : InFlight(p)' = InFlight(p)
  BY DEF Flights, InFlight
<1> QED
  BY <1>1 DEF Answers

\* A message written is in flight.
LEMMA WriteAnswers ==
  ASSUME TypeOK, TypeOK', Quotas, Answers, NEW p \in Publishers, PubWrite(p) PROVE Answers'
<1>1. /\ UNCHANGED <<acks, nacks, acknowledged, refused, accepted>> /\ published' = published + 1
      /\ \A q \in Publishers : /\ sent'[q] = sent[q] + (IF q = p THEN 1 ELSE 0)
                                /\ unread'[q] = unread[q] + (IF q = p THEN 1 ELSE 0)
      /\ sent[p] < QuotaFor(p) /\ sent[p] \in Nat
  BY DEF PubWrite, TypeOK, Quotas
<1>2. \A q \in Publishers : InFlight(q)' = InFlight(q) + (IF q = p THEN 1 ELSE 0) /\ InFlight(q) \in Nat
                             /\ sent[q] \in Nat
  BY <1>1 DEF InFlight, TypeOK
<1>3. QuotaFor(p) <= Count /\ QuotaFor(p) \in Nat /\ Count \in Nat
  BY ShareWithinCount, QuotaType, RunAssumption
<1>4. /\ Flights \in [Publishers -> Nat] /\ Flights' \in [Publishers -> Nat]
      /\ \A q \in Publishers : Flights[q] = InFlight(q) /\ Flights'[q] = InFlight(q)'
  BY FlightTypes, <1>2 DEF Flights
<1>5. InFlight(p) <= sent[p] /\ \A q \in Publishers : InFlight(q) <= sent[q]
  BY DEF Answers
<1>6. Flights'[p] = Flights[p] + 1 /\ Flights'[p] <= Count /\ \A q \in Publishers : q # p => Flights'[q] = Flights[q]
  BY <1>1, <1>2, <1>3, <1>4, <1>5
<1>7. Cardinality(Units(Flights')) = Cardinality(Units(Flights)) + 1
  BY <1>4, <1>6, UnitsAdd
<1>8. Cardinality(Units(Flights)) \in Nat
  BY <1>4, UnitsFinite
<1>9. Cardinality(Units(Flights')) + acknowledged + refused = published + 1
  BY <1>7, <1>8 DEF Answers, TypeOK
<1>10. \A q \in Publishers : InFlight(q)' <= sent'[q]
  BY <1>1, <1>2, <1>5
<1> QED
  BY <1>1, <1>9, <1>10 DEF Answers

\* The acknowledgements of a publisher are among its messages in flight.
LEMMA AcksWithinCount == ASSUME TypeOK, Quotas, Answers PROVE \A p \in Publishers : InFlight(p) <= Count
<1> SUFFICES ASSUME NEW p \in Publishers PROVE InFlight(p) <= Count
  OBVIOUS
<1>1. QuotaFor(p) <= Count /\ QuotaFor(p) \in Nat /\ Count \in Nat
  BY ShareWithinCount, QuotaType, RunAssumption
<1>2. InFlight(p) \in Nat /\ sent[p] \in Nat /\ InFlight(p) <= sent[p] /\ sent[p] <= QuotaFor(p)
  BY FlightTypes DEF TypeOK, Quotas, Answers
<1> QED
  BY <1>1, <1>2

\* The broker's answer moves a message, and an acceptance owes an acknowledgement.
LEMMA BrokerAnswersKept ==
  ASSUME TypeOK, TypeOK', Quotas, Answers, NEW p \in Publishers, BrokerAnswersPub(p) PROVE Answers'
<1>1. UNCHANGED <<sent, published, acknowledged, refused>>
  BY DEF BrokerAnswersPub, BrokerAccepts, BrokerRefuses, counters
<1>2. \A q \in Publishers : InFlight(q)' = InFlight(q)
  BY DEF BrokerAnswersPub, BrokerAccepts, BrokerRefuses, InFlight, TypeOK
<1>3. Flights' = Flights
  BY <1>2 DEF Flights
<1>4. CASE BrokerRefuses(p)
  BY <1>1, <1>2, <1>3, <1>4 DEF BrokerRefuses, Answers
<1>5. CASE BrokerAccepts(p)
  <2>1. /\ acks'[p] = acks[p] + 1 /\ (\A q \in Publishers : q # p => acks'[q] = acks[q])
        /\ accepted' = accepted + 1 /\ unread[p] > 0
    BY <1>5 DEF BrokerAccepts, TypeOK
  <2>2. InFlight(p) <= Count /\ acks'[p] <= InFlight(p) /\ acks'[p] \in Nat /\ InFlight(p) \in Nat /\ Count \in Nat
    BY <2>1, AcksWithinCount, FlightTypes, RunAssumption
  <2>3. acks \in [Publishers -> Nat] /\ acks' \in [Publishers -> Nat]
    BY DEF TypeOK
  <2>4. Cardinality(Units(acks')) = Cardinality(Units(acks)) + 1
    BY <2>1, <2>2, <2>3, UnitsAdd
  <2>5. Cardinality(Units(acks)) \in Nat
    BY <2>3, UnitsFinite
  <2>6. Cardinality(Units(acks')) + acknowledged = accepted + 1
    BY <2>4, <2>5 DEF Answers, TypeOK
  <2> QED
    BY <1>1, <1>2, <1>3, <2>1, <2>6 DEF Answers
<1> QED
  BY <1>4, <1>5 DEF BrokerAnswersPub

\* complete_ack takes a message out of flight, and counts it once.
LEMMA CountAnswers ==
  ASSUME TypeOK, TypeOK', Quotas, Answers, NEW p \in Publishers, AckTaskCounts(p) PROVE Answers'
<1>1. UNCHANGED <<sent, unread, published, accepted>>
  BY DEF AckTaskCounts
<1>2. /\ Flights \in [Publishers -> Nat] /\ Flights' \in [Publishers -> Nat]
      /\ acks \in [Publishers -> Nat] /\ acks' \in [Publishers -> Nat]
      /\ \A q \in Publishers : Flights[q] = InFlight(q) /\ Flights'[q] = InFlight(q)'
  <2>1. \A q \in Publishers : InFlight(q)' \in Nat
    BY DEF TypeOK, InFlight
  <2> QED
    BY <2>1, FlightTypes DEF Flights, TypeOK
<1>3. \A q \in Publishers : /\ InFlight(q) \in Nat /\ InFlight(q)' \in Nat
                            /\ InFlight(q) = InFlight(q)' + (IF q = p THEN 1 ELSE 0)
  BY DEF AckTaskCounts, TypeOK, InFlight
<1>4. InFlight(p) <= Count
  BY AcksWithinCount
<1>5. Cardinality(Units(Flights)) = Cardinality(Units(Flights')) + 1
  BY <1>2, <1>3, <1>4, UnitsAdd
<1>6. Cardinality(Units(Flights')) \in Nat /\ Cardinality(Units(acks)) \in Nat /\ Cardinality(Units(acks')) \in Nat
  BY <1>2, UnitsFinite
<1>7. acknowledged' + refused' = acknowledged + refused + 1
  BY DEF AckTaskCounts, TypeOK
<1>8. Cardinality(Units(Flights')) + acknowledged' + refused' = published
  BY <1>5, <1>6, <1>7 DEF Answers, TypeOK
<1>9. Cardinality(Units(acks')) + acknowledged' = accepted
  <2>1. CASE UNCHANGED acks /\ UNCHANGED acknowledged
    BY <2>1 DEF Answers
  <2>2. CASE acks[p] > 0 /\ acks' = [acks EXCEPT ![p] = @ - 1] /\ acknowledged' = acknowledged + 1
    <3>1. acks[p] = acks'[p] + 1 /\ acks[p] <= InFlight(p) /\ \A q \in Publishers : q # p => acks'[q] = acks[q]
      BY <1>2, <2>2, FlightTypes
    <3>2. acks[p] <= Count
      BY <1>2, <1>3, <1>4, <3>1, RunAssumption
    <3>3. Cardinality(Units(acks)) = Cardinality(Units(acks')) + 1
      BY <1>2, <3>1, <3>2, UnitsAdd
    <3> QED
      BY <1>6, <2>2, <3>3 DEF Answers, TypeOK
  <2> QED
    BY <2>1, <2>2 DEF AckTaskCounts
<1>10. \A q \in Publishers : InFlight(q)' <= sent'[q]
  BY <1>1, <1>3 DEF Answers, TypeOK
<1> QED
  BY <1>1, <1>8, <1>9, <1>10 DEF Answers

\* No answer is lost or counted twice.
LEMMA AnswersNext == ASSUME TypeOK, TypeOK', Quotas, Answers, [Next]_vars PROVE Answers'
<1>1. CASE SpawnPublishers
  BY <1>1, AnswersSame DEF SpawnPublishers, pubVars, flightVars, counters
<1>2. CASE DeadlineStop
  BY <1>2, AnswersSame DEF DeadlineStop, pubVars, flightVars, counters
<1>3. CASE JoinPublishers
  BY <1>3, AnswersSame DEF JoinPublishers, pubVars, flightVars, counters
<1>4. CASE DrainElapsed
  BY <1>4, AnswersSame DEF DrainElapsed, pubVars, flightVars, counters
<1>5. CASE PrintReport
  BY <1>5, AnswersSame DEF PrintReport, pubVars, flightVars, counters
<1>6. ASSUME NEW s \in Subscribers, SubConnect(s) PROVE Answers'
  BY <1>6, AnswersSame DEF SubConnect, pubVars, flightVars, counters
<1>7. ASSUME NEW s \in Subscribers, BrokerSubscribes(s) PROVE Answers'
  BY <1>7, AnswersSame DEF BrokerSubscribes, pubVars, flightVars, counters
<1>8. ASSUME NEW s \in Subscribers, SubAck(s) PROVE Answers'
  BY <1>8, AnswersSame DEF SubAck, pubVars, flightVars, counters
<1>9. ASSUME NEW s \in Subscribers, SubReceive(s) PROVE Answers'
  BY <1>9, AnswersSame DEF SubReceive, pubVars, flightVars, counters
<1>10. ASSUME NEW s \in Subscribers, SubStop(s) PROVE Answers'
  BY <1>10, AnswersSame DEF SubStop, pubVars, flightVars, counters
<1>11. ASSUME NEW s \in Subscribers, SubLost(s) PROVE Answers'
  BY <1>11, AnswersSame DEF SubLost, pubVars, flightVars, counters
<1>12. ASSUME NEW p \in Publishers, PubConnect(p) PROVE Answers'
  BY <1>12, AnswersSame DEF PubConnect, pubVars, flightVars, counters
<1>13. ASSUME NEW p \in Publishers, PubLoop(p) PROVE Answers'
  BY <1>13, AnswersSame DEF PubLoop, pubVars, flightVars, counters
<1>14. ASSUME NEW p \in Publishers, PubAcquire(p) PROVE Answers'
  BY <1>14, AnswersSame DEF PubAcquire, pubVars, flightVars, counters
<1>15. ASSUME NEW p \in Publishers, PubWrite(p) PROVE Answers'
  BY <1>15, WriteAnswers
<1>16. ASSUME NEW p \in Publishers, PubWriteFails(p) PROVE Answers'
  BY <1>16, AnswersSame DEF PubWriteFails, pubVars, flightVars, counters
<1>17. ASSUME NEW p \in Publishers, BrokerAccepts(p) PROVE Answers'
  BY <1>17, BrokerAnswersKept DEF BrokerAnswersPub
<1>18. ASSUME NEW p \in Publishers, BrokerRefuses(p) PROVE Answers'
  BY <1>18, BrokerAnswersKept DEF BrokerAnswersPub
<1>19. ASSUME NEW p \in Publishers, AckTaskCounts(p) PROVE Answers'
  BY <1>19, CountAnswers
<1>20. ASSUME NEW p \in Publishers, AckTaskEnds(p) PROVE Answers'
  BY <1>20, AnswersSame DEF AckTaskEnds, pubVars, flightVars, counters
<1>21. ASSUME NEW p \in Publishers, PubReturns(p) PROVE Answers'
  BY <1>21, AnswersSame DEF PubReturns, PubLeaves, pubVars, flightVars, counters
<1>22. ASSUME NEW p \in Publishers, PubGivesUp(p) PROVE Answers'
  BY <1>22, AnswersSame DEF PubGivesUp, PubLeaves, pubVars, flightVars, counters
<1>23. ASSUME NEW p \in Publishers, PubLost(p) PROVE Answers'
  BY <1>23, AnswersSame DEF PubLost, pubVars, flightVars, counters
<1>24. CASE UNCHANGED vars
  BY <1>24, AnswersSame DEF vars, pubVars, flightVars, counters
<1> QED
  BY <1>1, <1>2, <1>3, <1>4, <1>5, <1>6, <1>7, <1>8, <1>9, <1>10, <1>11, <1>12, <1>13,
     <1>14, <1>15, <1>16, <1>17, <1>18, <1>19, <1>20, <1>21, <1>22, <1>23, <1>24
     DEF Next, Main, Subscriber, Publisher, PublisherWrites, AckTask, BrokerAnswersSub,
         BrokerAnswersPub, Finished

-----------------------------------------------------------------------------
(***************************************************************************)
(* The report.                                                             *)
(***************************************************************************)

\* There is no report when the run begins.
LEMMA ReportedInit == Init => Reported
BY DEF Init, Reported, NoReport

\* Once the run has its report every task has ended, and the one that may still count is
\* the ack task of a failed publisher.
LEMMA AllEnded ==
  ASSUME TypeOK, Tasks, main = "reported"
  PROVE  /\ \A p \in Publishers : pub[p] \in {"ok", "err"} /\ (detached[p] => pub[p] = "err")
         /\ \A s \in Subscribers : sub[s] \in Ended
BY DEF TypeOK, Tasks, Active, Ended

\* The report stays true of the counters it was taken from.
LEMMA ReportedNext == ASSUME TypeOK, Tasks, Reported, [Next]_vars PROVE Reported'
<1>a. ASSUME main' # "reported", main # "reported", UNCHANGED report PROVE Reported'
  BY <1>a DEF Reported
<1>b. ASSUME UNCHANGED <<main, report, published, received, acknowledged, refused>>,
             main = "reported" /\ Success => Success'
      PROVE  Reported'
  BY <1>b DEF Reported
<1>c. main = "reported" =>
        /\ \A p \in Publishers : pub[p] \in {"ok", "err"} /\ (detached[p] => pub[p] = "err")
        /\ \A s \in Subscribers : sub[s] \in Ended
  BY AllEnded
<1>1. CASE SpawnPublishers
  BY <1>a, <1>1 DEF SpawnPublishers
<1>2. CASE DeadlineStop
  BY <1>b, <1>2 DEF DeadlineStop, Success, pubVars, subVars, counters
<1>3. CASE JoinPublishers
  BY <1>a, <1>3 DEF JoinPublishers
<1>4. CASE DrainElapsed
  BY <1>a, <1>4 DEF DrainElapsed
<1>5. CASE PrintReport
  <2>1. /\ main' = "reported" /\ report'.printed = TRUE /\ report'.published = published
        /\ report'.received = received /\ report'.success = Success
        /\ report'.acknowledged = acknowledged /\ report'.refused = refused
    BY <1>5 DEF PrintReport
  <2>2. UNCHANGED <<pub, sub, published, received, acknowledged, refused, pubErrors>>
    BY <1>5 DEF PrintReport, pubVars, subVars, counters
  <2>3. Success' <=> Success
    BY <2>2 DEF Success
  <2>4. acknowledged \in Nat /\ refused \in Nat
    BY DEF TypeOK
  <2>5. /\ report'.acknowledged \in Nat /\ report'.acknowledged <= acknowledged'
        /\ report'.refused \in Nat /\ report'.refused <= refused'
    BY <2>1, <2>2, <2>4
  <2>6. report'.success => Success'
    BY <2>1, <2>3
  <2> QED
    BY <2>1, <2>2, <2>5, <2>6 DEF Reported
<1>6. ASSUME NEW s \in Subscribers, SubConnect(s) PROVE Reported'
  BY <1>b, <1>c, <1>6 DEF SubConnect, SetSub, Success, Ended, mainVars, pubVars,
     flightVars, subVars, counters
<1>7. ASSUME NEW s \in Subscribers, BrokerSubscribes(s) PROVE Reported'
  BY <1>b, <1>c, <1>7 DEF BrokerSubscribes, Success, Ended, mainVars, pubVars, flightVars,
     subVars, counters
<1>8. ASSUME NEW s \in Subscribers, SubAck(s) PROVE Reported'
  BY <1>b, <1>c, <1>8 DEF SubAck, SetSub, Success, Ended, mainVars, pubVars, flightVars,
     subVars, counters
<1>9. ASSUME NEW s \in Subscribers, SubReceive(s) PROVE Reported'
  BY <1>a, <1>c, <1>9 DEF SubReceive, Ended, mainVars
<1>10. ASSUME NEW s \in Subscribers, SubStop(s) PROVE Reported'
  BY <1>b, <1>c, <1>10 DEF SubStop, SetSub, Success, Ended, mainVars, pubVars, flightVars,
     subVars, counters
<1>11. ASSUME NEW s \in Subscribers, SubLost(s) PROVE Reported'
  BY <1>b, <1>c, <1>11 DEF SubLost, SetSub, Success, Ended, mainVars, pubVars, flightVars,
     subVars, counters
<1>12. ASSUME NEW p \in Publishers, PubConnect(p) PROVE Reported'
  BY <1>b, <1>c, <1>12 DEF PubConnect, SetPub, Success, Ended, mainVars, pubVars,
     flightVars, subVars, counters
<1>13. ASSUME NEW p \in Publishers, PubLoop(p) PROVE Reported'
  BY <1>b, <1>c, <1>13 DEF PubLoop, SetPub, Success, Ended, mainVars, pubVars, flightVars,
     subVars, counters
<1>14. ASSUME NEW p \in Publishers, PubAcquire(p) PROVE Reported'
  BY <1>b, <1>c, <1>14 DEF PubAcquire, SetPub, Success, Ended, mainVars, pubVars,
     flightVars, subVars, counters
<1>15. ASSUME NEW p \in Publishers, PubWrite(p) PROVE Reported'
  BY <1>a, <1>c, <1>15 DEF PubWrite, Ended, mainVars
<1>16. ASSUME NEW p \in Publishers, PubWriteFails(p) PROVE Reported'
  BY <1>b, <1>c, <1>16 DEF PubWriteFails, SetPub, Success, Ended, mainVars, pubVars,
     flightVars, subVars, counters
<1>17. ASSUME NEW p \in Publishers, BrokerAccepts(p) PROVE Reported'
  BY <1>b, <1>c, <1>17 DEF BrokerAccepts, Success, Ended, mainVars, pubVars, flightVars,
     subVars, counters
<1>18. ASSUME NEW p \in Publishers, BrokerRefuses(p) PROVE Reported'
  BY <1>b, <1>c, <1>18 DEF BrokerRefuses, Success, Ended, mainVars, pubVars, flightVars,
     subVars, counters
<1>19. ASSUME NEW p \in Publishers, AckTaskCounts(p) PROVE Reported'
  <2>1. /\ UNCHANGED <<main, report, published, received, pub, sub, pubErrors>>
        /\ acknowledged <= acknowledged' /\ refused <= refused' /\ AckTaskReads(p)
        /\ {acknowledged, acknowledged', refused, refused'} \subseteq Nat
    BY <1>19 DEF AckTaskCounts, mainVars, subVars, TypeOK
  <2>2. main = "reported" => detached[p] /\ pub[p] = "err"
    BY <1>c, <2>1 DEF AckTaskReads
  <2>3. main = "reported" => ~Success
    BY <2>2 DEF Success
  <2> QED
    BY <2>1, <2>3 DEF Reported
<1>20. ASSUME NEW p \in Publishers, AckTaskEnds(p) PROVE Reported'
  BY <1>b, <1>c, <1>20 DEF AckTaskEnds, Success, Ended, mainVars, pubVars, flightVars,
     subVars, counters
<1>21. ASSUME NEW p \in Publishers, PubReturns(p) PROVE Reported'
  BY <1>b, <1>c, <1>21 DEF PubReturns, PubLeaves, SetPub, Success, Ended, mainVars,
     pubVars, flightVars, subVars, counters
<1>22. ASSUME NEW p \in Publishers, PubGivesUp(p) PROVE Reported'
  BY <1>b, <1>c, <1>22 DEF PubGivesUp, PubLeaves, SetPub, Success, Ended, mainVars,
     pubVars, flightVars, subVars, counters
<1>23. ASSUME NEW p \in Publishers, PubLost(p) PROVE Reported'
  BY <1>b, <1>c, <1>23 DEF PubLost, SetPub, Success, Ended, mainVars, pubVars, flightVars,
     subVars, counters
<1>24. CASE UNCHANGED vars
  BY <1>b, <1>24 DEF vars, Success, mainVars, pubVars, flightVars, subVars, counters
<1> QED
  BY <1>1, <1>2, <1>3, <1>4, <1>5, <1>6, <1>7, <1>8, <1>9, <1>10, <1>11, <1>12, <1>13,
     <1>14, <1>15, <1>16, <1>17, <1>18, <1>19, <1>20, <1>21, <1>22, <1>23, <1>24
     DEF Next, Main, Subscriber, Publisher, PublisherWrites, AckTask, BrokerAnswersSub,
         BrokerAnswersPub, Finished

\* The inductive invariant.
LEMMA RunInvariant == Spec => []RunInv
<1>1. Init => RunInv
  BY TypeInit, TasksInit, QuotasInit, DeliveriesInit, AnswersInit, ReportedInit DEF RunInv
<1>2. RunInv /\ [Next]_vars => RunInv'
  <2> SUFFICES ASSUME RunInv, [Next]_vars PROVE RunInv'
    OBVIOUS
  <2>1. TypeOK'
    BY TypeNext DEF RunInv
  <2> QED
    BY <2>1, TasksNext, QuotasNext, DeliveriesNext, AnswersNext, ReportedNext DEF RunInv
<1> QED
  BY <1>1, <1>2, PTL DEF Spec

\* Report::success, src/src/bench/stats.rs: exit status 0 says that no task failed, nothing
\* was refused, no write failed, and, unless the run was interrupted, every publisher sent
\* its whole share, and this stays so however the run is left behind.
THEOREM SuccessHonest == Spec => []SuccessIsHonest
<1>1. RunInv => SuccessIsHonest
  <2> SUFFICES ASSUME RunInv, report.printed, report.success PROVE SuccessIsHonest
    BY DEF SuccessIsHonest
  <2>1. Success /\ main = "reported"
    BY DEF RunInv, Reported
  <2>2. \A p \in Publishers : pub[p] = "ok"
    BY <2>1, AllEnded DEF RunInv, Success
  <2> QED
    BY <2>1, <2>2 DEF RunInv, Tasks, Success, SuccessIsHonest
<1> QED
  BY <1>1, RunInvariant, PTL

\* bench::run, src/src/bench/mod.rs: the drain window before the stop of the subscribers
\* makes the report count every acknowledged message at every subscriber, when no subscriber
\* was late, lost or interrupted, and nothing else when every message was answered; refused
\* messages and those lost with a publisher's connection reach nobody.
THEOREM DeliveriesAreCounted == Spec => []EveryDeliveryCounted
<1>1. RunInv => EveryDeliveryCounted
  <2> SUFFICES ASSUME RunInv, report.printed, timely, timer = "aborted", \A s \in Subscribers : sub[s] = "ok"
               PROVE  /\ report.received >= report.acknowledged * NumSubscribers
                      /\ report.acknowledged + report.refused = report.published =>
                           report.received = report.acknowledged * NumSubscribers
    BY DEF EveryDeliveryCounted
  <2>1. /\ main = "reported" /\ report.received = received /\ report.published = published
        /\ report.acknowledged \in Nat /\ report.acknowledged <= acknowledged
        /\ report.refused \in Nat /\ report.refused <= refused
    BY DEF RunInv, Reported
  <2>2. Kept
    BY <2>1 DEF Kept
  <2>3. Cardinality(Counted) = received /\ \A s \in Subscribers : inbox[s] = 0
    BY <2>1, <2>2 DEF RunInv, Deliveries, Before
  <2>4. received = NumSubscribers * accepted
    BY <2>3, CountedFinite DEF RunInv
  <2>5. /\ accepted \in Nat /\ acknowledged \in Nat /\ refused \in Nat /\ published \in Nat
        /\ NumSubscribers \in Nat
    BY RunAssumption DEF RunInv, TypeOK
  <2>6. /\ Flights \in [Publishers -> Nat] /\ acks \in [Publishers -> Nat]
        /\ \A p \in Publishers : /\ Flights[p] = InFlight(p) /\ acks[p] \in Nat /\ acks[p] <= InFlight(p)
                                  /\ InFlight(p) \in Nat /\ InFlight(p) <= Count
    BY FlightTypes, AcksWithinCount DEF RunInv
  <2> DEFINE flying == Cardinality(Units(Flights))
             owed == Cardinality(Units(acks))
  <2>7. flying \in Nat /\ owed \in Nat
    BY <2>6, UnitsFinite
  <2>8. flying + acknowledged + refused = published /\ owed + acknowledged = accepted
    BY DEF RunInv, Answers
  <2>9. flying = 0 => owed = 0
    <3> SUFFICES ASSUME flying = 0 PROVE owed = 0
      OBVIOUS
    <3>1. \A p \in Publishers : Flights[p] = 0
      BY <2>6, UnitsFinite
    <3>2. \A p \in Publishers : acks[p] = 0
      BY <2>6, <3>1
    <3> QED
      BY <2>6, <3>2, UnitsFinite
  <2> HIDE DEF flying, owed
  <2>10. report.acknowledged <= accepted
    BY <2>1, <2>5, <2>7, <2>8
  <2>11. report.acknowledged * NumSubscribers <= received
    <3>1. report.acknowledged * NumSubscribers <= accepted * NumSubscribers
      BY <2>1, <2>5, <2>10
    <3>2. accepted * NumSubscribers = NumSubscribers * accepted
      BY <2>5
    <3> QED
      BY <2>4, <3>1, <3>2
  <2>12. received \in Nat /\ report.acknowledged * NumSubscribers \in Nat
    BY <2>1, <2>5 DEF RunInv, TypeOK
  <2>13. report.acknowledged + report.refused = report.published => accepted = report.acknowledged
    <3> SUFFICES ASSUME report.acknowledged + report.refused = published PROVE accepted = report.acknowledged
      BY <2>1
    <3>1. flying = 0 /\ acknowledged = report.acknowledged
      BY <2>1, <2>5, <2>7, <2>8
    <3> QED
      BY <2>5, <2>8, <2>9, <3>1
  <2>14. NumSubscribers * report.acknowledged = report.acknowledged * NumSubscribers
    BY <2>1, <2>5
  <2> QED
    BY <2>1, <2>4, <2>11, <2>12, <2>13, <2>14
<1> QED
  BY <1>1, RunInvariant, PTL

\* stats.rs takes its snapshot once every task has joined: after the report the only counters
\* that change are the two of complete_ack, for a message in flight of a publisher that returned
\* without joining its ack task.
THEOREM ReportFinal == Spec => ReportIsFinal
<1>1. RunInv /\ [Next]_vars => (report.printed => OnlyLateAnswers)
  <2> SUFFICES ASSUME RunInv, [Next]_vars, report.printed PROVE OnlyLateAnswers
    OBVIOUS
  <2>1. main = "reported"
    BY DEF RunInv, Reported
  <2>2. /\ \A p \in Publishers : pub[p] \in {"ok", "err"}
        /\ \A s \in Subscribers : sub[s] \in Ended
    BY <2>1, AllEnded DEF RunInv
  <2>3. ASSUME Main \/ DeadlineStop \/ UNCHANGED vars PROVE UNCHANGED counters
    BY <2>1, <2>3 DEF Main, SpawnPublishers, JoinPublishers, DrainElapsed, PrintReport, DeadlineStop, vars,
                      counters
  <2>4. ASSUME NEW s \in Subscribers, Subscriber(s) \/ BrokerAnswersSub(s) \/ SubLost(s)
        PROVE  UNCHANGED counters
    BY <2>2, <2>4 DEF Subscriber, BrokerAnswersSub, SubReceive, SubStop, SubConnect, BrokerSubscribes,
                      SubAck, SubLost, Ended
  <2>5. ASSUME NEW p \in Publishers,
               \/ Publisher(p) \/ PublisherWrites(p) \/ PubConnect(p) \/ PubLost(p)
               \/ AckTaskEnds(p) \/ BrokerAnswersPub(p)
        PROVE  UNCHANGED counters
    BY <2>2, <2>5 DEF Publisher, PublisherWrites, BrokerAnswersPub, PubLoop, PubAcquire, PubWrite,
                      PubWriteFails, PubReturns, PubGivesUp, PubLeaves, PubConnect, PubLost, AckTaskEnds,
                      BrokerAccepts, BrokerRefuses
  <2>6. ASSUME NEW p \in Publishers, AckTaskCounts(p)
        PROVE  OnlyLateAnswers
    <3>1. UNCHANGED <<published, received, pubErrors>> /\ detached[p]
      BY <2>2, <2>6 DEF AckTaskCounts, AckTaskReads
    <3>2. InFlight(p)' < InFlight(p)
      BY <2>6 DEF AckTaskCounts, InFlight, RunInv, TypeOK
    <3> QED
      BY <3>1, <3>2 DEF OnlyLateAnswers
  <2>7. UNCHANGED counters => OnlyLateAnswers
    BY DEF counters, OnlyLateAnswers
  <2> QED
    BY <2>3, <2>4, <2>5, <2>6, <2>7 DEF Next, Finished, AckTask, vars
<1>2. ReportIsFinal <=> [][report.printed => OnlyLateAnswers]_vars
  BY DEF ReportIsFinal
<1> QED
  BY <1>1, <1>2, RunInvariant, PTL DEF Spec
==============================================================================
