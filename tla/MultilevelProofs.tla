-------------------------- MODULE MultilevelProofs --------------------------
(***************************************************************************)
(* Theorems about MultilevelScheduler, for any threads, priorities and     *)
(* memory for nodes: the three queues stay separate lists whatever is      *)
(* popped, skipped and pushed, and none is passed over for longer than the *)
(* quotas of the others allow.                                             *)
(***************************************************************************)
EXTENDS QueueTurns, FiniteSetTheorems, SequenceTheorems, WellFoundedInduction, TLAPS

----------------------------------------------------------------------------
(* The turns of the queues.                                                *)

SpentType == spent \in [Priorities -> Nat] /\ \A p \in Priorities : spent[p] <= Quota(p)

\* A queue that has been passed over has waited for ticks of the present round,
\* or for a round before and for those the queues above it have had since.
WaitBounds ==
    LET H == "HIGH" N == "NORMAL" L == "LOW" IN
    /\ waited[H] > 0 => spent[H] = 6 /\ waited[H] <= spent[N] + spent[L]
    /\ \/ waited[N] = 0
       \/ waited[N] <= spent[H] + spent[L]
       \/ spent[N] = 0 /\ waited[N] <= 8 + spent[H]
    /\ \/ waited[L] = 0
       \/ waited[L] <= spent[H] + spent[N]
       \/ spent[L] = 0 /\ waited[L] <= 10 + spent[H] + spent[N]

TurnInv == SpentType /\ waited \in [Priorities -> Nat] /\ WaitBounds

LEMMA Quotas ==
    /\ Priorities = {"HIGH", "NORMAL", "LOW"}
    /\ "HIGH" # "NORMAL" /\ "HIGH" # "LOW" /\ "NORMAL" # "LOW"
    /\ Quota("HIGH") = 6 /\ Quota("NORMAL") = 3 /\ Quota("LOW") = 1
  BY DEF Priorities, Quota

LEMMA InitTurns == TurnsInit => TurnInv
  BY Quotas DEF TurnsInit, Init, NotWaited, TurnInv, SpentType, WaitBounds

\* The queue the timer takes: the first of those that have a turn, or the first
\* that has entries.
LEMMA HighestIs ==
    ASSUME NEW ps, ps \subseteq Priorities
    PROVE  /\ Highest(ps) \in Priorities
           /\ ps # {} => Highest(ps) \in ps
           /\ "HIGH" \in ps => Highest(ps) = "HIGH"
           /\ "NORMAL" \in ps /\ "HIGH" \notin ps => Highest(ps) = "NORMAL"
           /\ ps = {"LOW"} => Highest(ps) = "LOW"
           /\ Highest(ps) = "LOW" => "HIGH" \notin ps /\ "NORMAL" \notin ps
  BY Quotas DEF Highest

LEMMA TimerTurns ==
    ASSUME TurnInv, Psp_IRQ_SystemTimer, WaitsLonger
    PROVE  TurnInv'
<1> DEFINE H == "HIGH" N == "NORMAL" L == "LOW"
<1>1. /\ spent \in [Priorities -> Nat] /\ waited \in [Priorities -> Nat]
      /\ spent[H] <= 6 /\ spent[N] <= 3 /\ spent[L] <= 1
  BY Quotas DEF TurnInv, SpentType
<1>2. Turns \subseteq Priorities /\ Filled \subseteq Priorities
  BY DEF Turns, Filled
<1>3. \A p \in Priorities : waited'[p] = IF Waits(p) /\ priority' # p THEN waited[p] + 1 ELSE 0
  BY DEF WaitsLonger
<1>4. waited' \in [Priorities -> Nat]
  BY <1>1 DEF WaitsLonger
<1>5. ASSUME NEW p \in Priorities, Waits(p)
      PROVE  p \in Filled /\ (spent[p] < Quota(p) => p \in Turns)
  BY <1>5 DEF Waits, Filled, Turns, HasTurn
<1>6. CASE Turns # {}
  <2>1. /\ priority' = Highest(Turns) /\ Highest(Turns) \in Turns
        /\ spent' = [spent EXCEPT ![Highest(Turns)] = @ + 1]
    BY <1>2, <1>6, HighestIs DEF Psp_IRQ_SystemTimer, SpentAfter
  <2>2. PICK p \in Priorities : p = Highest(Turns)
    BY <1>2, <2>1
  <2>3. spent[p] < Quota(p)
    BY <2>1, <2>2 DEF Turns, HasTurn
  <2>4. SpentType'
    BY <1>1, <2>1, <2>2, <2>3, Quotas DEF SpentType
  <2>5. CASE p = H
    <3>1. spent'[H] = spent[H] + 1 /\ spent'[N] = spent[N] /\ spent'[L] = spent[L] /\ spent[H] < 6
      BY <1>1, <2>1, <2>2, <2>3, <2>5, Quotas
    <3>2. waited'[H] = 0 /\ waited'[N] \in {0, waited[N] + 1} /\ waited'[L] \in {0, waited[L] + 1}
      BY <1>3, <2>1, <2>2, <2>5, Quotas
    <3>3. WaitBounds'
      BY <1>1, <3>1, <3>2, Quotas DEF TurnInv, WaitBounds
    <3> QED
      BY <1>4, <2>4, <3>3 DEF TurnInv
  <2>6. CASE p = N
    <3>1. spent'[H] = spent[H] /\ spent'[N] = spent[N] + 1 /\ spent'[L] = spent[L] /\ spent[N] < 3
      BY <1>1, <2>1, <2>2, <2>3, <2>6, Quotas
    <3>2. waited'[H] \in {0, waited[H] + 1} /\ waited'[N] = 0 /\ waited'[L] \in {0, waited[L] + 1}
      BY <1>3, <2>1, <2>2, <2>6, Quotas
    <3>3. waited'[H] # 0 => spent[H] = 6
      <4>1. H \notin Turns
        BY <1>2, <2>2, <2>6, HighestIs, Quotas
      <4>2. waited'[H] # 0 => Waits(H)
        BY <1>3, Quotas
      <4> QED
        BY <1>1, <1>5, <4>1, <4>2, Quotas
    <3>4. WaitBounds'
      BY <1>1, <3>1, <3>2, <3>3, Quotas DEF TurnInv, WaitBounds
    <3> QED
      BY <1>4, <2>4, <3>4 DEF TurnInv
  <2>7. CASE p = L
    <3>1. spent'[H] = spent[H] /\ spent'[N] = spent[N] /\ spent'[L] = spent[L] + 1 /\ spent[L] = 0
      BY <1>1, <2>1, <2>2, <2>3, <2>7, Quotas
    <3>2. waited'[H] \in {0, waited[H] + 1} /\ waited'[N] \in {0, waited[N] + 1} /\ waited'[L] = 0
      BY <1>3, <2>1, <2>2, <2>7, Quotas
    <3>3. (waited'[H] # 0 => spent[H] = 6) /\ (waited'[N] # 0 => spent[N] = 3)
      <4>1. H \notin Turns /\ N \notin Turns
        BY <1>2, <2>2, <2>7, HighestIs, Quotas
      <4>2. (waited'[H] # 0 => Waits(H)) /\ (waited'[N] # 0 => Waits(N))
        BY <1>3, Quotas
      <4> QED
        BY <1>1, <1>5, <4>1, <4>2, Quotas
    <3>4. WaitBounds'
      BY <1>1, <3>1, <3>2, <3>3, Quotas DEF TurnInv, WaitBounds
    <3> QED
      BY <1>4, <2>4, <3>4 DEF TurnInv
  <2> QED
    BY <2>5, <2>6, <2>7, Quotas
<1>7. CASE Turns = {}
  <2>1. priority' = Highest(Filled) /\ spent' = [r \in Priorities |-> 0]
    BY <1>7 DEF Psp_IRQ_SystemTimer, SpentAfter
  <2>2. SpentType' /\ spent'[H] = 0 /\ spent'[N] = 0 /\ spent'[L] = 0
    BY <2>1, Quotas DEF SpentType
  <2>3. \A q \in Priorities : waited'[q] \in {0, waited[q] + 1}
    BY <1>3
  <2>4. waited'[H] = 0
    <3>1. H \in Filled => priority' = H
      BY <1>2, <2>1, HighestIs
    <3> QED
      BY <1>3, <1>5, <3>1, Quotas
\* Who waits when a new round begins has had all its ticks of the last one.
  <2>5. waited'[N] # 0 => spent[N] = 3
    BY <1>1, <1>3, <1>5, <1>7, Quotas
  <2>6. waited'[L] # 0 => spent[L] = 1
    BY <1>1, <1>3, <1>5, <1>7, Quotas
  <2>7. WaitBounds'
    BY <1>1, <2>2, <2>3, <2>4, <2>5, <2>6, Quotas DEF TurnInv, WaitBounds
  <2> QED
    BY <1>4, <2>2, <2>7 DEF TurnInv
<1> QED
  BY <1>6, <1>7

LEMMA YieldTurns ==
    ASSUME TurnInv, PspSoftTaskSW, WaitsOn
    PROVE  TurnInv'
<1>1. spent' = spent
  BY DEF PspSoftTaskSW
<1>2. waited' \in [Priorities -> Nat] /\ \A p \in Priorities : waited'[p] \in {0, waited[p]}
  BY DEF TurnInv, WaitsOn
<1>3. WaitBounds'
  <2>1. /\ waited'["HIGH"] \in {0, waited["HIGH"]}
        /\ waited'["NORMAL"] \in {0, waited["NORMAL"]}
        /\ waited'["LOW"] \in {0, waited["LOW"]}
    BY <1>2, Quotas
  <2> QED
    BY <1>1, <2>1 DEF TurnInv, WaitBounds
<1> QED
  BY <1>1, <1>2, <1>3 DEF TurnInv, SpentType

\* A queue that has entries is passed over for a bounded number of ticks, however
\* the queues empty and fill and the threads yield in between.
THEOREM TurnCorrect == TurnsSpec => []TurnComes
<1>1. TurnInv /\ [TurnsNext]_<<vars, waited>> => TurnInv'
  <2> SUFFICES ASSUME TurnInv, [TurnsNext]_<<vars, waited>> PROVE TurnInv'
    OBVIOUS
  <2>1. CASE TurnsNext
    BY <2>1, YieldTurns, TimerTurns DEF TurnsNext, CountedTimer
  <2>2. CASE UNCHANGED <<vars, waited>>
    BY <2>2 DEF vars, TurnInv, SpentType, WaitBounds
  <2> QED
    BY <2>1, <2>2
<1>2. TurnInv => TurnComes
  <2> SUFFICES ASSUME TurnInv PROVE TurnComes
    OBVIOUS
  <2>1. /\ spent["HIGH"] \in Nat /\ spent["NORMAL"] \in Nat /\ spent["LOW"] \in Nat
        /\ waited["HIGH"] \in Nat /\ waited["NORMAL"] \in Nat /\ waited["LOW"] \in Nat
        /\ spent["HIGH"] <= 6 /\ spent["NORMAL"] <= 3 /\ spent["LOW"] <= 1
    BY Quotas DEF TurnInv, SpentType
  <2> QED
    BY <2>1 DEF TurnInv, WaitBounds, TurnComes
<1> QED
  BY <1>1, <1>2, InitTurns, PTL DEF TurnsSpec

----------------------------------------------------------------------------
(* Numbers and sets of numbers.                                            *)

\* Every set of natural numbers that is not empty has a least member: of the
\* intervals that end in it, one has no other inside it.
LEMMA LeastNumber ==
    ASSUME NEW X, X \subseteq Nat, X # {}
    PROVE  \E m \in X : \A y \in X : m <= y
<1> DEFINE Upto == {0 .. x : x \in X}
<1>1. Upto \subseteq FiniteSubsetsOf(Nat)
  <2> SUFFICES ASSUME NEW x \in X PROVE 0 .. x \in FiniteSubsetsOf(Nat)
    OBVIOUS
  <2>1. IsFiniteSet(0 .. x) /\ 0 .. x \subseteq Nat
    BY FS_Interval
  <2> QED
    BY <2>1 DEF FiniteSubsetsOf
<1>2. Upto # {}
  OBVIOUS
<1>3. IsWellFoundedOn(StrictSubsetOrdering(Nat), FiniteSubsetsOf(Nat))
  BY FS_StrictSubsetOrderingWellFounded
<1> HIDE DEF Upto
<1>4. PICK I \in Upto : \A J \in Upto : ~ (<<J, I>> \in StrictSubsetOrdering(Nat))
  BY <1>1, <1>2, <1>3, WFMin, Zenon
<1>5. PICK m \in X : I = 0 .. m
  BY DEF Upto
<1>6. ASSUME NEW y \in X, y < m PROVE FALSE
  <2>1. 0 .. y \in Upto
    BY DEF Upto
  <2>2. 0 .. y \subseteq 0 .. m /\ 0 .. m \subseteq Nat /\ m \notin 0 .. y /\ m \in 0 .. m
    BY <1>6
  <2>3. <<0 .. y, 0 .. m>> \in StrictSubsetOrdering(Nat)
    BY <2>2 DEF StrictSubsetOrdering
  <2> QED
    BY <1>4, <1>5, <2>1, <2>3
<1> QED
  BY <1>6

LEMMA MinIs ==
    ASSUME NEW X, X \subseteq Nat, X # {}
    PROVE  Min(X) \in X /\ \A y \in X : Min(X) <= y
  BY LeastNumber DEF Min

\* What goes round a list of n comes to each of its places.
LEMMA RoundTo ==
    ASSUME NEW n \in Nat, NEW i \in 1 .. n, NEW j \in 1 .. n
    PROVE  \E k \in 1 .. n : ((i + k - 1) % n) + 1 = j
<1>1. CASE j > i
  <2>1. j - i \in 1 .. n /\ i + (j - i) - 1 = j - 1 /\ j - 1 \in 0 .. (n - 1)
    BY <1>1
  <2>2. (j - 1) % n = j - 1
    BY <2>1
  <2>3. ((i + (j - i) - 1) % n) + 1 = j
    BY <2>1, <2>2
  <2> QED
    BY <2>1, <2>3
<1>2. CASE ~(j > i)
  <2>1. n - i + j \in 1 .. n /\ i + (n - i + j) - 1 = n + (j - 1) /\ j - 1 \in 0 .. (n - 1)
    BY <1>2
  <2>2. (n + (j - 1)) % n = j - 1
    BY <2>1
  <2>3. ((i + (n - i + j) - 1) % n) + 1 = j
    BY <2>1, <2>2
  <2> QED
    BY <2>1, <2>3
<1> QED
  BY <1>1, <1>2

LEMMA RoundIn ==
    ASSUME NEW n \in Nat \ {0}, NEW a \in Nat
    PROVE  (a % n) + 1 \in 1 .. n
<1>1. a % n \in 0 .. (n - 1)
  OBVIOUS
<1> QED
  BY <1>1

----------------------------------------------------------------------------
(* The threads.                                                            *)

Running == Started \cup {Idle}

\* Only threads that were started, and the idle thread, are runnable, and they
\* always are.
StatusInv ==
    /\ thread_status \in [Threads -> {"STOP", "READY", "RUNNING"}]
    /\ current \in Running
    /\ \A t \in Threads : IsRunnable(t) <=> t \in Running

LEMMA ThreadsAre ==
    /\ Order \in Seq(Threads) /\ Len(Order) \in Nat \ {0}
    /\ Running \subseteq Queued /\ Queued \subseteq Threads /\ Idle \in Threads
    /\ Idle \notin Started /\ Yielding \subseteq Running
    /\ \A t \in Threads : PriorityOf[t] \in Priorities
    /\ \A i \in 1 .. Len(Order) : Order[i] \in Threads
    /\ \A t \in Threads : \E i \in 1 .. Len(Order) : Order[i] = t
    /\ \A i, j \in 1 .. Len(Order) : Order[i] = Order[j] => i = j
<1>1. Order \in Seq(Threads) /\ DOMAIN Order = 1 .. Len(Order) /\ Len(Order) \in Nat
  BY SchedulerAssumption, LenProperties
<1>2. /\ \A i \in 1 .. Len(Order) : Order[i] \in Threads
      /\ \A t \in Threads : \E i \in 1 .. Len(Order) : Order[i] = t
  BY <1>1 DEF Threads
<1>3. /\ Running \subseteq Queued /\ Queued \subseteq Threads /\ Idle \in Threads
      /\ Idle \notin Started /\ Yielding \subseteq Running
      /\ \A t \in Threads : PriorityOf[t] \in Priorities
      /\ \A i, j \in 1 .. Len(Order) : Order[i] = Order[j] => i = j
  BY <1>1, SchedulerAssumption DEF Running
<1>4. Len(Order) # 0
  BY <1>1, <1>2, <1>3
<1> QED
  BY <1>1, <1>2, <1>3, <1>4

LEMMA InitStatus == Init => StatusInv
<1> SUFFICES ASSUME Init PROVE StatusInv
  OBVIOUS
<1>1. thread_status = [t \in Threads |-> IF t = Idle THEN "RUNNING"
                                         ELSE IF t \in Started THEN "READY" ELSE "STOP"]
  BY ThreadsAre DEF Init
<1>2. \A t \in Threads : IsRunnable(t) <=> t \in Running
  BY <1>1 DEF IsRunnable, Running
<1> QED
  BY <1>1, <1>2 DEF Init, StatusInv, Running

\* The search finds a runnable thread wherever it begins.
LEMMA NextIsRunning ==
    ASSUME StatusInv, NEW t \in Threads
    PROVE  NextRunnable(t) \in Running
<1> DEFINE n == Len(Order)
           i == PositionOf(t)
           found == {k \in 1 .. n : IsRunnable(After(t, k))}
<1>1. n \in Nat \ {0} /\ i \in 1 .. n
  <2>1. DOMAIN Order = 1 .. n /\ n \in Nat \ {0}
    BY ThreadsAre, LenProperties
  <2>2. \E j \in DOMAIN Order : Order[j] = t
    BY <2>1, ThreadsAre
  <2> QED
    BY <2>1, <2>2, Zenon DEF PositionOf
<1>2. \A k \in 1 .. n : After(t, k) \in Threads
  <2> SUFFICES ASSUME NEW k \in 1 .. n PROVE Order[((i + k - 1) % n) + 1] \in Threads
    BY DEF After
  <2> HIDE DEF n, i
  <2>1. i + k - 1 \in Nat
    BY <1>1
  <2>2. ((i + k - 1) % n) + 1 \in 1 .. n
    BY <1>1, <2>1, RoundIn
  <2> QED
    BY <2>2, ThreadsAre DEF n
<1>3. found # {}
  <2>1. PICK j \in 1 .. n : Order[j] = current
    BY ThreadsAre DEF StatusInv
  <2>2. PICK k \in 1 .. n : ((i + k - 1) % n) + 1 = j
    BY <1>1, RoundTo
  <2>3. After(t, k) = current
    BY <2>1, <2>2 DEF After
  <2>4. IsRunnable(current)
    BY ThreadsAre DEF StatusInv
  <2> QED
    BY <2>3, <2>4
<1>4. Min(found) \in found
  BY <1>1, <1>3, MinIs
<1> QED
  BY <1>2, <1>4 DEF NextRunnable, StatusInv

LEMMA SwitchStatus ==
    ASSUME StatusInv, NEW next \in Running, NEW runs \in BOOLEAN, current' = next,
           thread_status' = [thread_status EXCEPT ![current] =
               IF next # current THEN "RUNNING" ELSE IF runs THEN "READY" ELSE @]
    PROVE  StatusInv'
<1>1. current \in Threads /\ IsRunnable(current)
  BY ThreadsAre DEF StatusInv
<1>2. /\ thread_status' \in [Threads -> {"STOP", "READY", "RUNNING"}]
      /\ thread_status'[current] \in {"READY", "RUNNING"}
      /\ \A t \in Threads : t # current => thread_status'[t] = thread_status[t]
  BY <1>1 DEF StatusInv, IsRunnable
<1>3. \A t \in Threads : (thread_status'[t] \in {"READY", "RUNNING"}) <=> t \in Running
  BY <1>1, <1>2 DEF StatusInv, IsRunnable
<1> QED
  BY <1>2, <1>3 DEF StatusInv, IsRunnable

----------------------------------------------------------------------------
(* The queues as lists.                                                    *)

NodeRecord == [next : Nodes \cup {NULL}, thread : Threads]

QueueType(q) ==
    /\ q = [front |-> q.front, end |-> q.end, count |-> q.count, node |-> q.node]
    /\ q.front \in [Priorities -> Nodes \cup {NULL}]
    /\ q.end \in [Priorities -> Nodes \cup {NULL}]
    /\ q.count \in [Priorities -> Nat]
    /\ q.node \in [InUse(q) -> NodeRecord]
    /\ InUse(q) \subseteq Nodes

\* The list s is what a walk from the front of queue p meets.
Chain(q, p, s) ==
    /\ s \in Seq(InUse(q)) /\ Len(s) <= q.count[p]
    /\ s = << >> => q.front[p] = NULL
    /\ s # << >> => q.front[p] = s[1] /\ q.node[s[Len(s)]].next = NULL
    /\ \A i \in 1 .. Len(s) - 1 : q.node[s[i]].next = s[i + 1]

\* No node is at two places.
Apart(L) ==
    \A p, r \in Priorities : \A i \in 1 .. Len(L[p]), j \in 1 .. Len(L[r]) :
        L[p][i] = L[r][j] => p = r /\ i = j

\* A node in use that no walk meets: linked behind address zero, or behind
\* another such node.
Loose(q, L, n) ==
    n \in InUse(q) /\ \A p \in Priorities : \A i \in 1 .. Len(L[p]) : L[p][i] # n

EndsAtLast(q, L, p) == Len(L[p]) > 0 => q.end[p] = L[p][Len(L[p])]

AreLists(q, L) ==
    /\ QueueType(q)
    /\ L \in [Priorities -> Seq(InUse(q))]
    /\ \A p \in Priorities : Chain(q, p, L[p])
    /\ Apart(L)
    /\ \A p \in Priorities : EndsAtLast(q, L, p) \/ q.end[p] = NULL \/ Loose(q, L, q.end[p])

\* What holds besides as long as no memory for a node is refused.
Complete(q, L) ==
    /\ \A p \in Priorities : Len(L[p]) = q.count[p] /\ EndsAtLast(q, L, p)
    /\ \A n \in InUse(q) : \E p \in Priorities : \E i \in 1 .. Len(L[p]) : L[p][i] = n

LEMMA NodesAre == Nodes \subseteq Nat /\ NULL \notin Nodes
  BY SchedulerAssumption DEF Nodes, NULL

\* What NodesOf computes is the list: the walk meets its nodes and then NULL, and
\* two walks from the same front do not part.
LEMMA NodesOfIs ==
    ASSUME NEW q, NEW p \in Priorities, NEW s, QueueType(q), Chain(q, p, s)
    PROVE  NodesOf(q, p) = s
<1> DEFINE n == q.count[p]
           Step(w, i) == IF i = 1 THEN q.front[p]
                         ELSE IF w[i - 1] = NULL THEN NULL ELSE q.node[w[i - 1]].next
           Walk(w) == w = [i \in 1 .. n |-> Step(w, i)]
           met == [i \in 1 .. n |-> IF i <= Len(s) THEN s[i] ELSE NULL]
<1>1. /\ s \in Seq(InUse(q)) /\ Len(s) \in Nat /\ Len(s) <= n /\ n \in Nat
      /\ DOMAIN s = 1 .. Len(s) /\ s = [i \in 1 .. Len(s) |-> s[i]]
  BY LenProperties DEF Chain, QueueType
<1>2. \A i \in 1 .. Len(s) : s[i] \in Nodes /\ s[i] # NULL
  BY <1>1, ElementOfSeq, NodesAre DEF QueueType
<1>3. ASSUME NEW i \in 1 .. n PROVE met[i] = Step(met, i)
  <2>1. CASE i = 1
    <3>1. (s = << >>) <=> (Len(s) = 0)
      BY <1>1, EmptySeq
    <3>2. Len(s) = 0 => q.front[p] = NULL
      BY <3>1 DEF Chain
    <3>3. Len(s) # 0 => q.front[p] = s[1]
      BY <3>1 DEF Chain
    <3> QED
      BY <1>1, <2>1, <3>2, <3>3
  <2>2. CASE i # 1
    <3>1. i - 1 \in 1 .. n /\ (i - 1) + 1 = i
      BY <1>1, <2>2
    <3>2. CASE i <= Len(s)
      <4>1. i - 1 \in 1 .. Len(s) - 1 /\ i - 1 \in 1 .. Len(s)
        BY <1>1, <2>2, <3>2
      <4>2. q.node[s[i - 1]].next = s[i]
        BY <3>1, <4>1 DEF Chain
      <4>3. met[i - 1] = s[i - 1] /\ s[i - 1] # NULL
        BY <1>2, <3>1, <4>1
      <4> QED
        BY <2>2, <3>2, <4>2, <4>3
    <3>3. CASE i - 1 = Len(s)
      <4>1. Len(s) \in 1 .. Len(s) /\ s # << >>
        BY <1>1, <3>1, <3>3, EmptySeq
      <4>2. q.node[s[i - 1]].next = NULL
        BY <3>3, <4>1 DEF Chain
      <4>3. met[i - 1] = s[i - 1] /\ s[i - 1] # NULL
        BY <1>2, <3>1, <3>3, <4>1
      <4>4. met[i] = NULL
        BY <1>1, <3>3
      <4> QED
        BY <2>2, <4>2, <4>3, <4>4
    <3>4. CASE i - 1 > Len(s)
      <4>1. met[i - 1] = NULL /\ met[i] = NULL
        BY <1>1, <3>1, <3>4
      <4> QED
        BY <2>2, <4>1
    <3> QED
      BY <1>1, <3>1, <3>2, <3>3, <3>4
  <2> QED
    BY <2>1, <2>2
<1>4. DOMAIN met = 1 .. n /\ met = [i \in 1 .. n |-> met[i]]
  OBVIOUS
<1>5. Walk(met)
  <2> HIDE DEF met, Step
  <2> QED
    BY <1>3, <1>4
<1>6. ASSUME NEW w, Walk(w) PROVE w = met
  <2> DEFINE Parted == {i \in 1 .. n : w[i] # met[i]}
  <2>1. DOMAIN w = 1 .. n /\ w = [i \in 1 .. n |-> w[i]]
    BY <1>6
  <2> HIDE DEF met
  <2>2. CASE Parted = {}
    BY <1>4, <2>1, <2>2
  <2>3. CASE Parted # {}
    <3>1. Parted \subseteq Nat
      BY <1>1
    <3>2. \E m \in Parted : \A y \in Parted : m <= y
      <4> HIDE DEF Parted
      <4> QED
        BY <2>3, <3>1, LeastNumber
    <3>3. PICK m \in Parted : \A y \in Parted : m <= y
      BY <3>2
    <3>4. m \in 1 .. n /\ w[m] # met[m]
      BY <3>3
    <3>5. w[m] = Step(w, m)
      <4>1. \A i \in 1 .. n : w[i] = [j \in 1 .. n |-> Step(w, j)][i]
        BY <1>6, Zenon
      <4> HIDE DEF Step
      <4>2. \A i \in 1 .. n : w[i] = Step(w, i)
        BY <4>1
      <4> QED
        BY <3>4, <4>2
    <3>6. met[m] = Step(met, m)
      BY <1>3, <3>4
    <3>7. m # 1 => w[m - 1] = met[m - 1]
      BY <1>1, <3>3, <3>4
    <3> QED
      BY <3>4, <3>5, <3>6, <3>7
  <2> QED
    BY <2>2, <2>3
<1> DEFINE at == CHOOSE w : Walk(w)
           ends(w) == {k \in 0 .. n : k < n => w[k + 1] = NULL}
<1>7. NodesOf(q, p) = [i \in 1 .. Min(ends(at)) |-> at[i]]
  BY Zenon DEF NodesOf
<1>8. at = met
  <2> HIDE DEF Walk, met
  <2> QED
    BY <1>5, <1>6
<1>9. Min(ends(met)) = Len(s)
  <2>1. Len(s) \in ends(met)
    BY <1>1
  <2>2. ASSUME NEW k \in ends(met), k < Len(s) PROVE FALSE
    <3>1. k \in 0 .. n /\ k + 1 \in 1 .. Len(s) /\ k + 1 \in 1 .. n /\ k < n
      BY <1>1, <2>2
    <3>2. met[k + 1] = s[k + 1] /\ s[k + 1] # NULL
      BY <1>2, <3>1
    <3> QED
      BY <2>2, <3>1, <3>2
  <2>3. ends(met) \subseteq Nat
    BY <1>1
  <2> HIDE DEF ends
  <2>4. Min(ends(met)) \in ends(met) /\ \A y \in ends(met) : Min(ends(met)) <= y
    BY <2>1, <2>3, MinIs
  <2> QED
    BY <1>1, <2>1, <2>2, <2>3, <2>4
<1>10. NodesOf(q, p) = [i \in 1 .. Len(s) |-> met[i]]
  <2> HIDE DEF at, met, ends
  <2> QED
    BY <1>7, <1>8, <1>9
<1>11. ASSUME NEW i \in 1 .. Len(s) PROVE met[i] = s[i]
  BY <1>1
<1> HIDE DEF met
<1> QED
  BY <1>1, <1>10, <1>11

\* The first loop of the search stops at an entry of a runnable thread or at the
\* end of the queue.
LEMMA SkippedIs ==
    ASSUME NEW q, NEW p \in Priorities, NEW s, QueueType(q), Chain(q, p, s)
    PROVE  /\ Skipped(q, p) \in 0 .. Len(s)
           /\ HasEntry(q, p) <=> Skipped(q, p) < Len(s)
<1>1. NodesOf(q, p) = s /\ Len(s) \in Nat
  BY NodesOfIs, LenProperties DEF Chain
<1> DEFINE stops == {i \in 0 .. Len(s) : i < Len(s) => IsRunnable(q.node[s[i + 1]].thread)}
<1>2. Skipped(q, p) = Min(stops)
  BY <1>1 DEF Skipped
<1>3. Len(s) \in stops /\ stops \subseteq Nat
  BY <1>1
<1>4. Min(stops) \in stops
  BY <1>3, MinIs
<1> QED
  BY <1>1, <1>2, <1>4 DEF HasEntry

\* What the lists of a good structure have, one at a time.
LEMMA ListFacts ==
    ASSUME NEW q, NEW L, AreLists(q, L), NEW p \in Priorities
    PROVE  /\ L[p] \in Seq(InUse(q)) /\ Len(L[p]) \in Nat /\ Len(L[p]) <= q.count[p]
           /\ DOMAIN L[p] = 1 .. Len(L[p])
           /\ \A i \in 1 .. Len(L[p]) : L[p][i] \in InUse(q)
           /\ IsEmpty(q, p) <=> Len(L[p]) = 0
           /\ Len(L[p]) > 0 => q.front[p] = L[p][1] /\ q.node[L[p][Len(L[p])]].next = NULL
           /\ \A i \in 1 .. Len(L[p]) - 1 : q.node[L[p][i]].next = L[p][i + 1]
<1>1. Chain(q, p, L[p])
  BY DEF AreLists
<1>2. L[p] \in Seq(InUse(q)) /\ Len(L[p]) \in Nat /\ Len(L[p]) <= q.count[p]
  BY <1>1, LenProperties DEF Chain
<1>3. DOMAIN L[p] = 1 .. Len(L[p]) /\ \A i \in 1 .. Len(L[p]) : L[p][i] \in InUse(q)
  BY <1>2, LenProperties, ElementOfSeq
<1>4. L[p] = << >> <=> Len(L[p]) = 0
  BY <1>2, EmptySeq
<1>5. Len(L[p]) > 0 => q.front[p] = L[p][1] /\ q.node[L[p][Len(L[p])]].next = NULL
  BY <1>1, <1>2, <1>4 DEF Chain
<1>6. IsEmpty(q, p) <=> Len(L[p]) = 0
  <2>1. CASE Len(L[p]) = 0
    BY <1>1, <1>4, <2>1 DEF Chain, IsEmpty
  <2>2. CASE Len(L[p]) # 0
    <3>1. 1 \in 1 .. Len(L[p])
      BY <1>2, <2>2
    <3>2. L[p][1] \in Nodes
      BY <1>3, <3>1 DEF AreLists, QueueType
    <3>3. q.front[p] \in Nodes
      BY <1>2, <1>5, <2>2, <3>2
    <3> QED
      BY <2>2, <3>3, NodesAre DEF IsEmpty
  <2> QED
    BY <2>1, <2>2
<1>7. \A i \in 1 .. Len(L[p]) - 1 : q.node[L[p][i]].next = L[p][i + 1]
  BY <1>1 DEF Chain
<1> QED
  BY <1>2, <1>3, <1>5, <1>6, <1>7

\* The same facts make a chain.
LEMMA ChainFrom ==
    ASSUME NEW q, NEW p, NEW s \in Seq(InUse(q)), Len(s) <= q.count[p],
           Len(s) = 0 => q.front[p] = NULL,
           Len(s) > 0 => q.front[p] = s[1] /\ q.node[s[Len(s)]].next = NULL,
           \A i \in 1 .. Len(s) - 1 : q.node[s[i]].next = s[i + 1]
    PROVE  Chain(q, p, s)
<1>1. Len(s) \in Nat
  BY LenProperties
<1>2. s = << >> <=> Len(s) = 0
  BY EmptySeq
<1> QED
  BY <1>1, <1>2 DEF Chain

\* The lists give what the property says of the queues.
LEMMA ListsAreQueues ==
    ASSUME NEW L, AreLists(queues, L), refused \/ Complete(queues, L), TypeOK
    PROVE  QueuesAreLists
<1>1. ASSUME NEW p \in Priorities
      PROVE  /\ NodesOf(queues, p) = L[p] /\ L[p] \in Seq(InUse(queues))
             /\ Len(L[p]) \in Nat /\ DOMAIN L[p] = 1 .. Len(L[p])
             /\ ToSet(L[p]) = {L[p][i] : i \in 1 .. Len(L[p])}
             /\ L[p] = << >> <=> Len(L[p]) = 0
  <2>1. Chain(queues, p, L[p]) /\ QueueType(queues)
    BY DEF AreLists
  <2>2. NodesOf(queues, p) = L[p]
    BY <2>1, NodesOfIs
  <2>3. L[p] \in Seq(InUse(queues)) /\ Len(L[p]) \in Nat /\ DOMAIN L[p] = 1 .. Len(L[p])
    BY ListFacts
  <2>4. L[p] = << >> <=> Len(L[p]) = 0
    BY <2>3, EmptySeq
  <2> QED
    BY <2>2, <2>3, <2>4 DEF ToSet
<1>2. ASSUME NEW p \in Priorities
      PROVE  /\ IsEmpty(queues, p) <=> L[p] = << >>
             /\ IsInjective(L[p])
             /\ ToSet(L[p]) \subseteq InUse(queues)
             /\ L[p] # << >> => queues.node[Last(L[p])].next = NULL
  <2>1. IsEmpty(queues, p) <=> L[p] = << >>
    BY <1>1, ListFacts
  <2>2. IsInjective(L[p])
    <3>1. \A i, j \in 1 .. Len(L[p]) : L[p][i] = L[p][j] => i = j
      BY DEF AreLists, Apart
    <3> QED
      BY <1>1, <3>1 DEF IsInjective
  <2>3. ToSet(L[p]) \subseteq InUse(queues)
    <3>1. \A i \in 1 .. Len(L[p]) : L[p][i] \in InUse(queues)
      BY ListFacts
    <3>2. ToSet(L[p]) = {L[p][i] : i \in 1 .. Len(L[p])}
      BY <1>1
    <3> QED
      BY <3>1, <3>2
  <2>4. ASSUME L[p] # << >> PROVE queues.node[Last(L[p])].next = NULL
    <3>1. Len(L[p]) > 0
      BY <1>1, <2>4
    <3> QED
      BY <3>1, ListFacts DEF Last
  <2> QED
    BY <2>1, <2>2, <2>3, <2>4, Zenon
<1>3. ASSUME NEW p \in Priorities, NEW r \in Priorities, p # r
      PROVE  ToSet(L[p]) \cap ToSet(L[r]) = {}
  <2>1. \A i \in 1 .. Len(L[p]), j \in 1 .. Len(L[r]) : L[p][i] # L[r][j]
    BY <1>3 DEF AreLists, Apart
  <2>2. /\ ToSet(L[p]) = {L[p][i] : i \in 1 .. Len(L[p])}
        /\ ToSet(L[r]) = {L[r][i] : i \in 1 .. Len(L[r])}
    BY <1>1, Zenon
  <2> QED
    BY <2>1, <2>2
<1>4. ASSUME Complete(queues, L), NEW p \in Priorities
      PROVE  Len(L[p]) = queues.count[p] /\ (L[p] # << >> => Last(L[p]) = queues.end[p])
  <2>1. Len(L[p]) = queues.count[p]
    BY <1>4 DEF Complete
  <2>2. ASSUME L[p] # << >> PROVE Last(L[p]) = queues.end[p]
    <3>1. Len(L[p]) > 0
      BY <1>1, <2>2
    <3> QED
      BY <1>4, <3>1 DEF Complete, EndsAtLast, Last
  <2> QED
    BY <2>1, <2>2
<1>5. ASSUME Complete(queues, L)
      PROVE  InUse(queues) = UNION {ToSet(L[p]) : p \in Priorities}
  <2>1. ASSUME NEW n \in InUse(queues) PROVE \E p \in Priorities : n \in ToSet(L[p])
    <3>1. PICK p \in Priorities : \E i \in 1 .. Len(L[p]) : L[p][i] = n
      BY <1>5 DEF Complete
    <3>2. ToSet(L[p]) = {L[p][i] : i \in 1 .. Len(L[p])}
      BY <1>1
    <3> QED
      BY <3>1, <3>2
  <2>2. \A p \in Priorities : ToSet(L[p]) \subseteq InUse(queues)
    BY <1>2
  <2> QED
    BY <2>1, <2>2
<1>6. \A p \in Priorities : NodesOf(queues, p) = L[p]
  BY <1>1
<1>7. ASSUME NEW p \in Priorities, ~refused
      PROVE  Len(NodesOf(queues, p)) = queues.count[p]
             /\ (NodesOf(queues, p) # << >> => Last(NodesOf(queues, p)) = queues.end[p])
  <2>1. Complete(queues, L)
    BY <1>7, Zenon
  <2> QED
    BY <1>4, <1>6, <2>1
<1>8. ASSUME ~refused
      PROVE  InUse(queues) = UNION {ToSet(NodesOf(queues, p)) : p \in Priorities}
  <2>1. Complete(queues, L)
    BY <1>8, Zenon
  <2> QED
    BY <1>5, <1>6, <2>1
<1>9. ASSUME NEW p \in Priorities
      PROVE  /\ IsEmpty(queues, p) <=> NodesOf(queues, p) = << >>
             /\ IsInjective(NodesOf(queues, p)) /\ ToSet(NodesOf(queues, p)) \subseteq InUse(queues)
             /\ NodesOf(queues, p) # << >> => queues.node[Last(NodesOf(queues, p))].next = NULL
  BY <1>2, <1>6
<1>10. ASSUME NEW p \in Priorities, NEW r \in Priorities, p # r
       PROVE  ToSet(NodesOf(queues, p)) \cap ToSet(NodesOf(queues, r)) = {}
  BY <1>3, <1>6, <1>10
<1> QED
  BY <1>7, <1>8, <1>9, <1>10, Zenon DEF QueuesAreLists

\* What an entry pushed with the memory n changes.
Pushed(e, q, p, t, n) ==
    /\ e.count = [q.count EXCEPT ![p] = @ + 1] /\ e.end = [q.end EXCEPT ![p] = n]
    /\ e.front = [q.front EXCEPT ![p] = IF IsEmpty(q, p) THEN n ELSE @]
    /\ e.node = [m \in InUse(q) \cup ({n} \ {NULL}) |->
                 IF m = n THEN [next |-> NULL, thread |-> t]
                 ELSE IF m = q.end[p] /\ ~IsEmpty(q, p) THEN [q.node[m] EXCEPT !.next = n]
                 ELSE q.node[m]]
    /\ InUse(e) = InUse(q) \cup ({n} \ {NULL})
    /\ QueueType(e)

LEMMA LinkedIs ==
    ASSUME NEW q, QueueType(q), NEW p \in Priorities, NEW t \in Threads,
           NEW n \in (Nodes \ InUse(q)) \cup {NULL}
    PROVE  Pushed(Linked(q, p, t, n, IsEmpty(q, p)), q, p, t, n)
<1> PICK e : e = Linked(q, p, t, n, IsEmpty(q, p))
  OBVIOUS
<1>1. /\ q = [front |-> q.front, end |-> q.end, count |-> q.count, node |-> q.node]
      /\ q.front \in [Priorities -> Nodes \cup {NULL}] /\ q.end \in [Priorities -> Nodes \cup {NULL}]
      /\ q.count \in [Priorities -> Nat] /\ q.node \in [InUse(q) -> NodeRecord]
      /\ InUse(q) \subseteq Nodes
  BY DEF QueueType
<1>2. /\ e.count = [q.count EXCEPT ![p] = @ + 1] /\ e.end = [q.end EXCEPT ![p] = n]
      /\ e.front = [q.front EXCEPT ![p] = IF IsEmpty(q, p) THEN n ELSE @]
      /\ e.node = [m \in InUse(q) \cup ({n} \ {NULL}) |->
                    IF m = n THEN [next |-> NULL, thread |-> t]
                    ELSE IF m = q.end[p] /\ ~IsEmpty(q, p) THEN [q.node[m] EXCEPT !.next = n]
                    ELSE q.node[m]]
      /\ e = [front |-> e.front, end |-> e.end, count |-> e.count, node |-> e.node]
  BY <1>1 DEF Linked
<1>3. InUse(e) = InUse(q) \cup ({n} \ {NULL})
  BY <1>2 DEF InUse
<1>4. ASSUME NEW m \in InUse(e) PROVE e.node[m] \in NodeRecord
  <2>1. CASE m = n
    BY <1>2, <1>3, <1>4, <2>1 DEF NodeRecord
  <2>2. CASE m # n
    <3>1. q.node[m] \in NodeRecord
      BY <1>1, <1>3, <1>4, <2>2
    <3>2. [q.node[m] EXCEPT !.next = n] \in NodeRecord
      BY <3>1 DEF NodeRecord
    <3>3. e.node[m] \in {q.node[m], [q.node[m] EXCEPT !.next = n]}
      BY <1>2, <1>3, <1>4, <2>2
    <3> QED
      BY <3>1, <3>2, <3>3
  <2> QED
    BY <2>1, <2>2
<1>5. e.node \in [InUse(e) -> NodeRecord]
  BY <1>2, <1>3, <1>4
<1>6. QueueType(e)
  BY <1>1, <1>2, <1>3, <1>5 DEF QueueType
<1> QED
  BY <1>2, <1>3, <1>6 DEF Pushed

\* An entry pushed with a node that is free, behind the last one of a list, is
\* the last one of that list.
LEMMA PushGood ==
    ASSUME NEW q, NEW L, AreLists(q, L), NEW p \in Priorities, NEW t \in Threads,
           EndsAtLast(q, L, p),
           NEW n \in Nodes \ InUse(q), NEW e, e = Linked(q, p, t, n, IsEmpty(q, p))
    PROVE  /\ AreLists(e, [L EXCEPT ![p] = Append(@, n)])
           /\ Complete(q, L) => Complete(e, [L EXCEPT ![p] = Append(@, n)])
<1> DEFINE M == [L EXCEPT ![p] = Append(@, n)]
<1>1. /\ q = [front |-> q.front, end |-> q.end, count |-> q.count, node |-> q.node]
      /\ q.front \in [Priorities -> Nodes \cup {NULL}] /\ q.end \in [Priorities -> Nodes \cup {NULL}]
      /\ q.count \in [Priorities -> Nat] /\ q.node \in [InUse(q) -> NodeRecord]
      /\ InUse(q) \subseteq Nodes /\ L \in [Priorities -> Seq(InUse(q))]
  BY DEF AreLists, QueueType
<1>2. /\ e.count = [q.count EXCEPT ![p] = @ + 1] /\ e.end = [q.end EXCEPT ![p] = n]
      /\ e.front = [q.front EXCEPT ![p] = IF IsEmpty(q, p) THEN n ELSE @]
      /\ e.node = [m \in InUse(q) \cup {n} |->
                    IF m = n THEN [next |-> NULL, thread |-> t]
                    ELSE IF m = q.end[p] /\ ~IsEmpty(q, p) THEN [q.node[m] EXCEPT !.next = n]
                    ELSE q.node[m]]
      /\ InUse(e) = InUse(q) \cup {n}
      /\ QueueType(e)
  <2>1. n \in (Nodes \ InUse(q)) \cup {NULL} /\ {n} \ {NULL} = {n} /\ QueueType(q)
    BY NodesAre DEF AreLists
  <2>2. Pushed(e, q, p, t, n)
    BY <2>1, LinkedIs
  <2> QED
    BY <2>1, <2>2 DEF Pushed
<1>3. InUse(e) = InUse(q) \cup {n}
  BY <1>2
<1>4. QueueType(e)
  BY <1>2
<1>5. ASSUME NEW r \in Priorities, r # p PROVE M[r] = L[r]
  BY <1>1, <1>5
<1>6. /\ M[p] = Append(L[p], n) /\ M[p] \in Seq(InUse(e)) /\ Len(M[p]) = Len(L[p]) + 1
      /\ \A i \in 1 .. Len(L[p]) : M[p][i] = L[p][i]
      /\ M[p][Len(L[p]) + 1] = n
  <2>1. M[p] = Append(L[p], n)
    BY <1>1
  <2>2. L[p] \in Seq(InUse(e)) /\ n \in InUse(e)
    BY <1>1, <1>3, SeqMonotonic
  <2>3. /\ Append(L[p], n) \in Seq(InUse(e)) /\ Len(Append(L[p], n)) = Len(L[p]) + 1
        /\ \A i \in 1 .. Len(L[p]) : Append(L[p], n)[i] = L[p][i]
        /\ Append(L[p], n)[Len(L[p]) + 1] = n
    BY <2>2, AppendProperties
  <2> QED
    BY <2>1, <2>3, Zenon
<1>7. M \in [Priorities -> Seq(InUse(e))]
  <2>1. ASSUME NEW r \in Priorities PROVE M[r] \in Seq(InUse(e))
    <3>1. L[r] \in Seq(InUse(e))
      BY <1>1, <1>3, SeqMonotonic
    <3> QED
      BY <1>5, <1>6, <3>1
  <2> QED
    BY <1>1, <2>1
<1>8. ASSUME NEW r \in Priorities PROVE Chain(e, r, M[r])
  <2>1. CASE r # p
    <3>1. /\ L[r] \in Seq(InUse(q)) /\ Len(L[r]) \in Nat /\ Len(L[r]) <= q.count[r]
          /\ \A i \in 1 .. Len(L[r]) : L[r][i] \in InUse(q)
          /\ IsEmpty(q, r) <=> Len(L[r]) = 0
          /\ Len(L[r]) > 0 => q.front[r] = L[r][1] /\ q.node[L[r][Len(L[r])]].next = NULL
          /\ \A i \in 1 .. Len(L[r]) - 1 : q.node[L[r][i]].next = L[r][i + 1]
      BY ListFacts
    <3>2. e.count[r] = q.count[r] /\ e.front[r] = q.front[r]
      BY <1>1, <1>2, <2>1
    <3>3. ASSUME NEW i \in 1 .. Len(L[r]) PROVE e.node[L[r][i]] = q.node[L[r][i]]
      <4>1. L[r][i] \in InUse(q) /\ L[r][i] # n
        BY <3>1
      <4>2. ~IsEmpty(q, p) => L[r][i] # q.end[p]
        <5>1. IsEmpty(q, p) \/ (Len(L[p]) \in 1 .. Len(L[p]) /\ q.end[p] = L[p][Len(L[p])])
          BY ListFacts DEF EndsAtLast
        <5>2. \A j \in 1 .. Len(L[p]) : L[r][i] # L[p][j]
          BY <2>1 DEF AreLists, Apart
        <5> QED
          BY <5>1, <5>2
      <4> QED
        BY <1>2, <4>1, <4>2
    <3>4. M[r] = L[r] /\ M[r] \in Seq(InUse(e))
      BY <1>5, <1>7, <2>1
    <3>5. Len(L[r]) > 0 => e.node[L[r][Len(L[r])]].next = NULL
      BY <3>1, <3>3
    <3>6. ASSUME NEW i \in 1 .. Len(L[r]) - 1 PROVE e.node[L[r][i]].next = L[r][i + 1]
      <4>1. i \in 1 .. Len(L[r])
        BY <3>1
      <4> QED
        BY <3>1, <3>3, <4>1
    <3>7. L[r] \in Seq(InUse(e)) /\ (Len(L[r]) = 0 => e.front[r] = NULL)
      <4>1. L[r] \in Seq(InUse(e))
        BY <3>4, Zenon
      <4>2. Len(L[r]) = 0 => e.front[r] = NULL
        BY <3>1, <3>2 DEF IsEmpty
      <4> QED
        BY <4>1, <4>2
    <3>8. Len(L[r]) > 0 => e.front[r] = L[r][1]
      BY <3>1, <3>2
    <3>9. Chain(e, r, L[r])
      BY <3>1, <3>2, <3>5, <3>6, <3>7, <3>8, ChainFrom
    <3> QED
      BY <3>4, <3>9
  <2>2. CASE r = p
    <3>1. /\ L[p] \in Seq(InUse(q)) /\ Len(L[p]) \in Nat /\ Len(L[p]) <= q.count[p]
          /\ \A i \in 1 .. Len(L[p]) : L[p][i] \in InUse(q)
          /\ IsEmpty(q, p) <=> Len(L[p]) = 0
          /\ Len(L[p]) > 0 => q.front[p] = L[p][1] /\ q.end[p] = L[p][Len(L[p])]
          /\ \A i \in 1 .. Len(L[p]) - 1 : q.node[L[p][i]].next = L[p][i + 1]
      BY ListFacts DEF EndsAtLast
    <3>2. /\ e.count[p] = q.count[p] + 1 /\ q.count[p] \in Nat
          /\ e.front[p] = IF IsEmpty(q, p) THEN n ELSE q.front[p]
      BY <1>1, <1>2
    <3>3. e.front[p] = M[p][1]
      <4>1. CASE Len(L[p]) = 0
        BY <1>6, <3>1, <3>2, <4>1
      <4>2. CASE Len(L[p]) # 0
        BY <1>6, <3>1, <3>2, <4>2
      <4> QED
        BY <4>1, <4>2
    <3>4. e.node[n].next = NULL
      BY <1>2
    <3>5. ASSUME NEW i \in 1 .. Len(L[p]) PROVE e.node[L[p][i]].next = M[p][i + 1]
      <4>1. L[p][i] \in InUse(q) /\ L[p][i] # n /\ q.node[L[p][i]] \in NodeRecord
        BY <1>1, <3>1
      <4>2. ~IsEmpty(q, p) /\ q.end[p] = L[p][Len(L[p])]
        BY <3>1
      <4>3. CASE i = Len(L[p])
        <5>1. e.node[L[p][i]] = [q.node[L[p][i]] EXCEPT !.next = n]
          BY <1>2, <4>1, <4>2, <4>3
        <5> QED
          BY <1>6, <4>1, <4>3, <5>1 DEF NodeRecord
      <4>4. CASE i # Len(L[p])
        <5>1. i \in 1 .. Len(L[p]) - 1 /\ i + 1 \in 1 .. Len(L[p]) /\ Len(L[p]) \in 1 .. Len(L[p])
          BY <3>1, <4>4
        <5>2. L[p][i] # L[p][Len(L[p])]
          BY <4>4, <5>1 DEF AreLists, Apart
        <5>3. e.node[L[p][i]] = q.node[L[p][i]]
          BY <1>2, <4>1, <4>2, <5>2
        <5> QED
          BY <1>6, <3>1, <5>1, <5>3
      <4> QED
        BY <4>3, <4>4
    <3> HIDE DEF M
    <3>6. \A i \in 1 .. Len(M[p]) - 1 : e.node[M[p][i]].next = M[p][i + 1]
      <4>1. Len(M[p]) - 1 = Len(L[p])
        BY <1>6, <3>1
      <4> QED
        BY <1>6, <3>5, <4>1
    <3>7. e.node[M[p][Len(M[p])]].next = NULL
      BY <1>6, <3>4
    <3>8. M[p] \in Seq(InUse(e)) /\ Len(M[p]) <= e.count[p] /\ Len(M[p]) # 0
      BY <1>6, <3>1, <3>2
    <3>9. Chain(e, p, M[p])
      BY <3>3, <3>6, <3>7, <3>8, ChainFrom
    <3> QED
      BY <2>2, <3>9
  <2> QED
    BY <2>1, <2>2
\* Where the places are: those of before, and the new last one of p.
<1>9. ASSUME NEW r \in Priorities, NEW i \in 1 .. Len(M[r])
      PROVE  \/ i \in 1 .. Len(L[r]) /\ M[r][i] = L[r][i] /\ M[r][i] # n
             \/ r = p /\ i = Len(L[p]) + 1 /\ M[r][i] = n
  <2>1. CASE r # p
    <3>1. M[r] = L[r] /\ \A j \in 1 .. Len(L[r]) : L[r][j] \in InUse(q)
      BY <1>5, <2>1, ListFacts
    <3> QED
      BY <1>9, <3>1
  <2>2. CASE r = p
    <3>1. Len(L[p]) \in Nat /\ \A j \in 1 .. Len(L[p]) : L[p][j] \in InUse(q)
      BY ListFacts
    <3> HIDE DEF M
    <3>2. i \in 1 .. Len(L[p]) + 1
      BY <1>6, <1>9, <2>2
    <3>3. CASE i = Len(L[p]) + 1
      BY <1>6, <2>2, <3>3
    <3>4. CASE i # Len(L[p]) + 1
      <4>1. i \in 1 .. Len(L[p])
        BY <3>1, <3>2, <3>4
      <4> QED
        BY <1>6, <2>2, <3>1, <4>1
    <3> QED
      BY <3>3, <3>4
  <2> QED
    BY <2>1, <2>2
<1>10. Apart(M)
  <2>1. ASSUME NEW r \in Priorities, NEW u \in Priorities,
               NEW i \in 1 .. Len(M[r]), NEW j \in 1 .. Len(M[u]), M[r][i] = M[u][j]
        PROVE  r = u /\ i = j
    <3> HIDE DEF M
    <3>1. \/ i \in 1 .. Len(L[r]) /\ M[r][i] = L[r][i] /\ M[r][i] # n
          \/ r = p /\ i = Len(L[p]) + 1 /\ M[r][i] = n
      BY <1>9
    <3>2. \/ j \in 1 .. Len(L[u]) /\ M[u][j] = L[u][j] /\ M[u][j] # n
          \/ u = p /\ j = Len(L[p]) + 1 /\ M[u][j] = n
      BY <1>9
    <3>3. CASE M[r][i] = n
      BY <2>1, <3>1, <3>2, <3>3
    <3>4. CASE M[r][i] # n
      <4>1. i \in 1 .. Len(L[r]) /\ j \in 1 .. Len(L[u]) /\ L[r][i] = L[u][j]
        BY <2>1, <3>1, <3>2, <3>4
      <4> QED
        BY <4>1 DEF AreLists, Apart
    <3> QED
      BY <3>3, <3>4
  <2> HIDE DEF M
  <2> QED
    BY <2>1 DEF Apart
<1>11. EndsAtLast(e, M, p)
  <2>1. e.end[p] = n
    BY <1>1, <1>2
  <2> QED
    BY <1>6, <2>1 DEF EndsAtLast
<1>12. ASSUME NEW r \in Priorities, r # p
       PROVE  e.end[r] = q.end[r] /\ e.count[r] = q.count[r] /\ M[r] = L[r]
  BY <1>1, <1>2, <1>5, <1>12
<1>13. ASSUME NEW m, Loose(q, L, m) PROVE Loose(e, M, m)
  <2>1. m \in InUse(q) /\ m # n /\ m \in InUse(e)
    BY <1>3, <1>13 DEF Loose
  <2> HIDE DEF M
  <2>2. ASSUME NEW r \in Priorities, NEW i \in 1 .. Len(M[r]) PROVE M[r][i] # m
    <3>1. \/ i \in 1 .. Len(L[r]) /\ M[r][i] = L[r][i]
          \/ M[r][i] = n
      BY <1>9
    <3> QED
      BY <1>13, <2>1, <3>1 DEF Loose
  <2> QED
    BY <2>1, <2>2 DEF Loose
<1> HIDE DEF M
<1>14. ASSUME NEW r \in Priorities
       PROVE  EndsAtLast(e, M, r) \/ e.end[r] = NULL \/ Loose(e, M, e.end[r])
  <2>1. CASE r = p
    BY <1>11, <2>1
  <2>2. CASE r # p
    <3>1. e.end[r] = q.end[r] /\ M[r] = L[r]
      BY <1>12, <2>2
    <3>2. EndsAtLast(q, L, r) \/ q.end[r] = NULL \/ Loose(q, L, q.end[r])
      BY DEF AreLists
    <3>3. EndsAtLast(q, L, r) => EndsAtLast(e, M, r)
      BY <3>1 DEF EndsAtLast
    <3> QED
      BY <1>13, <3>1, <3>2, <3>3
  <2> QED
    BY <2>1, <2>2
<1>15. AreLists(e, M)
  BY <1>4, <1>7, <1>8, <1>10, <1>14 DEF AreLists
<1>16. ASSUME Complete(q, L) PROVE Complete(e, M)
  <2>1. ASSUME NEW r \in Priorities PROVE Len(M[r]) = e.count[r] /\ EndsAtLast(e, M, r)
    <3>1. CASE r = p
      <4>1. Len(L[p]) = q.count[p] /\ e.count[p] = q.count[p] + 1
        BY <1>1, <1>2, <1>16 DEF Complete
      <4> QED
        BY <1>6, <1>11, <3>1, <4>1
    <3>2. CASE r # p
      BY <1>12, <1>16, <3>2 DEF Complete, EndsAtLast
    <3> QED
      BY <3>1, <3>2
  <2>2. ASSUME NEW m \in InUse(e)
        PROVE  \E r \in Priorities : \E i \in 1 .. Len(M[r]) : M[r][i] = m
    <3>1. CASE m = n
      <4>1. Len(L[p]) + 1 \in 1 .. Len(M[p]) /\ M[p][Len(L[p]) + 1] = n
        BY <1>6, ListFacts
      <4> QED
        BY <3>1, <4>1
    <3>2. CASE m # n
      <4>1. PICK r \in Priorities : \E i \in 1 .. Len(L[r]) : L[r][i] = m
        BY <1>3, <1>16, <2>2, <3>2 DEF Complete
      <4>2. PICK i \in 1 .. Len(L[r]) : L[r][i] = m
        BY <4>1
      <4>3. i \in 1 .. Len(M[r]) /\ M[r][i] = m
        <5>1. CASE r # p
          BY <1>5, <4>2, <5>1
        <5>2. CASE r = p
          <6>1. Len(L[p]) \in Nat
            BY ListFacts
          <6>2. i \in 1 .. Len(L[p]) /\ L[p][i] = m
            BY <4>2, <5>2
          <6>3. i \in 1 .. Len(M[p]) /\ M[p][i] = m
            BY <1>6, <6>1, <6>2
          <6> QED
            BY <5>2, <6>3
        <5> QED
          BY <5>1, <5>2
      <4> QED
        BY <4>3
    <3> QED
      BY <3>1, <3>2
  <2> QED
    BY <2>1, <2>2 DEF Complete
<1> QED
  BY <1>15, <1>16 DEF M

\* An entry pushed without memory, or behind an end that is not the last one of
\* its list, leaves the lists as they are.
LEMMA PushApart ==
    ASSUME NEW q, NEW L, AreLists(q, L), NEW p \in Priorities, NEW t \in Threads,
           NEW n \in (Nodes \ InUse(q)) \cup {NULL}, n = NULL \/ ~EndsAtLast(q, L, p),
           NEW e, e = Linked(q, p, t, n, IsEmpty(q, p))
    PROVE  AreLists(e, L)
<1>1. /\ q.front \in [Priorities -> Nodes \cup {NULL}] /\ q.end \in [Priorities -> Nodes \cup {NULL}]
      /\ q.count \in [Priorities -> Nat] /\ q.node \in [InUse(q) -> NodeRecord]
      /\ InUse(q) \subseteq Nodes /\ L \in [Priorities -> Seq(InUse(q))] /\ QueueType(q)
  BY DEF AreLists, QueueType
<1>2. /\ e.count = [q.count EXCEPT ![p] = @ + 1] /\ e.end = [q.end EXCEPT ![p] = n]
      /\ e.front = [q.front EXCEPT ![p] = IF IsEmpty(q, p) THEN n ELSE @]
      /\ e.node = [m \in InUse(q) \cup ({n} \ {NULL}) |->
                    IF m = n THEN [next |-> NULL, thread |-> t]
                    ELSE IF m = q.end[p] /\ ~IsEmpty(q, p) THEN [q.node[m] EXCEPT !.next = n]
                    ELSE q.node[m]]
      /\ InUse(e) = InUse(q) \cup ({n} \ {NULL})
      /\ QueueType(e)
  <2>1. Pushed(e, q, p, t, n)
    BY <1>1, LinkedIs
  <2> QED
    BY <2>1 DEF Pushed
<1>3. IsEmpty(q, p) => n = NULL
  <2>1. IsEmpty(q, p) => EndsAtLast(q, L, p)
    BY ListFacts DEF EndsAtLast
  <2> QED
    BY <2>1
<1>4. ASSUME NEW r \in Priorities
      PROVE  /\ e.front[r] = q.front[r] /\ q.count[r] <= e.count[r]
             /\ q.count[r] \in Nat /\ e.count[r] \in Nat
  <2>1. e.front[r] = q.front[r]
    <3>1. e.front = [q.front EXCEPT ![p] = IF q.front[p] = NULL THEN n ELSE q.front[p]]
      BY <1>2 DEF IsEmpty
    <3>2. (IF q.front[p] = NULL THEN n ELSE q.front[p]) = q.front[p]
      BY <1>3 DEF IsEmpty
    <3>3. e.front = [q.front EXCEPT ![p] = q.front[p]]
      BY <3>1, <3>2
    <3> QED
      BY <1>1, <3>3
  <2>2. q.count[r] \in Nat /\ e.count[r] = IF r = p THEN q.count[p] + 1 ELSE q.count[r]
    BY <1>1, <1>2
  <2> QED
    BY <2>1, <2>2
\* What is written to the end changes nothing that a walk meets.
<1>5. ASSUME NEW r \in Priorities, NEW i \in 1 .. Len(L[r])
      PROVE  e.node[L[r][i]].next = q.node[L[r][i]].next
  <2>1. PICK m \in InUse(q) : m = L[r][i]
    BY ListFacts
  <2>2. m # n /\ m \in InUse(e) /\ q.node[m] \in NodeRecord /\ m # NULL
    BY <1>1, <1>2, NodesAre
  <2>3. CASE m = q.end[p] /\ ~IsEmpty(q, p)
    <3>1. ~Loose(q, L, m)
      BY <2>1 DEF Loose
    <3>2. EndsAtLast(q, L, p)
      BY <2>2, <2>3, <3>1 DEF AreLists
    <3>3. n = NULL
      BY <3>2
    <3>4. Len(L[p]) > 0 /\ q.node[L[p][Len(L[p])]].next = NULL
      BY <2>3, ListFacts
    <3>5. q.node[m].next = NULL
      BY <2>3, <3>2, <3>4 DEF EndsAtLast
    <3>6. e.node[m] = [q.node[m] EXCEPT !.next = n]
      BY <1>2, <2>2, <2>3
    <3>7. e.node[m].next = NULL
      BY <2>2, <3>3, <3>6 DEF NodeRecord
    <3> QED
      BY <2>1, <3>5, <3>7
  <2>4. CASE ~(m = q.end[p] /\ ~IsEmpty(q, p))
    <3>1. e.node[m] = q.node[m]
      BY <1>2, <2>2, <2>4
    <3> QED
      BY <2>1, <3>1
  <2> QED
    BY <2>3, <2>4
<1>6. ASSUME NEW r \in Priorities PROVE L[r] \in Seq(InUse(e)) /\ Chain(e, r, L[r])
  <2>1. /\ L[r] \in Seq(InUse(q)) /\ Len(L[r]) \in Nat /\ Len(L[r]) <= q.count[r]
        /\ IsEmpty(q, r) <=> Len(L[r]) = 0
        /\ Len(L[r]) > 0 => q.front[r] = L[r][1] /\ q.node[L[r][Len(L[r])]].next = NULL
        /\ \A i \in 1 .. Len(L[r]) - 1 : q.node[L[r][i]].next = L[r][i + 1]
    BY ListFacts
  <2>2. L[r] \in Seq(InUse(e))
    BY <1>2, <2>1, SeqMonotonic
  <2>3. Len(L[r]) = 0 => e.front[r] = NULL
    BY <1>4, <2>1 DEF IsEmpty
  <2>4. Len(L[r]) > 0 => e.front[r] = L[r][1] /\ e.node[L[r][Len(L[r])]].next = NULL
    <3>1. Len(L[r]) > 0 => Len(L[r]) \in 1 .. Len(L[r])
      BY <2>1
    <3> QED
      BY <1>4, <1>5, <2>1, <3>1
  <2>5. ASSUME NEW i \in 1 .. Len(L[r]) - 1 PROVE e.node[L[r][i]].next = L[r][i + 1]
    <3>1. i \in 1 .. Len(L[r])
      BY <2>1
    <3> QED
      BY <1>5, <2>1, <3>1
  <2>6. Len(L[r]) <= e.count[r]
    BY <1>4, <2>1
  <2>7. Chain(e, r, L[r])
    BY <2>2, <2>3, <2>4, <2>5, <2>6, ChainFrom
  <2> QED
    BY <2>2, <2>7
<1>7. ASSUME NEW m, Loose(q, L, m) PROVE Loose(e, L, m)
  BY <1>2, <1>7 DEF Loose
<1>8. ASSUME NEW r \in Priorities
      PROVE  EndsAtLast(e, L, r) \/ e.end[r] = NULL \/ Loose(e, L, e.end[r])
  <2>1. CASE r = p
    <3>1. e.end[r] = n
      BY <1>1, <1>2, <2>1
    <3>2. n # NULL => Loose(e, L, n)
      <4>1. n # NULL => n \in InUse(e) /\ n \notin InUse(q)
        BY <1>2
      <4>2. \A u \in Priorities : \A i \in 1 .. Len(L[u]) : L[u][i] \in InUse(q)
        BY ListFacts
      <4> QED
        BY <4>1, <4>2 DEF Loose
    <3> QED
      BY <3>1, <3>2
  <2>2. CASE r # p
    <3>1. e.end[r] = q.end[r]
      BY <1>1, <1>2, <2>2
    <3>2. EndsAtLast(q, L, r) \/ q.end[r] = NULL \/ Loose(q, L, q.end[r])
      BY DEF AreLists
    <3>3. EndsAtLast(q, L, r) => EndsAtLast(e, L, r)
      BY <3>1 DEF EndsAtLast
    <3> QED
      BY <1>7, <3>1, <3>2, <3>3
  <2> QED
    BY <2>1, <2>2
<1>9. L \in [Priorities -> Seq(InUse(e))] /\ Apart(L)
  BY <1>1, <1>6 DEF AreLists
<1> QED
  BY <1>2, <1>6, <1>8, <1>9 DEF AreLists

\* What is popped is a first part of the list; its nodes are free again.
LEMMA PopSome ==
    ASSUME NEW q, NEW L, AreLists(q, L), NEW p \in Priorities, NEW k \in 1 .. Len(L[p]),
           NEW e, e = PopEntries(q, p, k)
    PROVE  /\ AreLists(e, [L EXCEPT ![p] = SubSeq(@, k + 1, Len(@))])
           /\ Complete(q, L) => Complete(e, [L EXCEPT ![p] = SubSeq(@, k + 1, Len(@))])
<1> DEFINE M == [L EXCEPT ![p] = SubSeq(@, k + 1, Len(@))]
           gone == {L[p][i] : i \in 1 .. k}
           d == Len(L[p]) - k
<1>1. /\ q = [front |-> q.front, end |-> q.end, count |-> q.count, node |-> q.node]
      /\ q.front \in [Priorities -> Nodes \cup {NULL}] /\ q.end \in [Priorities -> Nodes \cup {NULL}]
      /\ q.count \in [Priorities -> Nat] /\ q.node \in [InUse(q) -> NodeRecord]
      /\ InUse(q) \subseteq Nodes /\ L \in [Priorities -> Seq(InUse(q))]
  BY DEF AreLists, QueueType
<1>2. /\ L[p] \in Seq(InUse(q)) /\ Len(L[p]) \in Nat /\ Len(L[p]) <= q.count[p]
      /\ \A i \in 1 .. Len(L[p]) : L[p][i] \in InUse(q)
      /\ Len(L[p]) > 0 => q.node[L[p][Len(L[p])]].next = NULL
      /\ \A i \in 1 .. Len(L[p]) - 1 : q.node[L[p][i]].next = L[p][i + 1]
  <2> HIDE DEF M, gone, d
  <2>1. /\ L[p] \in Seq(InUse(q)) /\ Len(L[p]) \in Nat /\ Len(L[p]) <= q.count[p]
        /\ \A i \in 1 .. Len(L[p]) : L[p][i] \in InUse(q)
    BY ListFacts
  <2>2. Len(L[p]) > 0 => q.node[L[p][Len(L[p])]].next = NULL
    BY ListFacts
  <2>3. \A i \in 1 .. Len(L[p]) - 1 : q.node[L[p][i]].next = L[p][i + 1]
    BY ListFacts
  <2> QED
    BY <2>1, <2>2, <2>3
<1>3. d \in Nat /\ k \in Nat /\ Len(L[p]) = k + d /\ k # 0 /\ d <= Len(L[p])
  BY <1>2
<1>4. /\ e.count = [q.count EXCEPT ![p] = @ - k] /\ e.end = q.end
      /\ e.front = [q.front EXCEPT ![p] = q.node[L[p][k]].next]
      /\ e.node = [m \in InUse(q) \ gone |-> q.node[m]]
      /\ e = [front |-> e.front, end |-> e.end, count |-> e.count, node |-> e.node]
  <2>1. NodesOf(q, p) = L[p]
    BY NodesOfIs DEF AreLists
  <2>2. e = [q EXCEPT !.node = [m \in InUse(q) \ gone |-> q.node[m]],
                      !.front[p] = q.node[L[p][k]].next,
                      !.count[p] = @ - k]
    BY <1>3, <2>1 DEF PopEntries, Restrict
  <2> HIDE DEF gone, M, d
  <2> QED
    BY <1>1, <2>2
<1>5. InUse(e) = InUse(q) \ gone /\ \A m \in InUse(e) : e.node[m] = q.node[m]
  BY <1>4 DEF InUse
<1>6. /\ M[p] \in Seq(InUse(e)) /\ Len(M[p]) = d
      /\ \A i \in 1 .. d : M[p][i] = L[p][k + i]
  <2>1. M[p] = SubSeq(L[p], k + 1, Len(L[p]))
    BY <1>1
  <2>2. ASSUME NEW i \in k + 1 .. Len(L[p]) PROVE L[p][i] \in InUse(e)
    <3>1. i \in 1 .. Len(L[p]) /\ \A j \in 1 .. k : j \in 1 .. Len(L[p]) /\ j # i
      BY <1>3
    <3>2. \A j \in 1 .. k : L[p][j] # L[p][i]
      BY <3>1 DEF AreLists, Apart
    <3> QED
      BY <1>2, <1>5, <3>1, <3>2
  <2>3. k + 1 \in Int /\ Len(L[p]) \in Int /\ Len(L[p]) - (k + 1) + 1 = d
    BY <1>2, <1>3
  <2>4. /\ SubSeq(L[p], k + 1, Len(L[p])) \in Seq(InUse(e))
        /\ Len(SubSeq(L[p], k + 1, Len(L[p]))) =
             IF k + 1 <= Len(L[p]) THEN Len(L[p]) - (k + 1) + 1 ELSE 0
        /\ \A i \in 1 .. Len(L[p]) - (k + 1) + 1 :
             SubSeq(L[p], k + 1, Len(L[p]))[i] = L[p][k + 1 + i - 1]
    BY <2>2, <2>3, SubSeqProperties
  <2>5. Len(M[p]) = d
    BY <1>3, <2>1, <2>4
  <2>6. ASSUME NEW i \in 1 .. d PROVE M[p][i] = L[p][k + i]
    <3>1. k + 1 + i - 1 = k + i
      BY <1>3
    <3> QED
      BY <2>1, <2>3, <2>4, <3>1
  <2> QED
    BY <2>1, <2>4, <2>5, <2>6
<1>7. ASSUME NEW r \in Priorities, r # p
      PROVE  M[r] = L[r] /\ M[r] \in Seq(InUse(e))
  <2>1. M[r] = L[r]
    BY <1>1, <1>7
  <2>2. ASSUME NEW i \in 1 .. Len(L[r]) PROVE L[r][i] \in InUse(e)
    <3>1. \A j \in 1 .. k : L[p][j] # L[r][i]
      <4>1. \A j \in 1 .. k : j \in 1 .. Len(L[p])
        BY <1>3
      <4> QED
        BY <1>7, <4>1 DEF AreLists, Apart
    <3>2. L[r][i] \in InUse(q)
      BY ListFacts
    <3> QED
      BY <1>5, <3>1, <3>2
  <2>3. L[r] \in Seq(InUse(e))
    <3>1. Len(L[r]) \in Nat /\ L[r] = [i \in 1 .. Len(L[r]) |-> L[r][i]]
      BY <1>1, LenProperties
    <3> QED
      BY <2>2, <3>1, IsASeq
  <2> QED
    BY <2>1, <2>3
<1> HIDE DEF M, gone, d
<1>8. M \in [Priorities -> Seq(InUse(e))]
  <2>1. M = [r \in Priorities |-> M[r]]
    BY <1>1 DEF M
  <2> QED
    BY <1>6, <1>7, <2>1
<1>9. QueueType(e)
  <2>1. k \in 1 .. Len(L[p]) /\ L[p][k] \in InUse(q) /\ q.node[L[p][k]] \in NodeRecord
    BY <1>1, <1>2
  <2>2. e.front \in [Priorities -> Nodes \cup {NULL}]
    BY <1>1, <1>4, <2>1 DEF NodeRecord
  <2>3. e.count \in [Priorities -> Nat]
    <3>1. q.count[p] \in Nat /\ q.count[p] - k \in Nat
      BY <1>1, <1>2, <1>3
    <3> QED
      BY <1>1, <1>4, <3>1
  <2>4. e.node \in [InUse(e) -> NodeRecord] /\ InUse(e) \subseteq Nodes
    BY <1>1, <1>4, <1>5
  <2> QED
    BY <1>1, <1>4, <2>2, <2>3, <2>4 DEF QueueType
<1>10. ASSUME NEW r \in Priorities PROVE Chain(e, r, M[r])
  <2>1. CASE r # p
    <3>1. /\ L[r] \in Seq(InUse(q)) /\ Len(L[r]) \in Nat /\ Len(L[r]) <= q.count[r]
          /\ IsEmpty(q, r) <=> Len(L[r]) = 0
          /\ Len(L[r]) > 0 => q.front[r] = L[r][1] /\ q.node[L[r][Len(L[r])]].next = NULL
          /\ \A i \in 1 .. Len(L[r]) - 1 : q.node[L[r][i]].next = L[r][i + 1]
      BY ListFacts
    <3>2. e.count[r] = q.count[r] /\ e.front[r] = q.front[r]
      BY <1>1, <1>4, <2>1
    <3>3. L[r] \in Seq(InUse(e)) /\ M[r] = L[r]
      BY <1>7, <2>1
    <3>4. ASSUME NEW i \in 1 .. Len(L[r]) PROVE e.node[L[r][i]] = q.node[L[r][i]]
      BY <1>5, <3>3, ElementOfSeq
    <3>5. Len(L[r]) = 0 => e.front[r] = NULL
      BY <3>1, <3>2 DEF IsEmpty
    <3>6. Len(L[r]) > 0 => e.front[r] = L[r][1] /\ e.node[L[r][Len(L[r])]].next = NULL
      <4>1. Len(L[r]) > 0 => Len(L[r]) \in 1 .. Len(L[r])
        BY <3>1
      <4> QED
        BY <3>1, <3>2, <3>4, <4>1
    <3>7. ASSUME NEW i \in 1 .. Len(L[r]) - 1 PROVE e.node[L[r][i]].next = L[r][i + 1]
      <4>1. i \in 1 .. Len(L[r])
        BY <3>1
      <4> QED
        BY <3>1, <3>4, <4>1
    <3>8. Chain(e, r, L[r])
      BY <3>1, <3>2, <3>3, <3>5, <3>6, <3>7, ChainFrom
    <3> QED
      BY <3>3, <3>8
  <2>2. CASE r = p
    <3>1. d <= e.count[p] /\ e.front[p] = q.node[L[p][k]].next
      <4>1. e.count[p] = q.count[p] - k /\ q.count[p] \in Nat
        BY <1>1, <1>4
      <4>2. d <= e.count[p]
        BY <1>2, <1>3, <4>1
      <4>3. e.front[p] = q.node[L[p][k]].next
        BY <1>1, <1>4
      <4> QED
        BY <4>2, <4>3
    <3>2. ASSUME NEW i \in 1 .. d
          PROVE  M[p][i] = L[p][k + i] /\ e.node[M[p][i]] = q.node[L[p][k + i]]
      <4>1. M[p][i] \in InUse(e)
        BY <1>6, ElementOfSeq
      <4> QED
        BY <1>5, <1>6, <4>1
    <3>3. d = 0 => e.front[p] = NULL
      <4>1. d = 0 => k = Len(L[p])
        BY <1>3
      <4> QED
        BY <1>2, <1>3, <3>1, <4>1
    <3>4. ASSUME d > 0
          PROVE  e.front[p] = M[p][1] /\ e.node[M[p][d]].next = NULL
      <4>1. 1 \in 1 .. d /\ d \in 1 .. d /\ k \in 1 .. Len(L[p]) - 1 /\ k + d = Len(L[p])
        BY <1>3, <3>4
      <4>2. q.node[L[p][k]].next = L[p][k + 1]
        BY <1>2, <4>1
      <4>3. M[p][1] = L[p][k + 1] /\ M[p][d] = L[p][Len(L[p])]
            /\ e.node[M[p][d]] = q.node[L[p][Len(L[p])]]
        BY <3>2, <4>1
      <4>4. q.node[L[p][Len(L[p])]].next = NULL
        BY <1>2, <1>3
      <4> QED
        BY <3>1, <4>2, <4>3, <4>4
    <3>5. ASSUME NEW i \in 1 .. d - 1 PROVE e.node[M[p][i]].next = M[p][i + 1]
      <4>1. i \in 1 .. d /\ i + 1 \in 1 .. d /\ k + i \in 1 .. Len(L[p]) - 1
            /\ (k + i) + 1 = k + (i + 1)
        BY <1>3
      <4>2. q.node[L[p][k + i]].next = L[p][(k + i) + 1]
        BY <1>2, <4>1
      <4> QED
        BY <3>2, <4>1, <4>2
    <3>6. Chain(e, p, M[p])
      BY <1>3, <1>6, <3>1, <3>3, <3>4, <3>5, ChainFrom
    <3> QED
      BY <2>2, <3>6
  <2> QED
    BY <2>1, <2>2
\* A place of the new lists is a place of the old ones, k further on in p.
<1> DEFINE From(r) == IF r = p THEN k ELSE 0
<1>11. ASSUME NEW r \in Priorities, NEW i \in 1 .. Len(M[r])
       PROVE  From(r) + i \in 1 .. Len(L[r]) /\ M[r][i] = L[r][From(r) + i]
  <2>1. CASE r = p
    <3>1. i \in 1 .. d
      BY <1>6, <1>11, <2>1
    <3>2. k + i \in 1 .. Len(L[p])
      BY <1>3, <3>1
    <3> QED
      BY <1>6, <2>1, <3>1, <3>2
  <2>2. CASE r # p
    <3>1. M[r] = L[r] /\ 0 + i = i
      BY <1>7, <2>2
    <3> QED
      BY <1>11, <2>2, <3>1
  <2> QED
    BY <2>1, <2>2
<1>12. Apart(M)
  <2>1. \A r \in Priorities : From(r) \in Nat
    BY <1>3
  <2> HIDE DEF From
  <2>2. ASSUME NEW r \in Priorities, NEW u \in Priorities,
               NEW i \in 1 .. Len(M[r]), NEW j \in 1 .. Len(M[u]), M[r][i] = M[u][j]
        PROVE  r = u /\ i = j
    <3>1. /\ From(r) + i \in 1 .. Len(L[r]) /\ M[r][i] = L[r][From(r) + i]
          /\ From(u) + j \in 1 .. Len(L[u]) /\ M[u][j] = L[u][From(u) + j]
      BY <1>11
    <3>2. PICK x \in 1 .. Len(L[r]) : x = From(r) + i
      BY <3>1
    <3>3. PICK y \in 1 .. Len(L[u]) : y = From(u) + j
      BY <3>1
    <3>4. L[r][x] = L[u][y]
      BY <2>2, <3>1, <3>2, <3>3
    <3>5. r = u /\ x = y
      BY <3>4 DEF AreLists, Apart
    <3> QED
      BY <2>1, <3>2, <3>3, <3>5
  <2> QED
    BY <2>2 DEF Apart
\* The end of a list is that of before: the last one if any is left.
<1>13. e.end = q.end
  BY <1>4
<1>14. ASSUME NEW r \in Priorities, EndsAtLast(q, L, r) PROVE EndsAtLast(e, M, r)
  <2>1. CASE r # p
    <3>1. M[r] = L[r]
      BY <1>7, <2>1
    <3> QED
      BY <1>13, <1>14, <3>1 DEF EndsAtLast
  <2>2. CASE r = p
    <3> SUFFICES ASSUME d > 0 PROVE q.end[p] = M[p][d]
      BY <1>6, <1>13, <2>2 DEF EndsAtLast
    <3>1. d \in 1 .. d /\ k + d = Len(L[p]) /\ Len(L[p]) > 0
      BY <1>3
    <3>2. M[p][d] = L[p][Len(L[p])]
      BY <1>6, <3>1
    <3> QED
      BY <1>14, <2>2, <3>1, <3>2 DEF EndsAtLast
  <2> QED
    BY <2>1, <2>2
<1>15. ASSUME NEW m, Loose(q, L, m) PROVE Loose(e, M, m)
  <2>1. \A i \in 1 .. k : L[p][i] # m
    <3>1. \A i \in 1 .. k : i \in 1 .. Len(L[p])
      BY <1>2
    <3> QED
      BY <1>15, <3>1 DEF Loose
  <2>2. m \in InUse(e)
    BY <1>5, <1>15, <2>1 DEF gone, Loose
  <2> HIDE DEF From
  <2>3. ASSUME NEW r \in Priorities, NEW i \in 1 .. Len(M[r]) PROVE M[r][i] # m
    BY <1>11, <1>15 DEF Loose
  <2> QED
    BY <2>2, <2>3 DEF Loose
<1>16. ASSUME NEW r \in Priorities
       PROVE  EndsAtLast(e, M, r) \/ e.end[r] = NULL \/ Loose(e, M, e.end[r])
  <2>1. EndsAtLast(q, L, r) \/ q.end[r] = NULL \/ Loose(q, L, q.end[r])
    BY DEF AreLists
  <2> QED
    BY <1>13, <1>14, <1>15, <2>1
<1>17. AreLists(e, M)
  BY <1>8, <1>9, <1>10, <1>12, <1>16 DEF AreLists
<1>18. ASSUME Complete(q, L) PROVE Complete(e, M)
  <2>1. ASSUME NEW r \in Priorities PROVE Len(M[r]) = e.count[r] /\ EndsAtLast(e, M, r)
    <3>1. EndsAtLast(e, M, r)
      BY <1>14, <1>18 DEF Complete
    <3>2. Len(L[r]) = q.count[r]
      BY <1>18 DEF Complete
    <3>3. CASE r = p
      <4>1. e.count[p] = q.count[p] - k
        BY <1>1, <1>4
      <4>2. d = q.count[p] - k
        BY <3>2, <3>3 DEF d
      <4> QED
        BY <1>6, <3>1, <3>3, <4>1, <4>2
    <3>4. CASE r # p
      BY <1>1, <1>4, <1>7, <3>1, <3>2, <3>4
    <3> QED
      BY <3>3, <3>4
  <2>2. ASSUME NEW m \in InUse(e)
        PROVE  \E r \in Priorities : \E i \in 1 .. Len(M[r]) : M[r][i] = m
    <3>1. m \in InUse(q) /\ \A i \in 1 .. k : L[p][i] # m
      BY <1>5 DEF gone
    <3>2. PICK r \in Priorities : \E i \in 1 .. Len(L[r]) : L[r][i] = m
      BY <1>18, <3>1 DEF Complete
    <3>3. PICK i \in 1 .. Len(L[r]) : L[r][i] = m
      BY <3>2
    <3>4. CASE r = p
      <4>1. ~(i <= k)
        BY <3>1, <3>3, <3>4
      <4>2. i - k \in 1 .. d /\ k + (i - k) = i
        BY <1>3, <3>4, <4>1
      <4>3. i - k \in 1 .. Len(M[p]) /\ M[p][i - k] = m
        BY <1>6, <3>3, <3>4, <4>2
      <4> QED
        BY <4>3
    <3>5. CASE r # p
      <4>1. M[r] = L[r]
        BY <1>7, <3>5
      <4>2. i \in 1 .. Len(M[r]) /\ M[r][i] = m
        BY <3>3, <4>1
      <4> QED
        BY <4>2
    <3> QED
      BY <3>4, <3>5
  <2> QED
    BY <2>1, <2>2 DEF Complete
<1> QED
  BY <1>17, <1>18 DEF M

LEMMA PopGood ==
    ASSUME NEW q, NEW L, AreLists(q, L), NEW p \in Priorities, NEW k \in 0 .. Len(L[p]),
           NEW e, e = PopEntries(q, p, k)
    PROVE  \E M : AreLists(e, M) /\ (Complete(q, L) => Complete(e, M))
<1>1. CASE k = 0
  <2>1. e = q
    BY <1>1 DEF PopEntries
  <2> QED
    BY <2>1
<1>2. CASE k # 0
  <2>1. k \in 1 .. Len(L[p])
    BY <1>2, ListFacts
  <2>2. PICK M : M = [L EXCEPT ![p] = SubSeq(@, k + 1, Len(@))]
    OBVIOUS
  <2>3. AreLists(e, M) /\ (Complete(q, L) => Complete(e, M))
    BY <2>1, <2>2, PopSome
  <2> QED
    BY <2>3, Zenon
<1> QED
  BY <1>1, <1>2

\* An entry takes the first node that is free; without one the lists remain.
LEMMA PushFree ==
    ASSUME NEW q, NEW L, AreLists(q, L), NEW p \in Priorities, NEW t \in Threads,
           NEW e, e = PspPushScheduleData(q, p, t)
    PROVE  /\ \E M : AreLists(e, M) /\ (InUse(q) # Nodes /\ Complete(q, L) => Complete(e, M))
           /\ InUse(q) # Nodes => \E n \in Nodes \ InUse(q) : InUse(e) = InUse(q) \cup {n}
<1> DEFINE free == Nodes \ InUse(q)
<1>1. InUse(q) \subseteq Nodes /\ QueueType(q)
  BY DEF AreLists, QueueType
<1>2. CASE InUse(q) # Nodes
  <2>1. free \subseteq Nat /\ free # {}
    BY <1>1, <1>2, NodesAre
  <2>2. Min(free) \in free
    <3> HIDE DEF free
    <3> QED
      BY <2>1, MinIs
  <2>3. PICK n \in free : n = Min(free)
    BY <2>2
  <2>4. e = Linked(q, p, t, n, IsEmpty(q, p))
    BY <1>2, <2>3 DEF PspPushScheduleData, MmAllocateNonCachedMemory
  <2>5. n \in (Nodes \ InUse(q)) \cup {NULL} /\ {n} \ {NULL} = {n}
    BY NodesAre
  <2>6. InUse(e) = InUse(q) \cup {n}
    <3>1. Pushed(e, q, p, t, n)
      BY <1>1, <2>4, <2>5, LinkedIs
    <3> QED
      BY <2>5, <3>1 DEF Pushed
  <2>7. \E M : AreLists(e, M) /\ (Complete(q, L) => Complete(e, M))
    <3>1. CASE EndsAtLast(q, L, p)
      <4>1. PICK M : M = [L EXCEPT ![p] = Append(@, n)]
        OBVIOUS
      <4>2. AreLists(e, M) /\ (Complete(q, L) => Complete(e, M))
        BY <2>4, <3>1, <4>1, PushGood
      <4> QED
        BY <4>2, Zenon
    <3>2. CASE ~EndsAtLast(q, L, p)
      <4>1. AreLists(e, L)
        BY <2>4, <2>5, <3>2, PushApart
      <4>2. ~Complete(q, L)
        BY <3>2 DEF Complete
      <4> QED
        BY <4>1, <4>2, Zenon
    <3> QED
      BY <3>1, <3>2
  <2> QED
    BY <1>2, <2>6, <2>7, Zenon
<1>3. CASE InUse(q) = Nodes
  <2>1. e = Linked(q, p, t, NULL, IsEmpty(q, p))
    BY <1>3 DEF PspPushScheduleData, MmAllocateNonCachedMemory
  <2>2. NULL \in (Nodes \ InUse(q)) \cup {NULL}
    OBVIOUS
  <2>3. AreLists(e, L)
    BY <2>1, <2>2, PushApart
  <2> QED
    BY <1>3, <2>3, Zenon
<1> QED
  BY <1>2, <1>3

----------------------------------------------------------------------------
(* The boot code.                                                          *)

BootStep(q, i) ==
    IF Order[i] \in Queued THEN PspPushScheduleData(q, PriorityOf[Order[i]], Order[i]) ELSE q

\* The queues after each of the first m threads.
Boots(f, m) == f = [i \in 0 .. m |-> IF i = 0 THEN NoQueues ELSE BootStep(f[i - 1], i)]

LEMMA BootsExists == \A m \in Nat : \E f : Boots(f, m)
<1> DEFINE Bad == {m \in Nat : ~ \E f : Boots(f, m)}
<1> SUFFICES ASSUME Bad # {} PROVE FALSE
  OBVIOUS
<1>1. \E m \in Bad : \A y \in Bad : m <= y
  <2>1. Bad \subseteq Nat
    OBVIOUS
  <2> HIDE DEF Bad
  <2> QED
    BY <2>1, LeastNumber
<1>2. PICK m \in Bad : \A y \in Bad : m <= y
  BY <1>1
<1>3. m \in Nat /\ ~ \E f : Boots(f, m)
  BY <1>2
<1>4. m # 0
  <2> SUFFICES ASSUME m = 0 PROVE FALSE
    OBVIOUS
  <2> DEFINE f == [i \in 0 .. 0 |-> NoQueues]
  <2>1. Boots(f, 0)
    BY DEF Boots
  <2> HIDE DEF f
  <2> QED
    BY <1>3, <2>1
<1>5. m - 1 \in Nat /\ m - 1 \notin Bad
  BY <1>2, <1>3, <1>4
<1>6. PICK f : Boots(f, m - 1)
  BY <1>5
<1>7. \A i \in 0 .. m - 1 : f[i] = IF i = 0 THEN NoQueues ELSE BootStep(f[i - 1], i)
  <2>1. \A i \in 0 .. m - 1 : f[i] = [j \in 0 .. m - 1 |-> IF j = 0 THEN NoQueues
                                                         ELSE BootStep(f[j - 1], j)][i]
    BY <1>6, Zenon DEF Boots
  <2> QED
    BY <2>1
<1> DEFINE g == [i \in 0 .. m |-> IF i = m THEN BootStep(f[m - 1], m) ELSE f[i]]
<1>8. ASSUME NEW i \in 0 .. m
      PROVE  g[i] = IF i = 0 THEN NoQueues ELSE BootStep(g[i - 1], i)
  <2>1. i # 0 => i - 1 \in 0 .. m /\ i - 1 # m /\ g[i - 1] = f[i - 1]
    BY <1>3
  <2>2. CASE i = m
    BY <1>4, <2>1, <2>2
  <2>3. CASE i # m
    <3>1. i \in 0 .. m - 1
      BY <1>3, <2>3
    <3>2. g[i] = f[i]
      BY <2>3
    <3> HIDE DEF g
    <3> QED
      BY <1>7, <2>1, <3>1, <3>2
  <2> QED
    BY <2>2, <2>3
<1>9. Boots(g, m)
  <2>1. g = [i \in 0 .. m |-> g[i]]
    OBVIOUS
  <2> HIDE DEF g
  <2> QED
    BY <1>8, <2>1 DEF Boots
<1> HIDE DEF g
<1> QED
  BY <1>3, <1>9

LEMMA BootQueuesIs == \E f : Boots(f, Len(Order)) /\ BootQueues = f[Len(Order)]
<1> DEFINE after == CHOOSE f : Boots(f, Len(Order))
<1>1. Boots(after, Len(Order))
  BY BootsExists, ThreadsAre
<1>2. BootQueues = after[Len(Order)]
  BY Zenon DEF BootQueues, Boots, BootStep
<1> HIDE DEF after
<1> QED
  BY <1>1, <1>2

\* The queued ones of the first i threads.
QueuedUpto(i) == {t \in Queued : \E j \in 1 .. i : Order[j] = t}

\* So far the lists hold a node for each of them.
BootGood(q, i) ==
    /\ \E L : AreLists(q, L) /\ Complete(q, L)
    /\ IsFiniteSet(InUse(q)) /\ Cardinality(InUse(q)) = Cardinality(QueuedUpto(i))

LEMMA NodesFinite == IsFiniteSet(Nodes) /\ Cardinality(Nodes) = MaxNodes
<1>1. MaxNodes \in Nat
  BY SchedulerAssumption
<1>2. IsFiniteSet(1 .. MaxNodes) /\ Cardinality(1 .. MaxNodes) = MaxNodes
  BY <1>1, FS_Interval
<1> QED
  BY <1>2 DEF Nodes

LEMMA QueuedFinite == IsFiniteSet(Queued) /\ Cardinality(Queued) \in Nat
<1>1. Len(Order) \in Nat /\ IsFiniteSet(1 .. Len(Order))
  BY ThreadsAre, FS_Interval
<1>2. Order \in [1 .. Len(Order) -> Threads]
  BY ThreadsAre, LenProperties
<1>3. Order \in Surjection(1 .. Len(Order), Threads)
  BY <1>2, ThreadsAre DEF Surjection
<1>4. IsFiniteSet(Queued)
  <2>1. IsFiniteSet(Threads)
    BY <1>1, <1>3, FS_Surjection
  <2> QED
    BY <2>1, ThreadsAre, FS_Subset
<1> QED
  BY <1>4, FS_CardinalityType

LEMMA NoQueuesGood == BootGood(NoQueues, 0)
<1> DEFINE L == [p \in Priorities |-> << >>]
<1>1. InUse(NoQueues) = {} /\ NoQueues.node = << >>
  BY DEF InUse, NoQueues
<1>2. QueueType(NoQueues)
  <2>1. NoQueues.node \in [InUse(NoQueues) -> NodeRecord]
    BY <1>1
  <2> QED
    BY <1>1, <2>1 DEF QueueType, NoQueues
<1>3. \A p \in Priorities : L[p] = << >>
  OBVIOUS
<1>4. << >> \in Seq(InUse(NoQueues)) /\ Len(<< >>) = 0
  OBVIOUS
<1>5. L \in [Priorities -> Seq(InUse(NoQueues))]
  BY <1>4
<1> HIDE DEF L
<1>6. ASSUME NEW p \in Priorities PROVE Chain(NoQueues, p, L[p])
  <2>1. NoQueues.count[p] = 0 /\ NoQueues.front[p] = NULL
    BY DEF NoQueues
  <2>2. L[p] \in Seq(InUse(NoQueues)) /\ Len(L[p]) = 0
    BY <1>3, <1>4
  <2>3. \A i \in 1 .. Len(L[p]) - 1 : FALSE
    BY <2>2
  <2> QED
    BY <2>1, <2>2, <2>3, ChainFrom
<1>7. Apart(L)
  BY <1>3, <1>4 DEF Apart
<1>8. AreLists(NoQueues, L) /\ Complete(NoQueues, L)
  <2>1. \A p \in Priorities : NoQueues.end[p] = NULL /\ NoQueues.count[p] = 0
    BY DEF NoQueues
  <2>2. \A p \in Priorities : Len(L[p]) = 0
    BY <1>3, <1>4
  <2>3. Complete(NoQueues, L)
    BY <1>1, <2>1, <2>2 DEF Complete, EndsAtLast
  <2>4. AreLists(NoQueues, L)
    BY <1>2, <1>5, <1>6, <1>7, <2>1 DEF AreLists
  <2> QED
    BY <2>3, <2>4
<1>9. QueuedUpto(0) = {}
  BY DEF QueuedUpto
<1> QED
  BY <1>1, <1>8, <1>9, FS_EmptySet DEF BootGood

LEMMA BootStepGood ==
    ASSUME NEW i \in 1 .. Len(Order), NEW q, BootGood(q, i - 1), NEW e, e = BootStep(q, i)
    PROVE  BootGood(e, i)
<1>1. Len(Order) \in Nat /\ i \in Nat /\ i - 1 \in Nat
  BY ThreadsAre
<1>2. \A j : j \in 1 .. i <=> j \in 1 .. i - 1 \/ j = i
  BY <1>1
<1>3. CASE Order[i] \notin Queued
  <2>1. QueuedUpto(i) = QueuedUpto(i - 1)
    BY <1>2, <1>3 DEF QueuedUpto
  <2>2. e = q
    BY <1>3 DEF BootStep
  <2> QED
    BY <2>1, <2>2 DEF BootGood
<1>4. CASE Order[i] \in Queued
  <2>1. QueuedUpto(i) = QueuedUpto(i - 1) \cup {Order[i]}
    BY <1>2, <1>4 DEF QueuedUpto
  <2>2. Order[i] \notin QueuedUpto(i - 1)
    <3>1. ASSUME NEW j \in 1 .. i - 1 PROVE Order[j] # Order[i]
      <4>1. j \in 1 .. Len(Order) /\ j # i
        BY <1>1
      <4> QED
        BY <4>1, ThreadsAre
    <3> QED
      BY <3>1 DEF QueuedUpto
  <2>3. /\ IsFiniteSet(QueuedUpto(i)) /\ IsFiniteSet(QueuedUpto(i - 1))
        /\ Cardinality(QueuedUpto(i)) <= Cardinality(Queued)
        /\ Cardinality(QueuedUpto(i - 1)) \in Nat
    <3>1. QueuedUpto(i) \subseteq Queued /\ QueuedUpto(i - 1) \subseteq Queued
      BY DEF QueuedUpto
    <3> QED
      BY <3>1, QueuedFinite, FS_Subset, FS_CardinalityType
  <2>4. Cardinality(QueuedUpto(i)) = Cardinality(QueuedUpto(i - 1)) + 1
    BY <2>1, <2>2, <2>3, FS_AddElement
  <2>5. InUse(q) # Nodes
    BY <2>3, <2>4, NodesFinite, QueuedFinite, SchedulerAssumption DEF BootGood
  <2>6. PICK L : AreLists(q, L) /\ Complete(q, L)
    BY DEF BootGood
  <2>7. e = PspPushScheduleData(q, PriorityOf[Order[i]], Order[i])
    BY <1>4 DEF BootStep
  <2>8. PriorityOf[Order[i]] \in Priorities /\ Order[i] \in Threads
    BY ThreadsAre
  <2>9. /\ \E M : AreLists(e, M) /\ Complete(e, M)
        /\ \E n \in Nodes \ InUse(q) : InUse(e) = InUse(q) \cup {n}
    <3>1. /\ \E M : AreLists(e, M) /\ (InUse(q) # Nodes /\ Complete(q, L) => Complete(e, M))
          /\ InUse(q) # Nodes => \E n \in Nodes \ InUse(q) : InUse(e) = InUse(q) \cup {n}
      BY <2>6, <2>7, <2>8, PushFree
    <3> QED
      BY <2>5, <2>6, <3>1
  <2>10. PICK n \in Nodes \ InUse(q) : InUse(e) = InUse(q) \cup {n}
    BY <2>9
  <2>11. IsFiniteSet(InUse(e)) /\ Cardinality(InUse(e)) = Cardinality(InUse(q)) + 1
    BY <2>10, FS_AddElement DEF BootGood
  <2> QED
    BY <2>4, <2>9, <2>11 DEF BootGood
<1> QED
  BY <1>3, <1>4

LEMMA BootLists == \E L : AreLists(BootQueues, L) /\ Complete(BootQueues, L)
<1>1. PICK f : Boots(f, Len(Order)) /\ BootQueues = f[Len(Order)]
  BY BootQueuesIs
<1>2. Len(Order) \in Nat
  BY ThreadsAre
<1>3. \A i \in 0 .. Len(Order) : f[i] = IF i = 0 THEN NoQueues ELSE BootStep(f[i - 1], i)
  <2>1. \A i \in 0 .. Len(Order) : f[i] = [j \in 0 .. Len(Order) |-> IF j = 0 THEN NoQueues
                                                         ELSE BootStep(f[j - 1], j)][i]
    BY <1>1, Zenon DEF Boots
  <2> QED
    BY <2>1
<1> DEFINE Bad == {i \in 0 .. Len(Order) : ~ BootGood(f[i], i)}
<1>4. Bad = {}
  <2> SUFFICES ASSUME Bad # {} PROVE FALSE
    OBVIOUS
  <2>1. \E m \in Bad : \A y \in Bad : m <= y
    <3>1. Bad \subseteq Nat
      BY <1>2
    <3> HIDE DEF Bad
    <3> QED
      BY <3>1, LeastNumber
  <2>2. PICK m \in Bad : \A y \in Bad : m <= y
    BY <2>1
  <2>3. m \in 0 .. Len(Order) /\ ~ BootGood(f[m], m)
    BY <2>2
  <2>4. m # 0
    BY <1>2, <1>3, <2>3, NoQueuesGood
  <2>5. m \in 1 .. Len(Order) /\ m - 1 \in 0 .. Len(Order) /\ m - 1 < m
    BY <1>2, <2>3, <2>4
  <2>6. BootGood(f[m - 1], m - 1)
    BY <2>2, <2>5
  <2>7. f[m] = BootStep(f[m - 1], m)
    BY <1>3, <2>3, <2>4
  <2> QED
    BY <2>3, <2>5, <2>6, <2>7, BootStepGood
<1>5. BootGood(f[Len(Order)], Len(Order))
  BY <1>2, <1>4
<1> QED
  BY <1>1, <1>5 DEF BootGood

----------------------------------------------------------------------------
(* The switches.                                                           *)

QueuesInv ==
    /\ refused \in BOOLEAN
    /\ \E L : AreLists(queues, L) /\ (refused \/ Complete(queues, L))

LEMMA SwitchGood ==
    ASSUME StatusInv, QueuesInv, NEW p \in Priorities, PspSetupTaskSWEnv(p)
    PROVE  StatusInv' /\ QueuesInv'
<1> PICK L : AreLists(queues, L) /\ (refused \/ Complete(queues, L))
  BY DEF QueuesInv
<1>1. PICK k : k = Skipped(queues, p) + (IF HasEntry(queues, p) THEN 1 ELSE 0)
  OBVIOUS
<1>2. PICK taken : taken = PopEntries(queues, p, k)
  OBVIOUS
<1>3. PICK next : next = PspFindNextThreadScheduled(p)
  OBVIOUS
<1>4. PICK runs \in BOOLEAN : runs = (thread_status[current] = "RUNNING")
  OBVIOUS
<1>5. /\ refused' = (refused \/ (runs /\ InUse(taken) = Nodes))
      /\ queues' = IF runs THEN PspPushScheduleData(taken, PriorityOf[current], current) ELSE taken
      /\ thread_status' = [thread_status EXCEPT ![current] =
           IF next # current THEN "RUNNING" ELSE IF runs THEN "READY" ELSE @]
      /\ current' = next
  BY <1>1, <1>2, <1>3, <1>4 DEF PspSetupTaskSWEnv
<1>6. /\ Chain(queues, p, L[p]) /\ NodesOf(queues, p) = L[p]
      /\ Skipped(queues, p) \in 0 .. Len(L[p])
      /\ HasEntry(queues, p) <=> Skipped(queues, p) < Len(L[p])
  <2>1. Chain(queues, p, L[p]) /\ QueueType(queues)
    BY DEF AreLists
  <2> QED
    BY <2>1, NodesOfIs, SkippedIs
<1>7. Len(L[p]) \in Nat /\ \A i \in 1 .. Len(L[p]) : L[p][i] \in InUse(queues)
  BY ListFacts
<1>8. k \in 0 .. Len(L[p])
  BY <1>1, <1>6, <1>7
<1>9. current \in Threads /\ PriorityOf[current] \in Priorities
  BY ThreadsAre DEF StatusInv
<1>10. next \in Running
  <2>1. CASE HasEntry(queues, p)
    <3>1. Skipped(queues, p) + 1 \in 1 .. Len(L[p])
      BY <1>6, <1>7, <2>1
    <3>2. PICK n \in InUse(queues) : n = L[p][Skipped(queues, p) + 1]
      BY <1>7, <3>1
    <3>3. queues.node[n].thread \in Threads
      BY DEF AreLists, QueueType, NodeRecord
    <3>4. next = NextRunnable(queues.node[n].thread)
      BY <1>3, <1>6, <2>1, <3>2 DEF PspFindNextThreadScheduled
    <3> QED
      BY <3>3, <3>4, NextIsRunning
  <2>2. CASE ~HasEntry(queues, p)
    <3>1. next = NextRunnable(current)
      BY <1>3, <2>2 DEF PspFindNextThreadScheduled
    <3> QED
      BY <1>9, <3>1, NextIsRunning
  <2> QED
    BY <2>1, <2>2
<1>11. StatusInv'
  BY <1>5, <1>10, SwitchStatus
<1>12. PICK M : AreLists(taken, M) /\ (Complete(queues, L) => Complete(taken, M))
  BY <1>2, <1>8, PopGood
<1>13. refused' \in BOOLEAN /\ \E N : AreLists(queues', N) /\ (refused' \/ Complete(queues', N))
  <2>1. CASE runs
    <3>1. PICK e : e = PspPushScheduleData(taken, PriorityOf[current], current)
      OBVIOUS
    <3>2. queues' = e
      BY <1>5, <2>1, <3>1
    <3>3. PICK N : AreLists(e, N) /\ (InUse(taken) # Nodes /\ Complete(taken, M) => Complete(e, N))
      BY <1>9, <1>12, <3>1, PushFree
    <3>4. refused' = (refused \/ InUse(taken) = Nodes)
      BY <1>5, <2>1, Zenon
    <3>5. refused' \/ Complete(e, N)
      BY <1>12, <3>3, <3>4, Zenon
    <3>6. refused' \in BOOLEAN
      BY <3>4, Zenon
    <3> QED
      BY <3>2, <3>3, <3>5, <3>6, Zenon
  <2>2. CASE ~runs
    <3>1. queues' = taken
      BY <1>5, <2>2
    <3>2. refused' = (refused \/ FALSE)
      BY <1>5, <2>2, Zenon
    <3>3. refused' \/ Complete(taken, M)
      BY <1>12, <3>2, Zenon
    <3>4. refused' \in BOOLEAN
      BY <3>2, Zenon
    <3> QED
      BY <1>12, <3>1, <3>3, <3>4, Zenon
  <2> QED
    BY <2>1, <2>2
<1> QED
  BY <1>11, <1>13, Zenon DEF QueuesInv

LEMMA TimerSpent ==
    ASSUME SpentType, Psp_IRQ_SystemTimer
    PROVE  SpentType' /\ priority' \in Priorities
<1>1. spent \in [Priorities -> Nat] /\ \A p \in Priorities : spent[p] <= Quota(p) /\ Quota(p) \in Nat
  BY Quotas DEF SpentType
<1>2. Turns \subseteq Priorities /\ Filled \subseteq Priorities
  BY DEF Turns, Filled
<1>3. CASE Turns # {}
  <2>1. PICK p \in Turns : p = Highest(Turns)
    BY <1>2, <1>3, HighestIs
  <2>2. priority' = p /\ spent' = [spent EXCEPT ![p] = @ + 1]
    BY <1>3, <2>1 DEF Psp_IRQ_SystemTimer, SpentAfter
  <2>3. p \in Priorities /\ spent[p] < Quota(p)
    BY <2>1 DEF Turns, HasTurn
  <2> QED
    BY <1>1, <2>2, <2>3 DEF SpentType
<1>4. CASE Turns = {}
  <2>1. priority' = Highest(Filled) /\ spent' = [r \in Priorities |-> 0]
    BY <1>4 DEF Psp_IRQ_SystemTimer, SpentAfter
  <2> QED
    BY <1>1, <1>2, <2>1, HighestIs DEF SpentType
<1> QED
  BY <1>3, <1>4

SchedulerInv ==
    /\ StatusInv
    /\ SpentType
    /\ priority \in Priorities
    /\ QueuesInv

LEMMA InitScheduler == Init => SchedulerInv
<1> SUFFICES ASSUME Init PROVE SchedulerInv
  OBVIOUS
<1>1. StatusInv
  BY InitStatus
<1>2. SpentType /\ priority \in Priorities
  BY Quotas DEF Init, SpentType
<1>3. queues = BootQueues
  BY DEF Init
<1>4. QueuesInv
  <2>1. refused \in BOOLEAN
    BY DEF Init
  <2>2. \E L : AreLists(queues, L) /\ Complete(queues, L)
    BY <1>3, BootLists, Zenon
  <2> QED
    BY <2>1, <2>2, Zenon DEF QueuesInv
<1> QED
  BY <1>1, <1>2, <1>4 DEF SchedulerInv

LEMMA NextScheduler ==
    ASSUME SchedulerInv, [Next]_vars
    PROVE  SchedulerInv'
<1>1. StatusInv /\ SpentType /\ priority \in Priorities
  BY DEF SchedulerInv
<1>2. QueuesInv
  BY DEF SchedulerInv
<1>3. CASE PspSoftTaskSW
  <2>1. PspSetupTaskSWEnv(priority) /\ priority' = priority /\ spent' = spent
    BY <1>3 DEF PspSoftTaskSW
  <2>2. StatusInv' /\ QueuesInv'
    BY <1>1, <1>2, <2>1, SwitchGood
  <2> QED
    BY <1>1, <2>1, <2>2 DEF SchedulerInv, SpentType
<1>4. CASE Psp_IRQ_SystemTimer
  <2>1. SpentType' /\ priority' \in Priorities
    BY <1>1, <1>4, TimerSpent
  <2>2. PspSetupTaskSWEnv(priority')
    BY <1>4 DEF Psp_IRQ_SystemTimer
  <2>3. PICK p \in Priorities : p = priority'
    BY <2>1
  <2>4. PspSetupTaskSWEnv(p)
    BY <1>4, <2>3 DEF Psp_IRQ_SystemTimer
  <2>5. StatusInv' /\ QueuesInv'
    BY <1>1, <1>2, <2>4, SwitchGood
  <2> QED
    BY <2>1, <2>5 DEF SchedulerInv
<1>5. CASE UNCHANGED vars
  <2>1. /\ queues' = queues /\ thread_status' = thread_status /\ current' = current
        /\ priority' = priority /\ spent' = spent /\ refused' = refused
    BY <1>5 DEF vars
  <2>2. QueuesInv'
    BY <1>2, <2>1, Zenon DEF QueuesInv
  <2> QED
    BY <1>1, <2>1, <2>2 DEF SchedulerInv, StatusInv, IsRunnable, SpentType
<1> QED
  BY <1>3, <1>4, <1>5 DEF Next

\* Whatever the timer and the threads that yield pop, skip and push, and whether
\* or not the memory manager has a node for every push, the queues stay three
\* separate lists of nodes in use; until a node is refused they hold every node.
THEOREM QueuesCorrect == Spec => []QueuesAreLists
<1>1. SchedulerInv => QueuesAreLists
  <2> SUFFICES ASSUME SchedulerInv PROVE QueuesAreLists
    OBVIOUS
  <2>1. PICK L : AreLists(queues, L) /\ (refused \/ Complete(queues, L))
    BY DEF SchedulerInv, QueuesInv
  <2>2. TypeOK
    <3>1. InUse(queues) \subseteq Nodes /\ \A p \in Priorities : queues.count[p] \in Nat
      BY <2>1 DEF AreLists, QueueType
    <3>2. \A p \in Priorities : spent[p] \in 0 .. Quota(p)
      BY Quotas DEF SchedulerInv, SpentType
    <3>3. refused \in BOOLEAN
      BY DEF SchedulerInv, QueuesInv
    <3> QED
      BY <3>1, <3>2, <3>3 DEF TypeOK, SchedulerInv, StatusInv, Running
  <2> QED
    BY <2>1, <2>2, ListsAreQueues
<1>2. SchedulerInv /\ [Next]_vars => SchedulerInv'
  BY NextScheduler
<1> QED
  BY <1>1, <1>2, InitScheduler, PTL DEF Spec
=============================================================================
