----------------------- MODULE KafkaConsumerLoopProofs -----------------------
(***************************************************************************)
(* Proofs about KafkaConsumerLoop, for every number of groups, processes,  *)
(* partitions, records, crashes and rebalances.                            *)
(***************************************************************************)
EXTENDS KafkaConsumerLoop, TLAPS

-----------------------------------------------------------------------------
(* Type correctness.                                                       *)

LEMMA InitType == Init => TypeOK
  BY LoopAssumption DEF Init, LoopInit, TypeOK, Phases, NoOffsets

LEMMA RebalanceType ==
  ASSUME TypeOK, NEW g \in Groups, RebalanceStep(g)
  PROVE  TypeOK'
<1>1. PICK M \in SUBSET MembersOf(g) :
          \E A \in [M -> SUBSET PartitionsOf(g)] : Rebalance(g, M, A)
  BY DEF RebalanceStep
<1>2. PICK A \in [M -> SUBSET PartitionsOf(g)] : Rebalance(g, M, A)
  BY <1>1
<1>3. M \subseteq Consumers /\ PartitionsOf(g) \subseteq Partitions
  BY DEF MembersOf, PartitionsOf
<1>4. \A c \in M : A[c] \in SUBSET Partitions
  BY <1>2, <1>3
<1>5. rebalances' \in [Groups -> Nat] /\ fenced' \in [Consumers -> BOOLEAN]
  <2>1. rebalances' = [rebalances EXCEPT ![g] =
                           IF IsRunning(g) THEN @ + 1 ELSE @]
    BY <1>2 DEF Rebalance
  <2>2. rebalances' \in [Groups -> Nat]
    BY <2>1 DEF TypeOK
  <2>3. fenced' = [c \in Consumers |->
                      IF GroupOf[c] = g THEN c \notin M ELSE fenced[c]]
    BY <1>2 DEF Rebalance
  <2>4. \A c \in Consumers :
            (IF GroupOf[c] = g THEN c \notin M ELSE fenced[c]) \in BOOLEAN
    BY Zenon DEF TypeOK
  <2>5. fenced' \in [Consumers -> BOOLEAN]
    BY <2>3, <2>4, Zenon
  <2> QED
    BY <2>2, <2>5
<1>6. /\ assigned' \in [Consumers -> SUBSET Partitions]
      /\ position' \in [Consumers -> [Partitions -> Nat]]
      /\ next' \in [Consumers -> [Partitions -> Nat]]
      /\ clientPaused' \in [Consumers -> SUBSET Partitions]
  BY <1>2, <1>3, <1>4 DEF Rebalance, TypeOK
<1> QED
  BY <1>2, <1>5, <1>6 DEF Rebalance, TypeOK, history, backoff

LEMMA PollType ==
  ASSUME TypeOK, NEW c \in Consumers, PollStep(c)
  PROVE  TypeOK'
<1>1. PICK n \in Fetches, r \in SUBSET Partitions : Poll(c, n, r)
  BY DEF PollStep
<1>2. \A p \in Partitions : n[p] \in Nat /\ position[c][p] \in Nat
  BY <1>1, LoopAssumption DEF Fetches, TypeOK
<1>3. position' \in [Consumers -> [Partitions -> Nat]]
  BY <1>1, <1>2 DEF Poll, FreshPending, TypeOK
<1>4. abandoned' \in [Partitions -> SUBSET Nat]
  BY <1>1, <1>2 DEF Poll, FreshPending, TypeOK
<1>5. clientPaused' \in [Consumers -> SUBSET Partitions]
      /\ due' \in [Consumers -> SUBSET Partitions]
  BY <1>1 DEF Poll, FreshPending, ResumeReady, TypeOK
<1> QED
  BY <1>1, <1>3, <1>4, <1>5 DEF Poll, FreshPending, TypeOK, broker, NoOffsets, Phases

LEMMA ProcessType ==
  ASSUME TypeOK, NEW c \in Consumers, ProcessStep(c)
  PROVE  TypeOK'
<1>1. PICK p \in Partitions, out \in Outcomes : ProcessMessage(c, p, out)
  BY DEF ProcessStep
<1>2. next[c][p] \in Nat /\ position[c][p] \in Nat
  BY DEF TypeOK
<1>3. /\ next' \in [Consumers -> [Partitions -> Nat]]
      /\ pending' \in [Consumers -> [Partitions -> Nat]]
  BY <1>1, <1>2 DEF ProcessMessage, NextInBatch, TypeOK
<1>4. done' \in [Partitions -> SUBSET Nat]
  BY <1>1, <1>2 DEF ProcessMessage, NextInBatch, TypeOK
<1>5. /\ clientPaused' \in [Consumers -> SUBSET Partitions]
      /\ backingOff' \in [Consumers -> SUBSET Partitions]
      /\ due' \in [Consumers -> SUBSET Partitions]
  <2>1. CASE out = "deferred"
    <3>1. Defer(c, p)
      BY <1>1, <2>1 DEF ProcessMessage, NextInBatch
    <3> QED
      BY <3>1 DEF Defer, TypeOK
  <2>2. CASE out # "deferred"
    <3>1. UNCHANGED <<clientPaused, backoff>>
      BY <1>1, <2>2 DEF ProcessMessage, NextInBatch
    <3> QED
      BY <3>1 DEF backoff, TypeOK
  <2> QED
    BY <2>1, <2>2
<1> QED
  BY <1>1, <1>3, <1>4, <1>5 DEF ProcessMessage, NextInBatch, TypeOK, broker, Phases

LEMMA ExitType ==
  ASSUME TypeOK, NEW c \in Consumers, Exit(c), UNCHANGED <<logEnd, rebalances>>,
         committed' \in [Partitions -> Nat]
  PROVE  TypeOK'
<1>1. NoOffsets \in [Partitions -> Nat]
  BY DEF NoOffsets
<1> QED
  BY <1>1 DEF Exit, TypeOK, history, Phases

LEMMA CommitType ==
  ASSUME TypeOK, NEW c \in Consumers, Commit(c) \/ CommitFails(c)
  PROVE  TypeOK'
<1>1. Committed(c) \in [Partitions -> Nat]
  BY DEF Committed, TypeOK
<1>2. CASE Commit(c)
  BY <1>1, <1>2 DEF Commit, TypeOK, client, batch, backoff, history, Phases
<1>3. CASE CommitFails(c)
  <2>1. committed' \in [Partitions -> Nat]
    BY <1>1, <1>3 DEF CommitFails, TypeOK
  <2> QED
    BY <1>3, <2>1, ExitType DEF CommitFails
<1> QED
  BY <1>2, <1>3

LEMMA StepType == TypeOK /\ [Next]_vars => TypeOK'
<1> SUFFICES ASSUME TypeOK, [Next]_vars PROVE TypeOK'
  OBVIOUS
<1>1. ASSUME NEW p \in Partitions, Produce(p) PROVE TypeOK'
  BY <1>1 DEF Produce, TypeOK, client, batch, backoff, history
<1>2. ASSUME NEW g \in Groups, RebalanceStep(g) PROVE TypeOK'
  BY <1>2, RebalanceType
<1>3. ASSUME NEW c \in Consumers, NEW p \in Partitions, BackoffExpires(c, p)
      PROVE  TypeOK'
  BY <1>3 DEF BackoffExpires, TypeOK, broker, client, batch, history
<1>4. ASSUME NEW c \in Consumers, PollStep(c) PROVE TypeOK'
  BY <1>4, PollType
<1>5. ASSUME NEW c \in Consumers, PollRaises(c) \/ Crash(c) PROVE TypeOK'
  BY <1>5, ExitType DEF PollRaises, Crash, broker, TypeOK
<1>6. ASSUME NEW c \in Consumers, ProcessStep(c) PROVE TypeOK'
  BY <1>6, ProcessType
<1>7. ASSUME NEW c \in Consumers, Commit(c) \/ CommitFails(c) PROVE TypeOK'
  BY <1>7, CommitType
<1>8. ASSUME NEW c \in Consumers, Restart(c) PROVE TypeOK'
  BY <1>8 DEF Restart, TypeOK, broker, client, batch, backoff, history, Phases
<1>9. CASE UNCHANGED vars
  BY <1>9 DEF vars, TypeOK, broker, client, batch, backoff, history
<1> QED
  BY <1>1, <1>2, <1>3, <1>4, <1>5, <1>6, <1>7, <1>8, <1>9 DEF Next

\* Every variable keeps its type.
THEOREM TypeCorrect == Spec => []TypeOK
  BY InitType, StepType, PTL DEF Spec
-----------------------------------------------------------------------------
(* The inductive invariant.                                                *)

\* Offset o of p was processed safely or given up for good.
Accounted(p, o) == o \in done[p] \/ o \in abandoned[p]
AccountedBelow(p, n) == \A o \in Nat : o < n => Accounted(p, o)

CommittedAccounted == \A p \in Partitions : AccountedBelow(p, committed[p])

\* What an accepted member is about to process, or to commit, has everything
\* before it accounted for.  Nothing is claimed of a fenced one: its commits
\* are refused.
BatchAccounted ==
    \A c \in Consumers, p \in Partitions : ~fenced[c] =>
        /\ phase[c] = "process" /\ InBatch(c, p) => AccountedBelow(p, next[c][p])
        /\ phase[c] \in {"process", "commit"} /\ pending[c][p] > 0 =>
               AccountedBelow(p, pending[c][p])

\* Only one accepted member owns a partition, and only in its own group.
Ownership ==
    /\ \A c \in Consumers : assigned[c] \subseteq PartitionsOf(GroupOf[c])
    /\ \A c, d \in Consumers :
           c # d /\ ~fenced[c] /\ ~fenced[d] => assigned[c] \cap assigned[d] = {}

\* An accepted member is never behind the committed offset of what it owns,
\* and touches nothing else.
BatchOwned ==
    \A c \in Consumers, p \in Partitions : ~fenced[c] =>
        /\ p \in assigned[c] => committed[p] <= position[c][p]
        /\ phase[c] = "process" /\ InBatch(c, p) =>
               p \in assigned[c] /\ committed[p] <= next[c][p]
        /\ phase[c] \in {"process", "commit"} /\ pending[c][p] > 0 =>
               /\ p \in assigned[c]
               /\ committed[p] <= pending[c][p]
               /\ pending[c][p] <= position[c][p]

IInv ==
    /\ TypeOK
    /\ CommittedAccounted
    /\ BatchAccounted
    /\ Ownership
    /\ BatchOwned

Inductive ==
    CommittedAccounted /\ BatchAccounted /\ Ownership /\ BatchOwned

LEMMA InitIInv == Init => IInv
<1> SUFFICES ASSUME Init PROVE IInv
  OBVIOUS
<1>1. TypeOK
  BY InitType
<1>2. CommittedAccounted
  BY DEF Init, NoOffsets, CommittedAccounted, AccountedBelow
<1>3. BatchAccounted /\ Ownership /\ BatchOwned
  BY DEF Init, LoopInit, BatchAccounted, Ownership, BatchOwned
<1> QED
  BY <1>1, <1>2, <1>3 DEF IInv

\* Steps that leave the client, its batch and the committed offsets alone.
LEMMA QuietStep ==
  ASSUME IInv, UNCHANGED <<committed, fenced, assigned, position, next, pending>>,
         UNCHANGED history,
         \A c \in Consumers : phase'[c] \in {phase[c], "poll"}
  PROVE  Inductive'
  BY DEF IInv, Inductive, CommittedAccounted, BatchAccounted, Ownership,
         BatchOwned, AccountedBelow, Accounted, InBatch, history

LEMMA RebalanceIInv ==
  ASSUME IInv, NEW g \in Groups, RebalanceStep(g)
  PROVE  Inductive'
<1> USE DEF IInv
<1>1. PICK M \in SUBSET MembersOf(g) :
          \E A \in [M -> SUBSET PartitionsOf(g)] : Rebalance(g, M, A)
  BY DEF RebalanceStep
<1>2. PICK A \in [M -> SUBSET PartitionsOf(g)] : Rebalance(g, M, A)
  BY <1>1
<1>3. \A c \in M : c \in Consumers /\ GroupOf[c] = g
                   /\ A[c] \subseteq PartitionsOf(g) /\ phase[c] = "poll"
  BY <1>2 DEF MembersOf, Rebalance
<1>4. UNCHANGED <<committed, phase, pending, done, abandoned>>
  BY <1>2 DEF Rebalance, history
<1>5. \A c \in Consumers :
          /\ ~fenced'[c] => c \in M \/ (GroupOf[c] # g /\ ~fenced[c])
          /\ c \in M => /\ assigned'[c] = A[c]
                        /\ position'[c] = committed
                        /\ next'[c] = committed
          /\ c \notin M => /\ assigned'[c] = assigned[c]
                           /\ position'[c] = position[c]
                           /\ next'[c] = next[c]
  <2>1. \A c \in Consumers : ~fenced'[c] => c \in M \/ (GroupOf[c] # g /\ ~fenced[c])
    <3>1. fenced' = [c \in Consumers |->
                        IF GroupOf[c] = g THEN c \notin M ELSE fenced[c]]
      BY <1>2 DEF Rebalance
    <3> QED
      BY <3>1, Zenon
  <2>2. \A c \in Consumers :
            /\ c \in M => /\ assigned'[c] = A[c]
                          /\ position'[c] = committed
                          /\ next'[c] = committed
            /\ c \notin M => /\ assigned'[c] = assigned[c]
                             /\ position'[c] = position[c]
                             /\ next'[c] = next[c]
    BY <1>2 DEF Rebalance
  <2> QED
    BY <2>1, <2>2
<1>6. CommittedAccounted'
  BY <1>4 DEF CommittedAccounted, AccountedBelow, Accounted
<1>7. BatchAccounted'
  BY <1>3, <1>4, <1>5 DEF BatchAccounted, AccountedBelow, Accounted, InBatch
<1>8. Ownership'
  <2>1. \A c \in Consumers : assigned'[c] \subseteq PartitionsOf(GroupOf[c])
    BY <1>3, <1>5 DEF Ownership
  <2>2. \A c, d \in M : c # d => A[c] \cap A[d] = {}
    BY <1>2 DEF Rebalance
  <2>3. ASSUME NEW c \in Consumers, NEW d \in Consumers, c # d,
               ~fenced'[c], ~fenced'[d]
        PROVE  assigned'[c] \cap assigned'[d] = {}
    <3>1. CASE c \in M /\ d \in M
      BY <3>1, <2>2, <2>3, <1>5
    <3>2. CASE c \in M /\ d \notin M
      BY <3>2, <2>1, <2>3, <1>3, <1>5 DEF PartitionsOf
    <3>3. CASE c \notin M /\ d \in M
      BY <3>3, <2>1, <2>3, <1>3, <1>5 DEF PartitionsOf
    <3>4. CASE c \notin M /\ d \notin M
      BY <3>4, <2>3, <1>5 DEF Ownership
    <3> QED
      BY <3>1, <3>2, <3>3, <3>4
  <2> QED
    BY <2>1, <2>3 DEF Ownership, PartitionsOf
<1>9. BatchOwned'
  BY <1>3, <1>4, <1>5 DEF BatchOwned, InBatch, TypeOK
<1> QED
  BY <1>6, <1>7, <1>8, <1>9 DEF Inductive

LEMMA PollIInv ==
  ASSUME IInv, NEW c \in Consumers, PollStep(c)
  PROVE  Inductive'
<1> USE DEF IInv
<1>1. PICK n \in Fetches, r \in SUBSET Partitions : Poll(c, n, r)
  BY DEF PollStep
<1>2. \A p \in Partitions : n[p] \in Nat /\ position[c][p] \in Nat /\ committed[p] \in Nat
  BY LoopAssumption DEF Fetches, TypeOK
<1>3. UNCHANGED <<committed, fenced, assigned, done>>
  BY <1>1 DEF Poll, FreshPending, broker
<1>4. \A d \in Consumers : d # c =>
          /\ phase'[d] = phase[d]
          /\ position'[d] = position[d]
          /\ next'[d] = next[d]
          /\ pending'[d] = pending[d]
  BY <1>1 DEF Poll, FreshPending, TypeOK
<1>5. \A p \in Partitions :
          /\ position'[c][p] = position[c][p] + n[p]
          /\ next'[c][p] = position[c][p]
          /\ pending'[c][p] = 0
          /\ n[p] > 0 => p \in assigned[c]
  BY <1>1 DEF Poll, FreshPending, TypeOK, NoOffsets, Readable, Fetchable
<1>6. \A p \in Partitions :
          /\ abandoned[p] \subseteq abandoned'[p]
          /\ ~fenced[c] /\ n[p] > 0 =>
                 \A o \in Nat : committed[p] <= o /\ o < position[c][p] =>
                     o \in done[p] \/ o \in abandoned'[p]
  <2>1. ASSUME NEW p \in Partitions
        PROVE  abandoned'[p] =
                   IF n[p] = 0 \/ fenced[c] THEN abandoned[p]
                   ELSE abandoned[p] \cup
                        {o \in committed[p] .. position[c][p] - 1 : o \notin done[p]}
    BY <1>1 DEF Poll, FreshPending
  <2>2. ASSUME NEW p \in Partitions PROVE abandoned[p] \subseteq abandoned'[p]
    BY <2>1
  <2>3. ASSUME NEW p \in Partitions, ~fenced[c], n[p] > 0,
               NEW o \in Nat, committed[p] <= o, o < position[c][p]
        PROVE  o \in done[p] \/ o \in abandoned'[p]
    <3>1. abandoned'[p] = abandoned[p] \cup
              {i \in committed[p] .. position[c][p] - 1 : i \notin done[p]}
      <4>1. n[p] # 0
        BY <2>3, <1>2
      <4>2. ~(n[p] = 0 \/ fenced[c])
        BY <4>1, <2>3, Zenon
      <4> QED
        BY <4>2, <2>1, Zenon
    <3>2. o \in committed[p] .. position[c][p] - 1
      BY <2>3, <1>2
    <3> QED
      BY <3>1, <3>2
  <2> QED
    BY <2>2, <2>3
<1>7. CommittedAccounted'
  BY <1>3, <1>6 DEF CommittedAccounted, AccountedBelow, Accounted
<1>8. BatchAccounted'
  <2> SUFFICES ASSUME NEW d \in Consumers, NEW p \in Partitions, ~fenced[d]
               PROVE
          /\ phase'[d] = "process" /\ InBatch(d, p)' => AccountedBelow(p, next[d][p])'
          /\ phase'[d] \in {"process", "commit"} /\ pending'[d][p] > 0 =>
                 AccountedBelow(p, pending[d][p])'
    BY <1>3 DEF BatchAccounted
  <2>1. CASE d # c
    BY <2>1, <1>3, <1>4, <1>6 DEF BatchAccounted, AccountedBelow, Accounted, InBatch
  <2>2. CASE d = c
    <3>1. ~(pending'[d][p] > 0)
      BY <2>2, <1>5
    <3>2. ASSUME InBatch(d, p)' PROVE AccountedBelow(p, next[d][p])'
      <4>1. n[p] > 0
        BY <3>2, <2>2, <1>2, <1>5 DEF InBatch
      <4>2. ASSUME NEW o \in Nat, o < position[c][p]
            PROVE  o \in done[p] \/ o \in abandoned'[p]
        <5>1. CASE o < committed[p]
          BY <5>1, <1>6 DEF CommittedAccounted, AccountedBelow, Accounted
        <5>2. CASE committed[p] <= o
          BY <5>2, <4>1, <4>2, <2>2, <1>6
        <5> QED
          BY <5>1, <5>2, <1>2
      <4> QED
        BY <4>2, <2>2, <1>3, <1>5 DEF AccountedBelow, Accounted
    <3> QED
      BY <3>1, <3>2
  <2> QED
    BY <2>1, <2>2
<1>9. Ownership'
  BY <1>3 DEF Ownership
<1>10. BatchOwned'
  <2> SUFFICES ASSUME NEW d \in Consumers, NEW p \in Partitions, ~fenced[d]
               PROVE
          /\ p \in assigned[d] => committed[p] <= position'[d][p]
          /\ phase'[d] = "process" /\ InBatch(d, p)' =>
                 p \in assigned[d] /\ committed[p] <= next'[d][p]
          /\ phase'[d] \in {"process", "commit"} /\ pending'[d][p] > 0 =>
                 /\ p \in assigned[d]
                 /\ committed[p] <= pending'[d][p]
                 /\ pending'[d][p] <= position'[d][p]
    BY <1>3 DEF BatchOwned
  <2>1. CASE d # c
    BY <2>1, <1>4 DEF BatchOwned, InBatch
  <2>2. CASE d = c
    <3>1. p \in assigned[c] => committed[p] <= position[c][p]
      BY <2>2 DEF BatchOwned
    <3>2. InBatch(d, p)' => p \in assigned[c]
      BY <2>2, <1>2, <1>5 DEF InBatch
    <3> QED
      BY <3>1, <3>2, <2>2, <1>2, <1>5
  <2> QED
    BY <2>1, <2>2
<1> QED
  BY <1>7, <1>8, <1>9, <1>10 DEF Inductive

LEMMA ProcessIInv ==
  ASSUME IInv, NEW c \in Consumers, ProcessStep(c)
  PROVE  Inductive'
<1> USE DEF IInv
<1>1. PICK p \in Partitions, out \in Outcomes : ProcessMessage(c, p, out)
  BY DEF ProcessStep
<1>2. /\ phase[c] = "process"
      /\ InBatch(c, p)
      /\ UNCHANGED <<committed, fenced, assigned, position, abandoned>>
  BY <1>1 DEF ProcessMessage, NextInBatch, broker
<1>3. \A d \in Consumers : d # c =>
          phase'[d] = phase[d] /\ next'[d] = next[d] /\ pending'[d] = pending[d]
  BY <1>1 DEF ProcessMessage, NextInBatch, TypeOK
<1>4. /\ next'[c][p] = IF out = "safe" THEN next[c][p] + 1 ELSE position[c][p]
      /\ pending'[c][p] = IF out = "safe" THEN next[c][p] + 1 ELSE pending[c][p]
      /\ \A q \in Partitions : q # p =>
             next'[c][q] = next[c][q] /\ pending'[c][q] = pending[c][q]
  BY <1>1 DEF ProcessMessage, NextInBatch, TypeOK
<1>5. /\ \A q \in Partitions : done[q] \subseteq done'[q]
      /\ out = "safe" => next[c][p] \in done'[p]
  BY <1>1 DEF ProcessMessage, NextInBatch, TypeOK
<1>6. \A d \in Consumers, q \in Partitions :
          /\ next[d][q] \in Nat
          /\ position[d][q] \in Nat
          /\ pending[d][q] \in Nat
          /\ committed[q] \in Nat
  BY DEF TypeOK
<1>7. CommittedAccounted'
  BY <1>2, <1>5 DEF CommittedAccounted, AccountedBelow, Accounted
<1>8. ~fenced[c] /\ out = "safe" =>
          \A o \in Nat : o < next[c][p] + 1 => Accounted(p, o)'
  <2> SUFFICES ASSUME ~fenced[c], out = "safe", NEW o \in Nat, o < next[c][p] + 1
               PROVE  o \in done'[p] \/ o \in abandoned'[p]
    BY DEF Accounted
  <2>1. CASE o = next[c][p]
    BY <2>1, <1>5
  <2>2. CASE o < next[c][p]
    BY <2>2, <1>2, <1>5 DEF BatchAccounted, AccountedBelow, Accounted
  <2> QED
    BY <2>1, <2>2, <1>6
<1>9. \A q \in Partitions, o \in Nat : Accounted(q, o) => Accounted(q, o)'
  BY <1>2, <1>5 DEF Accounted
<1>10. BatchAccounted'
  <2> SUFFICES ASSUME NEW d \in Consumers, NEW q \in Partitions, ~fenced[d]
               PROVE
          /\ phase'[d] = "process" /\ InBatch(d, q)' => AccountedBelow(q, next[d][q])'
          /\ phase'[d] \in {"process", "commit"} /\ pending'[d][q] > 0 =>
                 AccountedBelow(q, pending[d][q])'
    BY <1>2 DEF BatchAccounted, AccountedBelow, Accounted
  <2>1. CASE d # c \/ q # p
    <3>1. /\ phase'[d] \in {"process", "commit"} => phase[d] \in {"process", phase'[d]}
          /\ phase'[d] = "process" => phase[d] = "process"
      BY <1>2, <1>3
    <3>2. next'[d][q] = next[d][q] /\ pending'[d][q] = pending[d][q]
      BY <2>1, <1>3, <1>4
    <3>3. InBatch(d, q)' => InBatch(d, q)
      BY <3>2, <1>2 DEF InBatch
    <3> QED
      BY <3>1, <3>2, <3>3, <1>6, <1>9 DEF BatchAccounted, AccountedBelow, Accounted
  <2>2. CASE d = c /\ q = p /\ out = "safe"
    BY <2>2, <1>4, <1>8 DEF AccountedBelow, Accounted
  <2>3. CASE d = c /\ q = p /\ out # "safe"
    <3>1. ~InBatch(d, q)'
      BY <2>3, <1>2, <1>4, <1>6 DEF InBatch
    <3> QED
      BY <3>1, <2>3, <1>2, <1>4, <1>6, <1>9
         DEF BatchAccounted, AccountedBelow, Accounted
  <2> QED
    BY <2>1, <2>2, <2>3
<1>11. Ownership'
  BY <1>2 DEF Ownership
<1>12. BatchOwned'
  <2> SUFFICES ASSUME NEW d \in Consumers, NEW q \in Partitions, ~fenced[d]
               PROVE
          /\ q \in assigned[d] => committed[q] <= position[d][q]
          /\ phase'[d] = "process" /\ InBatch(d, q)' =>
                 q \in assigned[d] /\ committed[q] <= next'[d][q]
          /\ phase'[d] \in {"process", "commit"} /\ pending'[d][q] > 0 =>
                 /\ q \in assigned[d]
                 /\ committed[q] <= pending'[d][q]
                 /\ pending'[d][q] <= position[d][q]
    BY <1>2 DEF BatchOwned
  <2>1. CASE d # c
    BY <2>1, <1>2, <1>3 DEF BatchOwned, InBatch
  <2>2. CASE d = c /\ q # p
    BY <2>2, <1>2, <1>4 DEF BatchOwned, InBatch
  <2>3. CASE d = c /\ q = p
    <3>1. p \in assigned[c] /\ committed[p] <= next[c][p]
      BY <2>3, <1>2 DEF BatchOwned
    <3>2. next[c][p] < position[c][p]
      BY <1>2 DEF InBatch
    <3>3. pending[c][p] > 0 => committed[p] <= pending[c][p] /\ pending[c][p] <= position[c][p]
      BY <2>3, <1>2 DEF BatchOwned
    <3> QED
      BY <3>1, <3>2, <3>3, <2>3, <1>4, <1>6
  <2> QED
    BY <2>1, <2>2, <2>3
<1> QED
  BY <1>7, <1>10, <1>11, <1>12 DEF Inductive

\* What a commit, or a commit whose answer is lost, does to the offsets.
LEMMA CommittedOffsets ==
  ASSUME IInv, NEW c \in Consumers, phase[c] = "commit", ~fenced[c],
         committed' = Committed(c), UNCHANGED history
  PROVE  /\ \A p \in Partitions :
                /\ committed[p] <= committed'[p]
                /\ committed'[p] # committed[p] =>
                       p \in assigned[c] /\ committed'[p] <= position[c][p]
         /\ CommittedAccounted'
<1> USE DEF IInv
<1>1. \A p \in Partitions :
          \/ committed'[p] = committed[p]
          \/ pending[c][p] > 0 /\ committed'[p] = pending[c][p]
  BY DEF Committed
<1>2. \A p \in Partitions :
          /\ committed[p] <= committed'[p]
          /\ committed'[p] # committed[p] =>
                 p \in assigned[c] /\ committed'[p] <= position[c][p]
  BY <1>1 DEF BatchOwned, TypeOK
<1>3. CommittedAccounted'
  BY <1>1 DEF CommittedAccounted, BatchAccounted, AccountedBelow, Accounted, history
<1> QED
  BY <1>2, <1>3

LEMMA CommitIInv ==
  ASSUME IInv, NEW c \in Consumers, Commit(c)
  PROVE  Inductive' /\ \A p \in Partitions : committed[p] <= committed'[p]
<1> USE DEF IInv
<1>1. /\ phase[c] = "commit"
      /\ ~fenced[c]
      /\ committed' = Committed(c)
      /\ UNCHANGED history
      /\ UNCHANGED <<fenced, assigned, position, next, pending, done, abandoned>>
  BY DEF Commit, client, batch, history
<1>2. phase'[c] = "poll" /\ \A d \in Consumers : d # c => phase'[d] = phase[d]
  BY DEF Commit, TypeOK
<1>3. /\ \A p \in Partitions :
             /\ committed[p] <= committed'[p]
             /\ committed'[p] # committed[p] =>
                    p \in assigned[c] /\ committed'[p] <= position[c][p]
      /\ CommittedAccounted'
  BY <1>1, CommittedOffsets
<1>4. BatchAccounted' /\ Ownership'
  BY <1>1, <1>2 DEF BatchAccounted, Ownership, AccountedBelow, Accounted, InBatch
<1>5. BatchOwned'
  <2> SUFFICES ASSUME NEW d \in Consumers, NEW p \in Partitions, ~fenced[d]
               PROVE
          /\ p \in assigned[d] => committed'[p] <= position[d][p]
          /\ phase'[d] = "process" /\ InBatch(d, p) =>
                 p \in assigned[d] /\ committed'[p] <= next[d][p]
          /\ phase'[d] \in {"process", "commit"} /\ pending[d][p] > 0 =>
                 /\ p \in assigned[d]
                 /\ committed'[p] <= pending[d][p]
                 /\ pending[d][p] <= position[d][p]
    BY <1>1 DEF BatchOwned, InBatch
  <2>1. CASE d = c
    BY <2>1, <1>2, <1>3 DEF BatchOwned
  <2>2. CASE d # c
    <3>1. p \in assigned[d] => committed'[p] = committed[p]
      BY <2>2, <1>1, <1>3 DEF Ownership
    <3> QED
      BY <3>1, <2>2, <1>2 DEF BatchOwned
  <2> QED
    BY <2>1, <2>2
<1> QED
  BY <1>3, <1>4, <1>5 DEF Inductive

LEMMA ExitIInv ==
  ASSUME IInv, NEW c \in Consumers, Exit(c),
         \/ committed' = committed
         \/ phase[c] = "commit" /\ ~fenced[c] /\ committed' = Committed(c)
  PROVE  Inductive' /\ \A p \in Partitions : committed[p] <= committed'[p]
<1> USE DEF IInv
<1>1. UNCHANGED history /\ UNCHANGED <<done, abandoned>>
  BY DEF Exit, history
<1>2. fenced'[c] = TRUE /\ assigned'[c] = {}
  BY DEF Exit, TypeOK
<1>3. \A d \in Consumers : d # c =>
          /\ fenced'[d] = fenced[d]
          /\ phase'[d] = phase[d]
          /\ assigned'[d] = assigned[d]
          /\ position'[d] = position[d]
          /\ next'[d] = next[d]
          /\ pending'[d] = pending[d]
  BY DEF Exit, TypeOK
<1>4. /\ \A p \in Partitions :
             /\ committed[p] <= committed'[p]
             /\ committed'[p] # committed[p] => ~fenced[c] /\ p \in assigned[c]
      /\ CommittedAccounted'
  <2>1. CASE committed' = committed
    BY <2>1, <1>1 DEF CommittedAccounted, AccountedBelow, Accounted, TypeOK
  <2>2. CASE phase[c] = "commit" /\ ~fenced[c] /\ committed' = Committed(c)
    BY <2>2, <1>1, CommittedOffsets
  <2> QED
    BY <2>1, <2>2
<1>5. BatchAccounted'
  BY <1>1, <1>2, <1>3 DEF BatchAccounted, AccountedBelow, Accounted, InBatch
<1>6. Ownership'
  BY <1>2, <1>3 DEF Ownership, PartitionsOf
<1>7. BatchOwned'
  <2> SUFFICES ASSUME NEW d \in Consumers, NEW p \in Partitions, d # c, ~fenced[d]
               PROVE
          /\ p \in assigned[d] => committed'[p] <= position[d][p]
          /\ phase[d] = "process" /\ InBatch(d, p) =>
                 p \in assigned[d] /\ committed'[p] <= next[d][p]
          /\ phase[d] \in {"process", "commit"} /\ pending[d][p] > 0 =>
                 /\ p \in assigned[d]
                 /\ committed'[p] <= pending[d][p]
                 /\ pending[d][p] <= position[d][p]
    BY <1>2, <1>3 DEF BatchOwned, InBatch
  <2>1. p \in assigned[d] => committed'[p] = committed[p]
    BY <1>4 DEF Ownership
  <2> QED
    BY <2>1 DEF BatchOwned
<1> QED
  BY <1>4, <1>5, <1>6, <1>7 DEF Inductive

\* Every step keeps the invariant and moves no committed offset back.
LEMMA StepIInv ==
  IInv /\ [Next]_vars =>
      IInv' /\ \A p \in Partitions : committed[p] <= committed'[p]
<1> SUFFICES ASSUME IInv, [Next]_vars
             PROVE  Inductive' /\ \A p \in Partitions : committed[p] <= committed'[p]
  BY StepType DEF IInv, Inductive
<1>0. \A p \in Partitions : committed[p] \in Nat
  BY DEF IInv, TypeOK
<1>1. ASSUME NEW p \in Partitions, Produce(p) PROVE Inductive' /\ committed' = committed
  BY <1>1, QuietStep DEF Produce, client, batch, history
<1>2. ASSUME NEW g \in Groups, RebalanceStep(g) PROVE Inductive' /\ committed' = committed
  BY <1>2, RebalanceIInv DEF RebalanceStep, Rebalance
<1>3. ASSUME NEW c \in Consumers, NEW p \in Partitions, BackoffExpires(c, p)
      PROVE  Inductive' /\ committed' = committed
  BY <1>3, QuietStep DEF BackoffExpires, broker, client, batch, history
<1>4. ASSUME NEW c \in Consumers, PollStep(c) PROVE Inductive' /\ committed' = committed
  BY <1>4, PollIInv DEF PollStep, Poll, FreshPending, broker
<1>5. ASSUME NEW c \in Consumers, PollRaises(c) \/ CommitFails(c) \/ Crash(c)
      PROVE  Inductive' /\ \A p \in Partitions : committed[p] <= committed'[p]
  BY <1>5, ExitIInv DEF PollRaises, CommitFails, Crash, broker
<1>6. ASSUME NEW c \in Consumers, ProcessStep(c) PROVE Inductive' /\ committed' = committed
  BY <1>6, ProcessIInv DEF ProcessStep, ProcessMessage, NextInBatch, broker
<1>7. ASSUME NEW c \in Consumers, Commit(c)
      PROVE  Inductive' /\ \A p \in Partitions : committed[p] <= committed'[p]
  BY <1>7, CommitIInv
<1>8. ASSUME NEW c \in Consumers, Restart(c) PROVE Inductive' /\ committed' = committed
  <2>1. \A d \in Consumers : phase'[d] \in {phase[d], "poll"}
    BY <1>8 DEF Restart, IInv, TypeOK
  <2> QED
    BY <1>8, <2>1, QuietStep DEF Restart, broker, client, batch
<1>9. UNCHANGED vars => Inductive' /\ committed' = committed
  BY QuietStep DEF vars, broker, client, batch, history
<1>10. committed' = committed => \A p \in Partitions : committed[p] <= committed'[p]
  BY <1>0
<1>11. CASE Next
  BY <1>1, <1>2, <1>3, <1>4, <1>5, <1>6, <1>7, <1>8, <1>10, <1>11 DEF Next
<1> QED
  BY <1>9, <1>10, <1>11

THEOREM Invariance == Spec => []IInv
<1>1. IInv /\ [Next]_vars => IInv'
  BY StepIInv
<1> QED
  BY <1>1, InitIInv, PTL DEF Spec

-----------------------------------------------------------------------------

\* Whatever is produced, killed, fenced or rebalanced, the group's committed
\* offset covers only offsets that some process handled safely and offsets
\* that the owner had itself polled past (kafka_loop.py:161-215).
THEOREM CommitIsJustified == Spec => []CommitJustified
<1>1. IInv => CommitJustified
  <2> SUFFICES ASSUME IInv, NEW p \in Partitions, NEW o \in 0 .. committed[p] - 1
               PROVE  o \in done[p] \/ o \in abandoned[p]
    BY DEF CommitJustified
  <2>1. committed[p] \in Nat
    BY DEF IInv, TypeOK
  <2>2. o \in Nat /\ o < committed[p]
    BY <2>1
  <2> QED
    BY <2>2 DEF IInv, CommittedAccounted, AccountedBelow, Accounted
<1> QED
  BY <1>1, Invariance, PTL

\* No commit of any process, late or repeated, moves a committed offset back.
THEOREM CommitsAreMonotonic == Spec => CommitNeverRegresses
<1>1. IInv /\ [Next]_vars => [\A p \in Partitions : committed'[p] >= committed[p]]_vars
  <2> SUFFICES ASSUME IInv, [Next]_vars
               PROVE  \A p \in Partitions : committed'[p] >= committed[p]
    OBVIOUS
  <2>1. \A p \in Partitions : committed[p] <= committed'[p]
    BY StepIInv
  <2>2. \A p \in Partitions : committed[p] \in Nat /\ committed'[p] \in Nat
    BY StepIInv DEF IInv, TypeOK
  <2> QED
    BY <2>1, <2>2
<1> QED
  BY <1>1, Invariance, PTL DEF Spec, CommitNeverRegresses

-----------------------------------------------------------------------------
(* No process is ever stuck.                                               *)

\* What a process has in hand fits where its thread is: a batch is there while
\* it processes and at no other time, and the partition it is busy with has
\* messages left.
InHand(c) ==
    /\ \A p \in Partitions : next[c][p] <= position[c][p]
    /\ phase[c] = "process" => \E p \in Partitions : InBatch(c, p)
    /\ phase[c] # "process" => next[c] = position[c]
    /\ current[c] # NoPartition => current[c] \in Partitions /\ InBatch(c, current[c])

BatchInHand == \A c \in Consumers : InHand(c)

\* The guards of the loop's own steps: poll() may always return nothing, a
\* commit succeeds or fails, a container that is down is started again, and
\* there is a message to process.
LoopCanGoOn(c) ==
    \/ phase[c] \in {"poll", "commit", "down"}
    \/ /\ phase[c] = "process"
       /\ \E p \in Partitions : InBatch(c, p) /\ current[c] \in {p, NoPartition}
LoopGoesOn == \A c \in Consumers : LoopCanGoOn(c)

LEMMA InitInHand == Init => BatchInHand
  BY DEF Init, LoopInit, BatchInHand, InHand, NoOffsets, InBatch

\* A process that has no batch is busy with no partition.
LEMMA NothingInHand ==
  ASSUME TypeOK, BatchInHand, NEW c \in Consumers, phase[c] # "process"
  PROVE  current[c] = NoPartition /\ next[c] = position[c]
  BY DEF TypeOK, BatchInHand, InHand, InBatch

LEMMA SameInHand ==
  ASSUME NEW c \in Consumers, InHand(c),
         UNCHANGED <<phase[c], next[c], position[c], current[c]>>
  PROVE  InHand(c)'
  BY DEF InHand, InBatch

LEMMA RebalanceInHand ==
  ASSUME TypeOK, BatchInHand, NEW g \in Groups, RebalanceStep(g)
  PROVE  BatchInHand'
<1>1. PICK M \in SUBSET MembersOf(g) :
          \E A \in [M -> SUBSET PartitionsOf(g)] : Rebalance(g, M, A)
  BY DEF RebalanceStep
<1>2. PICK A \in [M -> SUBSET PartitionsOf(g)] : Rebalance(g, M, A)
  BY <1>1
<1>3. ASSUME NEW c \in Consumers, c \in M PROVE InHand(c)'
  <2>1. phase[c] = "poll" /\ phase' = phase /\ current' = current
    BY <1>2, <1>3 DEF Rebalance
  <2>2. next'[c] = committed /\ position'[c] = committed
    BY <1>2, <1>3 DEF Rebalance
  <2>3. current[c] = NoPartition
    BY <2>1, NothingInHand
  <2>4. \A p \in Partitions : committed[p] \in Nat
    BY DEF TypeOK
  <2> QED
    BY <2>1, <2>2, <2>3, <2>4 DEF InHand
<1>4. ASSUME NEW c \in Consumers, c \notin M PROVE InHand(c)'
  <2>1. UNCHANGED <<phase[c], next[c], position[c], current[c]>>
    BY <1>2, <1>4 DEF Rebalance
  <2> QED
    BY <2>1, SameInHand DEF BatchInHand
<1> QED
  BY <1>3, <1>4 DEF BatchInHand

LEMMA PollInHand ==
  ASSUME TypeOK, BatchInHand, NEW c \in Consumers, PollStep(c)
  PROVE  InHand(c)'
<1>1. PICK n \in Fetches, r \in SUBSET Partitions : Poll(c, n, r)
  BY DEF PollStep
<1>2. \A p \in Partitions : n[p] \in Nat /\ position[c][p] \in Nat
  BY <1>1, LoopAssumption DEF Fetches, TypeOK
<1>3. /\ position'[c] = [p \in Partitions |-> position[c][p] + n[p]]
      /\ next'[c] = position[c]
      /\ current'[c] = NoPartition
      /\ phase'[c] = IF \E p \in Partitions : n[p] > 0 THEN "process" ELSE "poll"
  BY <1>1, NothingInHand DEF Poll, TypeOK
<1>4. \A p \in Partitions : next'[c][p] <= position'[c][p]
  BY <1>2, <1>3
<1>5. CASE \E p \in Partitions : n[p] > 0
  <2>1. \E p \in Partitions : InBatch(c, p)'
    BY <1>2, <1>3, <1>5 DEF InBatch
  <2> QED
    BY <2>1, <1>3, <1>4, <1>5 DEF InHand
<1>6. CASE ~ \E p \in Partitions : n[p] > 0
  <2>1. \A p \in Partitions : position[c][p] + n[p] = position[c][p]
    BY <1>2, <1>6
  <2>2. position[c] = [p \in Partitions |-> position[c][p]]
    BY DEF TypeOK
  <2>3. position'[c] = position[c]
    BY <2>1, <2>2, <1>3
  <2> QED
    BY <2>3, <1>3, <1>4, <1>6 DEF InHand
<1> QED
  BY <1>5, <1>6

LEMMA ProcessInHand ==
  ASSUME TypeOK, BatchInHand, NEW c \in Consumers, ProcessStep(c)
  PROVE  InHand(c)'
<1>1. PICK p \in Partitions, out \in Outcomes : ProcessMessage(c, p, out)
  BY DEF ProcessStep
<1> DEFINE n == NextInBatch(c, p, out)
           more == \E q \in Partitions \ {p} : InBatch(c, q)
<1>2. \A q \in Partitions :
          /\ next[c][q] \in Nat
          /\ position[c][q] \in Nat
          /\ next[c][q] <= position[c][q]
  BY DEF TypeOK, BatchInHand, InHand
<1>3. next[c][p] < position[c][p]
  BY <1>1 DEF ProcessMessage, InBatch
<1>4. n \in Nat /\ n <= position[c][p]
  BY <1>2, <1>3 DEF NextInBatch
<1>5. /\ next'[c] = [next[c] EXCEPT ![p] = n]
      /\ position' = position
      /\ current'[c] = IF n < position[c][p] THEN p ELSE NoPartition
      /\ n < position[c][p] \/ more => phase'[c] = "process"
      /\ ~(n < position[c][p] \/ more) => phase'[c] \in {"poll", "commit"}
  BY <1>1 DEF ProcessMessage, TypeOK
<1>6. /\ next'[c][p] = n
      /\ \A q \in Partitions \ {p} : next'[c][q] = next[c][q]
  BY <1>5 DEF TypeOK
<1>7. \A q \in Partitions : next'[c][q] <= position'[c][q]
  BY <1>2, <1>4, <1>5, <1>6
<1>8. InBatch(c, p)' <=> n < position[c][p]
  BY <1>5, <1>6 DEF InBatch
<1>9. \A q \in Partitions \ {p} : InBatch(c, q)' <=> InBatch(c, q)
  BY <1>5, <1>6 DEF InBatch
<1>10. CASE n < position[c][p] \/ more
  <2>1. \E q \in Partitions : InBatch(c, q)'
    BY <1>8, <1>9, <1>10
  <2>2. current'[c] # NoPartition => current'[c] \in Partitions /\ InBatch(c, p)' /\ current'[c] = p
    BY <1>5, <1>8
  <2> QED
    BY <2>1, <2>2, <1>5, <1>7, <1>10 DEF InHand, InBatch
<1>11. CASE ~(n < position[c][p] \/ more)
  <2>1. \A q \in Partitions : next'[c][q] = position[c][q]
    BY <1>2, <1>4, <1>6, <1>11 DEF InBatch
  <2>2. next'[c] = position[c]
    BY <2>1, <1>5 DEF TypeOK
  <2> QED
    BY <2>2, <1>5, <1>7, <1>11 DEF InHand
<1> QED
  BY <1>10, <1>11

LEMMA ExitInHand ==
  ASSUME TypeOK, NEW c \in Consumers, Exit(c)
  PROVE  InHand(c)'
  BY DEF Exit, TypeOK, InHand, NoOffsets

LEMMA StepInHand == TypeOK /\ BatchInHand /\ [Next]_vars => BatchInHand'
<1> SUFFICES ASSUME TypeOK, BatchInHand, [Next]_vars PROVE BatchInHand'
  OBVIOUS
<1> USE DEF BatchInHand
<1>1. ASSUME UNCHANGED <<phase, next, position, current>> PROVE BatchInHand'
  BY <1>1, SameInHand
<1>2. ASSUME NEW g \in Groups, RebalanceStep(g) PROVE BatchInHand'
  BY <1>2, RebalanceInHand
<1>3. ASSUME NEW c \in Consumers, InHand(c)',
             \A d \in Consumers \ {c} :
                 UNCHANGED <<phase[d], next[d], position[d], current[d]>>
      PROVE  BatchInHand'
  BY <1>3, SameInHand
<1>4. ASSUME NEW c \in Consumers, Exit(c) PROVE BatchInHand'
  BY <1>3, <1>4, ExitInHand DEF Exit, TypeOK
<1>5. ASSUME NEW c \in Consumers, PollStep(c) PROVE BatchInHand'
  <2>1. \A d \in Consumers \ {c} :
            UNCHANGED <<phase[d], next[d], position[d], current[d]>>
    BY <1>5 DEF PollStep, Poll, TypeOK
  <2> QED
    BY <2>1, <1>3, <1>5, PollInHand
<1>6. ASSUME NEW c \in Consumers, ProcessStep(c) PROVE BatchInHand'
  <2>1. \A d \in Consumers \ {c} :
            UNCHANGED <<phase[d], next[d], position[d], current[d]>>
    BY <1>6 DEF ProcessStep, ProcessMessage, TypeOK
  <2> QED
    BY <2>1, <1>3, <1>6, ProcessInHand
<1>7. ASSUME NEW c \in Consumers, Commit(c) \/ Restart(c) PROVE BatchInHand'
  <2>1. /\ phase[c] # "process" /\ phase'[c] # "process"
        /\ \A d \in Consumers \ {c} : phase'[d] = phase[d]
        /\ UNCHANGED <<next, position, current>>
    BY <1>7 DEF Commit, Restart, client, batch, TypeOK
  <2>2. InHand(c)'
    BY <2>1 DEF InHand, InBatch
  <2> QED
    BY <2>1, <2>2, <1>3
<1>8. CASE Next
  <2>1. ASSUME NEW p \in Partitions, Produce(p) PROVE BatchInHand'
    BY <2>1, <1>1 DEF Produce, client, batch
  <2>2. ASSUME NEW c \in Consumers, NEW p \in Partitions, BackoffExpires(c, p)
        PROVE  BatchInHand'
    BY <2>2, <1>1 DEF BackoffExpires, client, batch
  <2>3. ASSUME NEW c \in Consumers, PollRaises(c) \/ CommitFails(c) \/ Crash(c)
        PROVE  BatchInHand'
    BY <2>3, <1>4 DEF PollRaises, CommitFails, Crash
  <2> HIDE DEF BatchInHand
  <2> QED
    BY <2>1, <2>2, <2>3, <1>2, <1>5, <1>6, <1>7, <1>8, Zenon DEF Next
<1>9. CASE UNCHANGED vars
  BY <1>1, <1>9 DEF vars, client, batch
<1> QED
  BY <1>8, <1>9

THEOREM BatchesAreInHand == Spec => []BatchInHand
  BY InitInHand, StepInHand, TypeCorrect, PTL DEF Spec

\* No process of the loop is ever without a next step: the partition it is
\* busy with has a message left, and when the last one is done it commits or
\* polls (kafka_loop.py:164-215).
THEOREM LoopNeverStalls == Spec => []LoopGoesOn
<1>1. TypeOK /\ BatchInHand => LoopGoesOn
  <2> SUFFICES ASSUME TypeOK, BatchInHand, NEW c \in Consumers, phase[c] = "process"
               PROVE  \E p \in Partitions :
                          InBatch(c, p) /\ current[c] \in {p, NoPartition}
    BY DEF LoopGoesOn, LoopCanGoOn, TypeOK, Phases
  <2>1. InHand(c)
    BY DEF BatchInHand
  <2> QED
    BY <2>1 DEF InHand
<1> QED
  BY <1>1, TypeCorrect, BatchesAreInHand, PTL
=============================================================================
