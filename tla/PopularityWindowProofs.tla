------------------------ MODULE PopularityWindowProofs ------------------------
(***************************************************************************)
(* Theorems about PopularityWindow, for any threads, replicas and calls,   *)
(* and for any widths, TTLs and leases: the checked instance is small.     *)
(***************************************************************************)
EXTENDS PopularityWindow, TLAPS

\* A key that is there was built before now, of buckets with clicks, has not
\* ended yet, and ends a TTL after it was built, if it ends.
KeyInv ==
    \A k \in Keys : key[k].built # Never =>
        /\ k \in clicked
        /\ key[k].built <= now /\ now < key[k].ends
        /\ key[k].ends \in {Forever, key[k].built + Ttl}

\* Until half a second before that time the key is there, and no older than
\* its TTL.
Backed(k, until) ==
    now + Half < until =>
        /\ key[k].built # Never
        /\ until <= key[k].ends + Half
        /\ until <= key[k].built + Ttl + Half

\* Whoever has a time until which to cache a key, in the cache or on the way to
\* it, has one until which the key is backed.
BackedInv ==
    /\ \A p \in Replicas : local[p].seen =>
          local[p].key \in Keys /\ Backed(local[p].key, local[p].until)
    /\ \A r \in Readers : stage[r] \in {"judge", "peer"} /\ got[r] > 0 =>
          Backed(Key(r), start[r] + got[r])
    /\ \A r \in Readers : stage[r] = "tell" /\ got[r] = 1 => Backed(Key(r), start[r] + Ttl)

WindowInv == WindowTypeOK /\ KeyInv /\ BackedInv

-----------------------------------------------------------------------------
LEMMA Basics ==
  /\ Readers \cap Pods = {}
  /\ Replica \in [Readers -> Replicas]
  /\ Horizon \in Nat
  /\ Ttl \in Nat /\ Ttl > 0 /\ Lease \in Nat /\ Retry \in Nat
  /\ Forever \in Nat /\ Forever > Horizon + Ttl
  /\ Never = -1 /\ NoKey = -1
  /\ Half \in Nat
BY WindowAssumption DEF WindowAssumption, Forever, Never, NoKey, Half

\* TTL rounds up by half a second at most.
LEMMA Rounds ==
  ASSUME NEW time \in Nat PROVE Rounded(time) \in Int /\ Rounded(time) <= time + Half
<1>1. Second \in Nat /\ Second > 0
  BY WindowAssumption DEF WindowAssumption
<1>2. PICK x \in Nat : x = time + Half
  BY Basics
<1>3. (x \div Second) * Second \in Int /\ (x \div Second) * Second <= x
  BY <1>1
<1> QED
  BY <1>2, <1>3 DEF Rounded

LEMMA KeyIsKey ==
  ASSUME NEW t \in 0 .. Horizon PROVE BucketStart(t) \in Keys
BY DEF Keys

LEMMA AbsentTyped ==
  /\ Absent \in [built : Nat \cup {Never}, ends : Nat]
  /\ Absent.built = Never
BY DEF Absent

\* What Goto leaves.
LEMMA Went ==
  ASSUME WindowTypeOK, NEW w \in Workers, NEW next \in ReaderStages \cup PodStages,
         NEW value \in Int, GotoWith(w, next, value)
  PROVE  /\ stage' \in [Workers -> ReaderStages \cup PodStages]
         /\ start' \in [Workers -> 0 .. now] /\ got' \in [Workers -> Int]
         /\ stage'[w] = next /\ got'[w] = value
         /\ next # "idle" => start' = start
         /\ \A v \in Workers : v # w =>
               stage'[v] = stage[v] /\ start'[v] = start[v] /\ got'[v] = got[v]
<1>1. now \in Nat /\ 0 \in 0 .. now
  BY DEF WindowTypeOK
<1> QED
  BY <1>1 DEF WindowTypeOK, GotoWith

\* What the commands of a rebuild leave.
LEMMA Built ==
  ASSUME WindowInv, NEW w \in Workers, NEW n \in 0 .. 3, Executed(w, n)
  PROVE  /\ key' \in [Keys -> [built : Nat \cup {Never}, ends : Nat]]
         /\ lease' \in [Keys -> [Kinds -> Nat]]
         /\ n > 0 /\ Key(w) \in clicked =>
               key'[Key(w)].built = now /\ key'[Key(w)].ends \in {Forever, now + Ttl}
         /\ n > 1 /\ Key(w) \in clicked => key'[Key(w)].ends = now + Ttl
         /\ n > 0 /\ Key(w) \notin clicked => key'[Key(w)].built = Never
         /\ \A k \in Keys : n = 0 \/ k # Key(w) => key'[k] = key[k]
<1>1. now \in Nat /\ now <= Horizon /\ start[w] \in 0 .. now
  BY Basics DEF WindowInv, WindowTypeOK
<1>7. Key(w) \in Keys
  BY <1>1, KeyIsKey, Basics DEF Key
<1>2. Kind(w) \in Kinds
  BY DEF Kind, Kinds
<1>3. now + Ttl \in Nat /\ Forever \in Nat
  BY <1>1, Basics
<1>4. lease' \in [Keys -> [Kinds -> Nat]]
  BY <1>7, <1>1, <1>2, Basics DEF WindowInv, WindowTypeOK, Executed
<1>5. CASE n = 0
  BY <1>4, <1>5 DEF WindowInv, WindowTypeOK, Executed
<1>6. CASE n # 0
  <2> DEFINE stored == Stored(Key(w), n)
  <2>1. key' = [key EXCEPT ![Key(w)] = stored]
    BY <1>6 DEF Executed
  <2>2. /\ stored \in [built : Nat \cup {Never}, ends : Nat]
        /\ Key(w) \in clicked => stored.built = now /\ stored.ends \in {Forever, now + Ttl}
        /\ n > 1 /\ Key(w) \in clicked => stored.ends = now + Ttl
        /\ Key(w) \notin clicked => stored.built = Never
    BY <1>1, <1>3, AbsentTyped DEF Stored
  <2> HIDE DEF stored
  <2>3. key \in [Keys -> [built : Nat \cup {Never}, ends : Nat]]
    BY DEF WindowInv, WindowTypeOK
  <2>4. key' \in [Keys -> [built : Nat \cup {Never}, ends : Nat]]
    BY <2>1, <2>2, <2>3
  <2>5. key'[Key(w)] = stored /\ \A k \in Keys : k # Key(w) => key'[k] = key[k]
    BY <1>7, <2>1, <2>3
  <2> QED
    BY <1>4, <1>6, <2>2, <2>4, <2>5
<1> QED
  BY <1>5, <1>6

-----------------------------------------------------------------------------
(* What was backed stays so.                                               *)

LEMMA RebuildKeepsBacked ==
  ASSUME WindowInv, NEW w \in Workers, NEW n \in 0 .. 3, Executed(w, n), now' = now,
         NEW k \in Keys, NEW until \in Int, Backed(k, until)
  PROVE  Backed(k, until)'
<1>1. now \in Nat /\ now <= Horizon /\ key[k].built \in Nat \cup {-1}
  BY Basics DEF WindowInv, WindowTypeOK
<1>2. CASE n = 0 \/ k # Key(w)
  BY <1>2, Built DEF Backed
<1>3. CASE n > 0 /\ k = Key(w)
  <2> SUFFICES ASSUME now + Half < until
               PROVE  key'[k].built # Never /\ until <= key'[k].ends + Half
                      /\ until <= key'[k].built + Ttl + Half
    BY DEF Backed
  <2>1. key[k].built # Never /\ until <= key[k].built + Ttl + Half
    BY DEF Backed
  <2>2. k \in clicked /\ key[k].built <= now
    BY <2>1 DEF WindowInv, KeyInv
  <2>3. key'[k].built = now /\ key'[k].ends \in {Forever, now + Ttl}
    BY <1>3, <2>2, Built
  <2> QED
    BY <1>1, <2>1, <2>2, <2>3, Basics
<1> QED
  BY <1>2, <1>3

LEMMA TickKeepsBacked ==
  ASSUME WindowInv, Tick, NEW k \in Keys, NEW until \in Int, Backed(k, until)
  PROVE  Backed(k, until)'
<1>1. now \in Nat /\ key[k].built \in Nat \cup {-1} /\ key[k].ends \in Nat
  BY Basics DEF WindowInv, WindowTypeOK
<1>2. now' = now + 1 /\ key'[k] = IF key[k].ends <= now' THEN Absent ELSE key[k]
  BY DEF Tick
<1> QED
  BY <1>1, <1>2, Basics DEF Backed

-----------------------------------------------------------------------------
(* The parts of the invariant.                                             *)

LEMMA WindowInit == Init => WindowInv
<1>1. ASSUME Init PROVE WindowTypeOK
  <2>1. NoEntry \in [key : Keys \cup {NoKey}, until : Nat, seen : BOOLEAN]
    BY DEF NoEntry
  <2> QED
    BY <1>1, <2>1, Basics, AbsentTyped DEF Init, WindowTypeOK, ReaderStages
<1>2. ASSUME Init PROVE KeyInv
  BY <1>2, AbsentTyped DEF Init, KeyInv
<1>3. ASSUME Init PROVE BackedInv
  BY <1>3 DEF Init, BackedInv, NoEntry, Workers
<1> QED
  BY <1>1, <1>2, <1>3 DEF WindowInv

\* A step of one worker that leaves the keys alone, and the caches too.
LEMMA QuietStep ==
  ASSUME WindowInv, NEW w \in Workers, NEW next \in ReaderStages \cup PodStages,
         NEW value \in Int, GotoWith(w, next, value),
         next \notin {"judge", "peer", "tell"},
         now' = now, clicked' = clicked, key' = key, local' = local,
         lease' \in [Keys -> [Kinds -> Nat]], events' \in [Replicas -> SUBSET Keys]
  PROVE  WindowInv'
<1>1. WindowTypeOK'
  BY Went DEF WindowInv, WindowTypeOK
<1>2. KeyInv'
  BY DEF WindowInv, KeyInv
<1>3. \A v \in Workers : stage'[v] \in {"judge", "peer", "tell"} =>
        stage'[v] = stage[v] /\ start'[v] = start[v] /\ got'[v] = got[v]
  BY Went DEF WindowInv
<1>4. BackedInv'
  BY <1>3 DEF WindowInv, BackedInv, Backed, Key, Workers
<1> QED
  BY <1>1, <1>2, <1>4 DEF WindowInv

\* A step of a reader that ends its load with an entry in the cache.
LEMMA CacheStep ==
  ASSUME WindowInv, NEW r \in Readers, NEW until \in Nat, NEW seen \in BOOLEAN,
         Cache(r, until, seen), GotoWith(r, "idle", 0),
         seen => Backed(Key(r), until),
         now' = now, clicked' = clicked, key' = key, lease' = lease, events' \in [Replicas -> SUBSET Keys]
  PROVE  WindowInv'
<1>1. r \in Workers /\ Replica[r] \in Replicas /\ now \in Nat /\ start[r] \in 0 .. Horizon
  BY Basics DEF Workers, WindowInv, WindowTypeOK
<1>2. Key(r) \in Keys
  BY <1>1, KeyIsKey DEF Key
<1> DEFINE entry == [key |-> Key(r), until |-> until, seen |-> seen]
<1>3. entry \in [key : Keys \cup {NoKey}, until : Nat, seen : BOOLEAN]
  BY <1>2
<1>4. local' = [local EXCEPT ![Replica[r]] = entry]
  BY DEF Cache
<1>5. local' \in [Replicas -> [key : Keys \cup {NoKey}, until : Nat, seen : BOOLEAN]]
  BY <1>1, <1>3, <1>4 DEF WindowInv, WindowTypeOK
<1>6. "idle" \in ReaderStages
  BY DEF ReaderStages
<1>7. WindowTypeOK'
  BY <1>1, <1>5, <1>6, Went DEF WindowInv, WindowTypeOK
<1>8. KeyInv'
  BY DEF WindowInv, KeyInv
<1>9. \A v \in Workers : stage'[v] \in {"judge", "peer", "tell"} =>
        stage'[v] = stage[v] /\ start'[v] = start[v] /\ got'[v] = got[v]
  BY <1>1, <1>6, Went DEF WindowInv
<1>10. \A p \in Replicas : local'[p].seen => local'[p].key \in Keys /\ Backed(local'[p].key, local'[p].until)
  BY <1>2, <1>4 DEF WindowInv, WindowTypeOK, BackedInv
<1>11. BackedInv'
  BY <1>9, <1>10 DEF WindowInv, BackedInv, Backed, Key, Workers
<1> QED
  BY <1>7, <1>8, <1>11 DEF WindowInv

\* A step that begins a load or a call.
LEMMA BeginStep ==
  ASSUME WindowInv, NEW w \in Workers, NEW next \in {"ttl", "lock"},
         start' = [start EXCEPT ![w] = now], stage' = [stage EXCEPT ![w] = next],
         UNCHANGED <<now, redisVars, local, events, got>>
  PROVE  WindowInv'
<1>1. now \in 0 .. now
  BY Basics DEF WindowInv, WindowTypeOK
<1>2. next \in ReaderStages
  BY DEF ReaderStages
<1>3. WindowTypeOK'
  BY <1>1, <1>2 DEF WindowInv, WindowTypeOK, redisVars
<1>4. KeyInv'
  BY DEF WindowInv, KeyInv, redisVars
<1>5. \A v \in Workers : stage'[v] \in {"judge", "peer", "tell"} =>
        stage'[v] = stage[v] /\ start'[v] = start[v]
  BY DEF WindowInv, WindowTypeOK
<1>6. BackedInv'
  BY <1>5 DEF WindowInv, BackedInv, Backed, Key, Workers, redisVars
<1> QED
  BY <1>3, <1>4, <1>6 DEF WindowInv

\* A reader learns how long its key will live: the time of its start is not
\* later than the time of the answer.
LEMMA AskStep ==
  ASSUME WindowInv, NEW r \in Readers, NEW from, NEW next \in {"judge", "peer"},
         AskTtl(r, from, next)
  PROVE  WindowInv'
<1> DEFINE k == Key(r)
           value == Remaining(k)
<1>1. r \in Workers /\ now \in Nat /\ now <= Horizon /\ start[r] \in 0 .. now
  BY Basics DEF Workers, WindowInv, WindowTypeOK
<1>2. k \in Keys
  BY <1>1, KeyIsKey, Basics DEF Key
<1>3. key[k].built \in Nat \cup {-1} /\ key[k].ends \in Nat
  BY <1>2, Basics DEF WindowInv, WindowTypeOK
<1>4. value \in Int
  <2>1. CASE key[k].built # Never
    <3>1. key[k].ends - now \in Nat
      BY <1>1, <1>2, <1>3, <2>1 DEF WindowInv, KeyInv
    <3> QED
      BY <3>1, Rounds DEF Remaining
  <2>2. CASE key[k].built = Never
    BY <2>2 DEF Remaining
  <2> QED
    BY <2>1, <2>2
<1>5. GotoWith(r, next, value) /\ UNCHANGED <<now, redisVars, local, events>>
  BY DEF AskTtl
<1>6. next \in ReaderStages \cup PodStages /\ next # "idle" /\ next # "tell"
  BY DEF ReaderStages
<1>7. value > 0 => Backed(k, start[r] + value)
  <2>1. HAVE value > 0
  <2>2. key[k].built # Never /\ key[k].ends # Forever /\ value = Rounded(key[k].ends - now)
    BY <1>1, <1>3, <2>1 DEF Remaining
  <2>3. key[k].ends = key[k].built + Ttl /\ key[k].ends - now \in Nat
    BY <1>1, <1>2, <1>3, <2>2 DEF WindowInv, KeyInv
  <2>4. value \in Int /\ value <= key[k].ends - now + Half
    BY <2>2, <2>3, Rounds
  <2> QED
    BY <1>1, <1>3, <2>2, <2>3, <2>4, Basics DEF Backed
<1> HIDE DEF value
<1>8. /\ stage'[r] = next /\ got'[r] = value /\ start' = start
      /\ \A v \in Workers : v # r => stage'[v] = stage[v] /\ got'[v] = got[v]
      /\ stage' \in [Workers -> ReaderStages \cup PodStages] /\ got' \in [Workers -> Int]
      /\ start' \in [Workers -> 0 .. now]
  BY <1>1, <1>4, <1>5, <1>6, Went DEF WindowInv
<1>9. WindowTypeOK' /\ KeyInv'
  BY <1>5, <1>8 DEF WindowInv, WindowTypeOK, KeyInv, redisVars
<1>10. BackedInv'
  BY <1>1, <1>5, <1>6, <1>7, <1>8 DEF WindowInv, BackedInv, Backed, Key, Workers, redisVars
<1> QED
  BY <1>9, <1>10 DEF WindowInv

\* A builder's pipeline, executed as far as n says.
LEMMA RebuildStep ==
  ASSUME WindowInv, NEW w \in Workers, NEW n \in 0 .. 3, NEW next \in {"tell", "unlock", "release"},
         NEW value \in {0, 1}, Executed(w, n), GotoWith(w, next, value),
         next = "tell" => n = 3 /\ w \in Readers /\ (value = 1 => Key(w) \in clicked),
         UNCHANGED <<now, clicked, local, events>>
  PROVE  WindowInv'
<1>1. now \in Nat /\ now <= Horizon /\ start[w] \in 0 .. now
  BY Basics DEF WindowInv, WindowTypeOK
<1>2. Key(w) \in Keys
  BY <1>1, KeyIsKey, Basics DEF Key
<1>3. next \in ReaderStages \cup PodStages /\ next \notin {"idle", "judge", "peer"}
  BY DEF ReaderStages, PodStages
<1>4. /\ stage'[w] = next /\ got'[w] = value /\ start' = start
      /\ \A v \in Workers : v # w => stage'[v] = stage[v] /\ got'[v] = got[v]
      /\ stage' \in [Workers -> ReaderStages \cup PodStages] /\ got' \in [Workers -> Int]
      /\ start' \in [Workers -> 0 .. now]
  BY <1>3, Went DEF WindowInv
<1>5. WindowTypeOK'
  BY <1>4, Built DEF WindowInv, WindowTypeOK
<1>6. KeyInv'
  <2> SUFFICES ASSUME NEW k \in Keys, key'[k].built # Never
               PROVE  /\ k \in clicked
                      /\ key'[k].built <= now /\ now < key'[k].ends
                      /\ key'[k].ends \in {Forever, key'[k].built + Ttl}
    BY DEF KeyInv
  <2>1. CASE n = 0 \/ k # Key(w)
    BY <2>1, Built DEF WindowInv, KeyInv
  <2>2. CASE n > 0 /\ k = Key(w)
    <3>1. k \in clicked
      BY <2>2, Built
    <3>2. key'[k].built = now /\ key'[k].ends \in {Forever, now + Ttl}
      BY <2>2, <3>1, Built
    <3> QED
      BY <1>1, <3>1, <3>2, Basics
  <2> QED
    BY <2>1, <2>2
<1>7. \A k \in Keys, until \in Int : Backed(k, until) => Backed(k, until)'
  BY RebuildKeepsBacked
<1>8. \A p \in Replicas : local'[p].seen => local'[p].key \in Keys /\ Backed(local[p].key, local[p].until)'
  BY <1>7 DEF WindowInv, WindowTypeOK, BackedInv
<1>9. \A r \in Readers : Key(r) \in Keys /\ start[r] \in Nat /\ got[r] \in Int
  BY KeyIsKey, Basics DEF WindowInv, WindowTypeOK, Key, Workers
<1>10. \A r \in Readers : stage'[r] \in {"judge", "peer"} /\ got'[r] > 0 =>
          Backed(Key(r), start[r] + got[r])' 
  <2> SUFFICES ASSUME NEW r \in Readers, stage'[r] \in {"judge", "peer"}, got'[r] > 0
               PROVE  Backed(Key(r), start[r] + got[r])'
    OBVIOUS
  <2>1. r # w /\ r \in Workers
    BY <1>3, <1>4 DEF Workers
  <2>2. stage'[r] = stage[r] /\ got'[r] = got[r] /\ start'[r] = start[r]
    BY <1>4, <2>1
  <2>3. Backed(Key(r), start[r] + got[r])
    BY <2>2 DEF WindowInv, BackedInv
  <2> QED
    BY <1>7, <1>9, <2>2, <2>3 DEF Backed, Key
<1>11. \A r \in Readers : stage'[r] = "tell" /\ got'[r] = 1 => Backed(Key(r), start[r] + Ttl)'
  <2> SUFFICES ASSUME NEW r \in Readers, stage'[r] = "tell", got'[r] = 1
               PROVE  Backed(Key(r), start[r] + Ttl)'
    OBVIOUS
  <2>1. CASE r = w
    <3>1. n = 3 /\ Key(w) \in clicked
      BY <1>4, <2>1
    <3>2. key'[Key(r)].built = now /\ key'[Key(r)].ends = now + Ttl
      BY <2>1, <3>1, Built
    <3> QED
      BY <1>1, <1>4, <2>1, <3>2, Basics DEF Backed, Key
  <2>2. CASE r # w
    <3>1. Backed(Key(r), start[r] + Ttl)
      BY <1>4, <2>2 DEF WindowInv, BackedInv, Workers
    <3> QED
      BY <1>4, <1>7, <1>9, <3>1, Basics DEF Backed, Key
  <2> QED
    BY <2>1, <2>2
<1>12. BackedInv'
  BY <1>8, <1>10, <1>11 DEF BackedInv
<1> QED
  BY <1>5, <1>6, <1>12 DEF WindowInv
LEMMA TickStep ==
  ASSUME WindowInv, Tick PROVE WindowInv'
<1>1. /\ now \in Nat /\ now < Horizon /\ now' = now + 1
      /\ UNCHANGED <<clicked, local, events, stage, start, got>>
  BY Basics DEF WindowInv, WindowTypeOK, Tick, workVars
<1>2. \A k \in Keys : key'[k] = IF key[k].ends <= now' THEN Absent ELSE key[k]
  BY DEF Tick
<1>3. key' \in [Keys -> [built : Nat \cup {Never}, ends : Nat]]
  BY AbsentTyped DEF WindowInv, WindowTypeOK, Tick
<1>4. lease' \in [Keys -> [Kinds -> Nat]]
  BY DEF WindowInv, WindowTypeOK, Tick
<1>5. WindowTypeOK'
  BY <1>1, <1>3, <1>4, Basics DEF WindowInv, WindowTypeOK
<1>6. KeyInv'
  <2> SUFFICES ASSUME NEW k \in Keys, key'[k].built # Never
               PROVE  /\ k \in clicked'
                      /\ key'[k].built <= now' /\ now' < key'[k].ends
                      /\ key'[k].ends \in {Forever, key'[k].built + Ttl}
    BY DEF KeyInv
  <2>1. key'[k] = key[k] /\ ~(key[k].ends <= now')
    BY <1>2, AbsentTyped
  <2>2. key[k].built \in Nat \cup {-1} /\ key[k].ends \in Nat
    BY Basics DEF WindowInv, WindowTypeOK
  <2> QED
    BY <1>1, <2>1, <2>2 DEF WindowInv, KeyInv
<1>7. \A k \in Keys, until \in Int : Backed(k, until) => Backed(k, until)'
  BY TickKeepsBacked
<1>8. \A r \in Readers : Key(r) \in Keys /\ start[r] \in Nat /\ got[r] \in Int
  BY KeyIsKey, Basics DEF WindowInv, WindowTypeOK, Key, Workers
<1>9. \A p \in Replicas : local'[p].seen =>
        local'[p].key \in Keys /\ Backed(local[p].key, local[p].until)'
  BY <1>1, <1>7 DEF WindowInv, WindowTypeOK, BackedInv
<1>10. \A r \in Readers : stage'[r] \in {"judge", "peer"} /\ got'[r] > 0 =>
         Backed(Key(r), start[r] + got[r])'
  BY <1>1, <1>7, <1>8 DEF WindowInv, BackedInv, Backed, Key
<1>11. \A r \in Readers : stage'[r] = "tell" /\ got'[r] = 1 => Backed(Key(r), start[r] + Ttl)'
  BY <1>1, <1>7, <1>8, Basics DEF WindowInv, BackedInv, Backed, Key
<1>12. BackedInv'
  BY <1>9, <1>10, <1>11 DEF BackedInv
<1> QED
  BY <1>5, <1>6, <1>12 DEF WindowInv

\* A click.
LEMMA ClickStep ==
  ASSUME WindowInv, Click PROVE WindowInv'
<1>1. UNCHANGED <<now, key, lease, local, events, stage, start, got>>
  BY DEF Click, workVars
<1>2. clicked \subseteq clicked' /\ clicked' \in SUBSET Keys
  BY DEF WindowInv, WindowTypeOK, Click
<1> QED
  BY <1>1, <1>2 DEF WindowInv, WindowTypeOK, KeyInv, BackedInv, Backed, Key

\* What the steps do to leases and events keeps their types.
LEMMA LeaseTyped ==
  ASSUME WindowInv, NEW w \in Workers
  PROVE  /\ Leased(w) \in [Keys -> [Kinds -> Nat]]
         /\ Release(w) => lease' \in [Keys -> [Kinds -> Nat]]
<1>1. now + Lease \in Nat /\ start[w] \in 0 .. Horizon
  BY Basics DEF WindowInv, WindowTypeOK
<1>2. Key(w) \in Keys /\ Kind(w) \in Kinds
  BY <1>1, KeyIsKey DEF Key, Kind, Kinds
<1>3. lease \in [Keys -> [Kinds -> Nat]]
  BY DEF WindowInv, WindowTypeOK
<1>4. ASSUME NEW time \in Nat
      PROVE  [lease EXCEPT ![Key(w)][Kind(w)] = time] \in [Keys -> [Kinds -> Nat]]
  BY <1>2, <1>3
<1> QED
  BY <1>1, <1>4 DEF Leased, Release

LEMMA EventsTyped ==
  ASSUME WindowInv, NEW r \in Readers
  PROVE  /\ [events EXCEPT ![Replica[r]] = @ \cup {Key(r)}] \in [Replicas -> SUBSET Keys]
         /\ [events EXCEPT ![Replica[r]] = @ \ {Key(r)}] \in [Replicas -> SUBSET Keys]
<1>1. Key(r) \in Keys
  BY KeyIsKey, Basics DEF WindowInv, WindowTypeOK, Key, Workers
<1> QED
  BY <1>1 DEF WindowInv, WindowTypeOK

LEMMA ReaderKeeps ==
  ASSUME WindowInv, NEW r \in Readers, Resolve(r) \/ ReaderStep(r) PROVE WindowInv'
<1> USE DEF Goto, redisVars
<1>1. r \in Workers /\ now \in Nat /\ start[r] \in Nat /\ got[r] \in Int
      /\ lease \in [Keys -> [Kinds -> Nat]] /\ events \in [Replicas -> SUBSET Keys]
  BY Basics DEF Workers, WindowInv, WindowTypeOK
<1>2. {"idle", "ttl", "lock", "sort", "rebuild", "tell", "unlock", "signal", "recheck"}
        \subseteq ReaderStages
  BY DEF ReaderStages
<1>3. CASE Resolve(r)
  BY <1>1, <1>3, BeginStep DEF Resolve
<1>4. CASE AskTtl(r, "ttl", "judge") \/ AskTtl(r, "recheck", "peer")
  BY <1>4, AskStep
<1>5. CASE AskFails(r)
  <2>1. lease' \in [Keys -> [Kinds -> Nat]]
    BY <1>1, <1>5, LeaseTyped DEF AskFails
  <2> QED
    BY <1>1, <1>2, <1>5, <2>1, QuietStep DEF AskFails
<1>6. CASE Judge(r)
  <2>1. UNCHANGED <<now, clicked, key, lease, events>> /\ stage[r] = "judge"
    BY <1>6 DEF Judge
  <2>2. CASE UNCHANGED local /\ (Goto(r, "idle") \/ Goto(r, "lock"))
    BY <1>1, <1>2, <2>1, <2>2, QuietStep
  <2>3. CASE got[r] > 0 /\ Cache(r, start[r] + got[r], TRUE) /\ Goto(r, "idle")
    <3>1. Backed(Key(r), start[r] + got[r]) /\ start[r] + got[r] \in Nat
      BY <1>1, <2>1, <2>3 DEF WindowInv, BackedInv
    <3> QED
      BY <1>1, <2>1, <2>3, <3>1, CacheStep
  <2> QED
    BY <1>6, <2>2, <2>3 DEF Judge
<1>7. CASE Acquire(r, "sort")
  <2>1. lease' \in [Keys -> [Kinds -> Nat]]
    BY <1>1, <1>7, LeaseTyped DEF Acquire
  <2>2. PICK value \in {0, 1} : GotoWith(r, "sort", value)
    BY <1>7 DEF Acquire
  <2>3. UNCHANGED <<now, clicked, key, local, events>>
    BY <1>7 DEF Acquire
  <2> QED
    BY <1>1, <1>2, <2>1, <2>2, <2>3, QuietStep
<1>8. CASE Sort(r)
  <2>1. events' \in [Replicas -> SUBSET Keys]
    BY <1>1, <1>8, EventsTyped DEF Sort
  <2>2. UNCHANGED <<now, clicked, key, lease, local>> /\ (Goto(r, "rebuild") \/ Goto(r, "recheck"))
    BY <1>8 DEF Sort
  <2> QED
    BY <1>1, <1>2, <2>1, <2>2, QuietStep
<1>9. CASE Rebuild(r)
  <2>1. CASE Executed(r, 3) /\ GotoWith(r, "tell", IF Key(r) \in clicked THEN 1 ELSE 0)
    BY <1>1, <1>9, <2>1, RebuildStep DEF Rebuild
  <2>2. CASE \E n \in 0 .. 3 : Executed(r, n) /\ Goto(r, "unlock")
    BY <1>1, <1>9, <2>2, RebuildStep DEF Rebuild
  <2> QED
    BY <1>9, <2>1, <2>2 DEF Rebuild
<1>10. CASE Tell(r)
  <2>1. start[r] + Ttl \in Nat /\ (got[r] = 1 => Backed(Key(r), start[r] + Ttl))
    BY <1>1, <1>10, Basics DEF Tell, WindowInv, BackedInv
  <2>2. events' \in [Replicas -> SUBSET Keys]
    BY <1>10, EventsTyped DEF Tell
  <2> DEFINE seen == got[r] = 1
  <2>3. seen \in BOOLEAN /\ Cache(r, start[r] + Ttl, seen)
    BY <1>10 DEF Tell
  <2> QED
    BY <1>1, <1>10, <2>1, <2>2, <2>3, CacheStep DEF Tell
<1>11. CASE Unlock(r)
  <2>1. lease' \in [Keys -> [Kinds -> Nat]]
    BY <1>1, <1>11, LeaseTyped DEF Unlock
  <2> QED
    BY <1>1, <1>2, <1>11, <2>1, QuietStep DEF Unlock
<1>12. CASE Signal(r)
  <2>1. events' \in [Replicas -> SUBSET Keys]
    BY <1>12, EventsTyped DEF Signal
  <2> QED
    BY <1>1, <1>2, <1>12, <2>1, QuietStep DEF Signal
<1>14. CASE Peer(r)
  <2>1. UNCHANGED <<now, clicked, key, lease, events>> /\ stage[r] = "peer" /\ Goto(r, "idle")
    BY <1>14 DEF Peer
  <2>2. CASE got[r] > 0
    <3>1. Backed(Key(r), start[r] + got[r]) /\ start[r] + got[r] \in Nat
      BY <1>1, <2>1, <2>2 DEF WindowInv, BackedInv
    <3> QED
      BY <1>1, <1>14, <2>1, <2>2, <3>1, CacheStep DEF Peer
  <2>3. CASE ~(got[r] > 0)
    <3>1. start[r] + Retry \in Nat
      BY <1>1, Basics
    <3> QED
      BY <1>1, <1>14, <2>1, <2>3, <3>1, CacheStep DEF Peer
  <2> QED
    BY <2>2, <2>3
<1> QED
  BY <1>3, <1>4, <1>5, <1>6, <1>7, <1>8, <1>9, <1>10, <1>11, <1>12, <1>14 DEF ReaderStep

LEMMA PodKeeps ==
  ASSUME WindowInv, NEW p \in Pods, PodBegin(p) \/ PodStep(p) PROVE WindowInv'
<1> USE DEF Goto, redisVars
<1>1. p \in Workers /\ lease \in [Keys -> [Kinds -> Nat]] /\ events \in [Replicas -> SUBSET Keys]
  BY DEF Workers, WindowInv, WindowTypeOK
<1>2. {"idle", "rebuild", "release"} \subseteq PodStages
  BY DEF PodStages
<1>3. CASE PodBegin(p)
  BY <1>1, <1>3, BeginStep DEF PodBegin
<1>4. CASE PodAcquire(p)
  <2>1. PICK next \in {"rebuild", "idle"} : Acquire(p, next)
    BY <1>4 DEF PodAcquire
  <2>2. lease' \in [Keys -> [Kinds -> Nat]]
    BY <1>1, <2>1, LeaseTyped DEF Acquire
  <2>3. PICK value \in {0, 1} : GotoWith(p, next, value)
    BY <2>1 DEF Acquire
  <2>4. UNCHANGED <<now, clicked, key, local, events>>
    BY <2>1 DEF Acquire
  <2> QED
    BY <1>1, <1>2, <2>2, <2>3, <2>4, QuietStep
<1>5. CASE AskFails(p)
  <2>1. lease' \in [Keys -> [Kinds -> Nat]]
    BY <1>1, <1>5, LeaseTyped DEF AskFails
  <2> QED
    BY <1>1, <1>2, <1>5, <2>1, QuietStep DEF AskFails
<1>6. CASE PodRebuild(p)
  BY <1>1, <1>6, RebuildStep DEF PodRebuild
<1>7. CASE PodRelease(p)
  <2>1. lease' \in [Keys -> [Kinds -> Nat]]
    BY <1>1, <1>7, LeaseTyped DEF PodRelease
  <2> QED
    BY <1>1, <1>2, <1>7, <2>1, QuietStep DEF PodRelease
<1> QED
  BY <1>3, <1>4, <1>5, <1>6, <1>7 DEF PodStep

LEMMA WindowStep == WindowInv /\ [Next]_vars => WindowInv'
<1>1. ASSUME WindowInv, UNCHANGED vars PROVE WindowInv'
  BY <1>1 DEF vars, redisVars, workVars, WindowInv, WindowTypeOK, KeyInv, BackedInv, Backed, Key
<1> QED
  BY <1>1, ClickStep, TickStep, ReaderKeeps, PodKeeps DEF Next

LEMMA WindowInvariance == Spec => []WindowInv
BY WindowInit, WindowStep, PTL DEF Spec

-----------------------------------------------------------------------------
\* Keys, leases, caches and workers hold what the code gives them.
THEOREM WindowTypeCorrect == Spec => []WindowTypeOK
BY WindowInvariance, PTL DEF WindowInv

\* An entry of the local cache that was made of an answer about the key, or of
\* a union with clicks, is taken without asking Redis only while the materialized
\* window is there, no older than its TTL, up to the half second by which TTL may
\* round: no interleaving of the phases of
\* _resolve_materialized_popularity_windows, no second builder and no half
\* executed pipeline makes an entry outlive its key by more.
THEOREM CacheNeverOutlives == Spec => []CachedKeyLives
<1>1. WindowInv => CachedKeyLives
  <2> SUFFICES ASSUME WindowInv, NEW p \in Replicas, local[p].seen, now + Half < local[p].until
               PROVE  /\ key[local[p].key].built # Never
                      /\ now - key[local[p].key].built <= Ttl
    BY DEF CachedKeyLives
  <2>1. local[p].key \in Keys /\ Backed(local[p].key, local[p].until)
    BY DEF WindowInv, BackedInv
  <2>2. /\ now \in Nat /\ local[p].until \in Nat
        /\ key[local[p].key].built \in Nat \cup {-1}
    BY <2>1, Basics DEF WindowInv, WindowTypeOK
  <2> QED
    BY <2>1, <2>2, Basics DEF Backed
<1> QED
  BY <1>1, WindowInvariance, PTL
-----------------------------------------------------------------------------
(* The events of rebuilds.                                                 *)

LEMMA EventsStep ==
  WindowInv /\ EventsHaveBuilder /\ [Next]_vars => EventsHaveBuilder'
<1> SUFFICES ASSUME WindowInv, EventsHaveBuilder, [Next]_vars,
                    NEW p \in Replicas, NEW k \in events'[p]
             PROVE  \E r \in Readers : Replica[r] = p /\ Building(r)' /\ Key(r)' = k
  BY DEF EventsHaveBuilder
<1> USE DEF Goto
<1> DEFINE Stages == ReaderStages \cup PodStages
<1>1. WindowTypeOK /\ events \in [Replicas -> SUBSET Keys] /\ Readers \subseteq Workers
  BY DEF WindowInv, WindowTypeOK, Workers
\* A step after which somebody who was building still is.
<1>2. ASSUME NEW w \in Workers, k \in events[p],
             \A v \in Workers : v # w => stage'[v] = stage[v] /\ start'[v] = start[v],
             \/ ~(w \in Readers /\ Building(w))
             \/ w \in Readers /\ Building(w)' /\ start'[w] = start[w]
             \/ w \in Readers /\ ~(Replica[w] = p /\ Key(w) = k)
      PROVE  \E r \in Readers : Replica[r] = p /\ Building(r)' /\ Key(r)' = k
  <2>1. PICK r \in Readers : Replica[r] = p /\ Building(r) /\ Key(r) = k
    BY <1>2 DEF EventsHaveBuilder
  <2>2. CASE r = w
    BY <1>2, <2>1, <2>2 DEF Key
  <2>3. CASE r # w
    BY <1>1, <1>2, <2>1, <2>3 DEF Key, Building
  <2> QED
    BY <2>2, <2>3
<1>3. CASE UNCHANGED vars \/ Tick \/ Click
  <2>1. UNCHANGED <<events, stage, start>>
    BY <1>3 DEF vars, workVars, Tick, Click
  <2> QED
    BY <2>1 DEF EventsHaveBuilder, Building, Key
<1>4. ASSUME NEW w \in Workers, NEW next \in Stages, NEW value \in Int, GotoWith(w, next, value)
      PROVE  /\ stage'[w] = next /\ (next # "idle" => start'[w] = start[w])
             /\ \A v \in Workers : v # w => stage'[v] = stage[v] /\ start'[v] = start[v]
  BY <1>1, <1>4, Went
<1>5. ASSUME NEW w \in Workers, NEW next, start' = [start EXCEPT ![w] = now],
             stage' = [stage EXCEPT ![w] = next]
      PROVE  \A v \in Workers : v # w => stage'[v] = stage[v] /\ start'[v] = start[v]
  BY <1>1, <1>5 DEF WindowTypeOK
<1>6. Stages = ReaderStages \cup PodStages
  OBVIOUS
<1> HIDE DEF Stages
<1>7. ASSUME NEW r \in Readers, Resolve(r) \/ ReaderStep(r)
      PROVE  \E v \in Readers : Replica[v] = p /\ Building(v)' /\ Key(v)' = k
  <2>1. r \in Workers
    BY <1>1
  <2>2. {"idle", "judge", "lock", "sort", "rebuild", "tell", "unlock", "signal", "recheck",
         "peer"} \subseteq Stages
    BY <1>6 DEF ReaderStages
  <2>3. CASE Resolve(r)
    BY <1>2, <1>5, <2>1, <2>3 DEF Resolve, Building
  <2>4. CASE AskTtl(r, "ttl", "judge") \/ AskTtl(r, "recheck", "peer")
    <3>1. PICK next, value : next \in {"judge", "peer"} /\ GotoWith(r, next, value)
      BY <2>4 DEF AskTtl
    <3> QED
      BY <1>1, <1>2, <2>1, <2>2, <2>4, Went DEF AskTtl, Building, GotoWith, WindowTypeOK
  <2>5. CASE AskFails(r)
    BY <1>2, <1>4, <2>1, <2>2, <2>5 DEF AskFails, Building
  <2>6. CASE Judge(r)
    <3>1. PICK next \in {"idle", "lock"} : GotoWith(r, next, 0)
      BY <2>6 DEF Judge
    <3>2. stage[r] = "judge" /\ events' = events
      BY <2>6 DEF Judge
    <3> QED
      BY <1>2, <1>4, <2>1, <2>2, <3>1, <3>2 DEF Building
  <2>7. CASE Acquire(r, "sort")
    BY <1>2, <1>4, <2>1, <2>2, <2>7 DEF Acquire, Building
  <2>8. CASE Sort(r)
    <3>1. stage[r] = "sort"
      BY <2>8 DEF Sort
    <3>2. CASE k \in events[p]
      BY <1>2, <1>4, <2>1, <2>2, <2>8, <3>1, <3>2 DEF Sort, Building
    <3>3. CASE k \notin events[p]
      <4>1. /\ events' = [events EXCEPT ![Replica[r]] = @ \cup {Key(r)}] /\ GotoWith(r, "rebuild", 0)
        BY <2>8, <3>3 DEF Sort
      <4>2. Replica[r] = p /\ Key(r) = k
        BY <1>1, <3>3, <4>1
      <4>3. stage'[r] = "rebuild" /\ start'[r] = start[r]
        BY <1>4, <2>1, <2>2, <4>1
      <4> QED
        BY <4>2, <4>3 DEF Building, Key
    <3> QED
      BY <3>2, <3>3
  <2>9. CASE Rebuild(r)
    BY <1>2, <1>4, <2>1, <2>2, <2>9 DEF Rebuild, Building
  <2>10. CASE Tell(r) \/ Signal(r)
    <3>1. events' = [events EXCEPT ![Replica[r]] = @ \ {Key(r)}] /\ GotoWith(r, "idle", 0)
      BY <2>10 DEF Tell, Signal
    <3>2. k \in events[p] /\ ~(Replica[r] = p /\ Key(r) = k)
      BY <1>1, <3>1
    <3> QED
      BY <1>2, <1>4, <2>1, <2>2, <3>1, <3>2
  <2>11. CASE Unlock(r)
    BY <1>2, <1>4, <2>1, <2>2, <2>11 DEF Unlock, Building
  <2>13. CASE Peer(r)
    BY <1>2, <1>4, <2>1, <2>2, <2>13 DEF Peer, Building
  <2> QED
    BY <1>7, <2>3, <2>4, <2>5, <2>6, <2>7, <2>8, <2>9, <2>10, <2>11, <2>13 DEF ReaderStep
<1>8. ASSUME NEW w \in Pods, PodBegin(w) \/ PodStep(w)
      PROVE  \E v \in Readers : Replica[v] = p /\ Building(v)' /\ Key(v)' = k
  <2>1. w \in Workers /\ w \notin Readers /\ events' = events
    BY <1>8, Basics DEF Workers, PodBegin, PodStep, PodAcquire, Acquire, AskFails, PodRebuild, PodRelease
  <2>2. \A v \in Workers : v # w => stage'[v] = stage[v] /\ start'[v] = start[v]
    <3>1. PICK next, value : GotoWith(w, next, value) \/ PodBegin(w)
      BY <1>8 DEF PodStep, PodAcquire, Acquire, AskFails, PodRebuild, PodRelease
    <3>2. stage \in [Workers -> ReaderStages \cup PodStages] /\ start \in [Workers -> 0 .. now]
      BY <1>1 DEF WindowTypeOK
    <3> QED
      BY <3>1, <3>2 DEF PodBegin, GotoWith
  <2> QED
    BY <1>2, <2>1, <2>2
<1> QED
  BY <1>3, <1>7, <1>8 DEF Next

\* "Clean up old events to prevent memory leak" (feature_reader.py:215): whenever a key
\* has an event registered in a replica, a thread of that replica is between
\* the registration and its removal, so that no path leaves one behind.
THEOREM EventsDoNotLeak == Spec => []EventsHaveBuilder
<1>1. Init => EventsHaveBuilder
  BY DEF Init, EventsHaveBuilder
<1> QED
  BY <1>1, EventsStep, WindowInvariance, PTL DEF Spec
=============================================================================
