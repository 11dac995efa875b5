-------------------------- MODULE MemoryStoreProofs --------------------------
(***************************************************************************)
(* What holds of the request log for every queue capacity, retention and   *)
(* flush interval and for any number of calls, ticks, failures, crashes    *)
(* and restarts, with a clock that may stand still over a restart and be   *)
(* set back.                                                               *)
(*                                                                         *)
(* The argument: "r{ts}_{seq}" is new among this process's ids, which have *)
(* smaller sequence numbers, and among those of earlier processes until    *)
(* the clock has fallen behind one of them (FreshIds); so an insert        *)
(* replaces a record of an earlier process or none, and every accepted     *)
(* record is in exactly one place (OnePlace).  The ledger, sorted by       *)
(* sequence number, lists what this process stored (LedgerInv), so a sweep *)
(* that pops the entries 1 .. k forgets what it popped and nothing else.   *)
(***************************************************************************)
EXTENDS MemoryStore, FunctionTheorems, FiniteSetTheorems, SequenceTheorems, TLAPS

(* The parts of the inductive invariant. *)

\* Sequence numbers are used up no faster than record() is called.
SeqBound == seq + Len(queue) <= calls

\* The queue holds records in the order of the calls.
QueueOrdered ==
    /\ \A n \in 1 .. Len(queue) : queue[n] <= calls
    /\ \A m, n \in 1 .. Len(queue) : m < n => queue[m] < queue[n]

\* A process that is over has no queue.
DownEmpty == mode = "down" => queue = <<>>

\* The next id is one this process has not used, and no other one either until
\* the clock has fallen behind.
FreshIds ==
    /\ \A id \in DOMAIN db \ base : id[2] <= seq
    /\ ~behind /\ mode # "down" => \A id \in base : id[1] < now

\* Until then no record has been replaced.
ReplacedBehind == ~behind => gone["replaced"] = {}

\* Every accepted record is in exactly one place, and in the store once.
OnePlace ==
    /\ accepted = Range(queue) \cup Stored \cup Gone
    /\ accepted \subseteq 1 .. calls
    /\ Range(queue) \cap Stored = {}
    /\ Range(queue) \cap Gone = {}
    /\ Stored \cap Gone = {}
    /\ \A id, jd \in DOMAIN db : db[id] = db[jd] => id = jd

\* The ledger lists what this process stored, in the order of the inserts; by
\* time too, unless the clock was set back.
LedgerInv ==
    /\ \A n \in 1 .. Len(ledger) : ledger[n] \in DOMAIN db \ base
    /\ \A m, n \in 1 .. Len(ledger) : m < n => ledger[m][2] < ledger[n][2]
    /\ back = 0 => /\ \A n \in 1 .. Len(ledger) : ledger[n][1] <= now
                   /\ \A m, n \in 1 .. Len(ledger) : m < n => ledger[m][1] <= ledger[n][1]
    /\ Ttl > 0 /\ "sweep" \notin faults => DOMAIN db \ base \subseteq Range(ledger)

\* What is stored is in the main file.
Checkpointed == \A id \in DOMAIN db : id \in DOMAIN ckpt /\ ckpt[id] = db[id]

\* As long as processes only ever ended by shutdown() and storage worked,
\* nothing was lost and dirty marks whatever is not in the main file.
DrainInv ==
    clean /\ faults = {} =>
        /\ gone["lost"] = {}
        /\ mode # "leaving"
        /\ mode \in {"stopped", "down"} => queue = <<>> /\ ~dirty
        /\ ~dirty => Checkpointed

\* A prompt actor entered recv_timeout (now - wait) no later than the last
\* record() call, or after a sweep of all that had expired.
IdleInv ==
    ~late /\ back = 0 /\ mode = "up" /\ Ttl > 0 /\ faults = {} =>
        /\ queue # <<>> => quiet = now
        /\ \/ now <= quiet + wait
           \/ \A id \in DOMAIN db \ base : now <= id[1] + Ttl + wait

StoreInv ==
    /\ TypeOK
    /\ SeqBound
    /\ QueueOrdered
    /\ DownEmpty
    /\ FreshIds
    /\ ReplacedBehind
    /\ OnePlace
    /\ LedgerInv
    /\ DrainInv
    /\ IdleInv

-------------------------------------------------------------------------------
(* Facts about the operators. *)

\* Appending to the queue adds one record to it.
LEMMA RangeAppend ==
    ASSUME NEW S, NEW q \in Seq(S), NEW e \in S
    PROVE  Range(Append(q, e)) = Range(q) \cup {e}
<1> DEFINE r == Append(q, e)
<1>1. /\ Len(q) \in Nat /\ DOMAIN q = 1 .. Len(q)
      /\ DOMAIN r = 1 .. Len(q) + 1
      /\ \A i \in 1 .. Len(q) : r[i] = q[i]
      /\ r[Len(q) + 1] = e
  OBVIOUS
<1> HIDE DEF r
<1>2. 1 .. Len(q) + 1 = 1 .. Len(q) \cup {Len(q) + 1}
  BY <1>1
<1>3. Range(r) = Range(q) \cup {e}
  BY <1>1, <1>2 DEF Range
<1> QED BY <1>3 DEF r

\* Receiving takes the head out of it.
LEMMA RangeTail ==
    ASSUME NEW S, NEW q \in Seq(S), q # <<>>
    PROVE  Range(q) = {Head(q)} \cup Range(Tail(q))
<1>1. /\ DOMAIN q = 1 .. Len(q) /\ Len(q) \in Nat \ {0}
      /\ Tail(q) \in Seq(S) /\ DOMAIN Tail(q) = 1 .. Len(q) - 1
      /\ Head(q) = q[1]
      /\ \A i \in 1 .. Len(q) - 1 : Tail(q)[i] = q[i + 1]
  OBVIOUS
<1>2. ASSUME NEW x \in Range(q) PROVE x \in {Head(q)} \cup Range(Tail(q))
  <2>1. PICK i \in 1 .. Len(q) : x = q[i]
    BY <1>1 DEF Range
  <2>2. CASE i = 1
    BY <1>1, <2>1, <2>2
  <2>3. CASE i # 1
    <3>1. i - 1 \in 1 .. Len(q) - 1 /\ Tail(q)[i - 1] = q[i]
      BY <1>1, <2>3
    <3> QED BY <1>1, <2>1, <3>1 DEF Range
  <2> QED BY <2>2, <2>3
<1>3. ASSUME NEW x \in {Head(q)} \cup Range(Tail(q)) PROVE x \in Range(q)
  <2>1. CASE x = Head(q)
    <3>1. 1 \in DOMAIN q
      BY <1>1
    <3> QED BY <1>1, <2>1, <3>1 DEF Range
  <2>2. CASE x \in Range(Tail(q))
    <3>1. PICK i \in 1 .. Len(q) - 1 : x = Tail(q)[i]
      BY <1>1, <2>2 DEF Range
    <3>2. i + 1 \in DOMAIN q /\ x = q[i + 1]
      BY <1>1, <3>1
    <3> QED BY <3>2 DEF Range
  <2> QED BY <2>1, <2>2
<1> QED BY <1>2, <1>3

\* A sequence of different elements has as many as it is long.
LEMMA DistinctLength ==
    ASSUME NEW S, NEW q \in Seq(S),
           \A m, n \in 1 .. Len(q) : m # n => q[m] # q[n]
    PROVE  IsFiniteSet(Range(q)) /\ Cardinality(Range(q)) = Len(q)
<1>1. Len(q) \in Nat /\ DOMAIN q = 1 .. Len(q) /\ q = [n \in 1 .. Len(q) |-> q[n]]
  OBVIOUS
<1>2. q \in Bijection(1 .. Len(q), Range(q))
  BY <1>1 DEF Bijection, Injection, Surjection, IsInjective, Range
<1>3. ExistsBijection(1 .. Len(q), Range(q))
  BY <1>2 DEF ExistsBijection
<1> QED BY <1>1, <1>3, FS_CountingElements, FS_NatBijection

\* An initial segment is determined by its size.
LEMMA InitialSegment ==
    ASSUME NEW n \in Nat, NEW S \in SUBSET (1 .. n), \A x \in S : 1 .. x \subseteq S
    PROVE  Cardinality(S) \in 0 .. n /\ S = 1 .. Cardinality(S)
<1>1. IsFiniteSet(1 .. n) /\ Cardinality(1 .. n) = n
  BY FS_Interval
<1>2. IsFiniteSet(S) /\ Cardinality(S) <= n /\ Cardinality(S) \in Nat
  <2>1. IsFiniteSet(S) /\ Cardinality(S) <= Cardinality(1 .. n)
    BY <1>1, FS_Subset, ZenonT(30)
  <2>2. Cardinality(S) \in Nat
    BY <2>1, FS_CardinalityType, ZenonT(30)
  <2> QED BY <1>1, <2>1, <2>2, Zenon
<1> DEFINE c == Cardinality(S)
<1>3. ASSUME NEW x \in S PROVE x \in 1 .. c
  <2>1. IsFiniteSet(1 .. x) /\ Cardinality(1 .. x) = x
    BY FS_Interval
  <2>2. Cardinality(1 .. x) <= c
    BY <1>2, FS_Subset
  <2> QED BY <1>2, <2>1, <2>2
<1>4. IsFiniteSet(1 .. c) /\ Cardinality(1 .. c) = c
  BY <1>2, FS_Interval
<1>5. S \in SUBSET (1 .. c)
  BY <1>3
<1>6. S = 1 .. c
  BY <1>4, <1>5, FS_Subset
<1> QED BY <1>2, <1>6

\* What is lost for a reason is gone, and nothing else.
LEMMA LoseGone ==
    ASSUME TypeOK, NEW why \in Causes, NEW recs, Lose(why, recs)
    PROVE  Gone' = Gone \cup recs
<1>1. DOMAIN gone = Causes
  BY DEF TypeOK
<1>2. /\ DOMAIN gone' = DOMAIN gone
      /\ gone'[why] = gone[why] \cup recs
      /\ \A w \in DOMAIN gone : w # why => gone'[w] = gone[w]
  BY <1>1 DEF Lose
<1> QED BY <1>1, <1>2 DEF Gone

\* The type of the record of losses.
LEMMA LoseType ==
    ASSUME TypeOK, NEW why \in Causes,
           NEW recs \in SUBSET Records, Lose(why, recs)
    PROVE  gone' \in [Causes -> SUBSET Records]
BY DEF TypeOK, Lose

\* sweep() pops the first entries of the ledger.
LEMMA ExpiredPrefix ==
    ASSUME TypeOK
    PROVE  /\ Cardinality(Expired) \in 0 .. Len(ledger)
           /\ Expired = 1 .. Cardinality(Expired)
<1>1. Len(ledger) \in Nat
  BY DEF TypeOK
<1>2. Expired \in SUBSET (1 .. Len(ledger))
  BY DEF Expired
<1>3. \A x \in Expired : 1 .. x \subseteq Expired
  BY <1>1 DEF Expired
<1> QED BY <1>1, <1>2, <1>3, InitialSegment

-------------------------------------------------------------------------------
(* Types. *)

\* The type invariant and the bound on sequence numbers are preserved.
LEMMA TypeStep ==
    ASSUME TypeOK, SeqBound, [Next]_vars
    PROVE  TypeOK' /\ SeqBound'
<1> USE StoreAssumption
<1>1. CASE Record
  <2>1. calls + 1 \in Records /\ Len(queue) \in Nat
    BY <1>1 DEF Record, TypeOK, Records
  <2>2. CASE QueueFull
    BY <1>1, <2>2 DEF Record, QueueFull, actorVars, clockVars, TypeOK, SeqBound
  <2>3. CASE ~QueueFull
    <3>0. queue' = Append(queue, calls + 1) /\ accepted' = accepted \cup {calls + 1}
      BY <1>1, <2>3 DEF Record
    <3>1. queue' \in Seq(Records) /\ Len(queue') = Len(queue) + 1
      BY <2>1, <3>0, AppendProperties DEF TypeOK
    <3>2. Len(queue') <= QueueCap
      BY <2>1, <2>3, <3>1 DEF QueueFull, TypeOK
    <3>3. accepted' \subseteq Records
      BY <2>1, <3>0 DEF TypeOK
    <3> QED
      BY <1>1, <2>1, <3>1, <3>2, <3>3, SMTT(20)
      DEF Record, actorVars, clockVars, TypeOK, SeqBound
  <2> QED BY <2>2, <2>3
<1>2. ASSUME NEW ok \in BOOLEAN, InsertOne(ok) PROVE TypeOK' /\ SeqBound'
  <2>1. /\ queue # <<>> /\ queue' = Tail(queue) /\ seq' = seq + 1
        /\ dirty' = (dirty \/ ok) /\ wait' = 0
    BY <1>2 DEF InsertOne, DirtyAfter
  <2>2. /\ Head(queue) \in Records /\ queue' \in Seq(Records)
        /\ Len(queue') = Len(queue) - 1 /\ Len(queue) \in Nat \ {0}
    BY <2>1 DEF TypeOK
  <2>3. seq' \in 0 .. MaxCalls /\ seq' + Len(queue') <= calls
    BY <2>1, <2>2, SMTT(20) DEF TypeOK, SeqBound
  <2>4. NewId \in Id
    BY <2>1, <2>2, <2>3 DEF NewId, Id, TypeOK
  <2>5. ledger' \in Seq(Id)
    BY <1>2, <2>4 DEF InsertOne, Tracked, TypeOK
  <2>6. DOMAIN db' \subseteq Id /\ db' \in [DOMAIN db' -> Records]
    BY <1>2, <2>2, <2>4 DEF InsertOne, TypeOK
  <2>7. gone' \in [Causes -> SUBSET Records] /\ base' \subseteq Id
    <3>1. CASE ok
      <4>1. /\ Lose("replaced", {db[id] : id \in {NewId} \cap DOMAIN db})
            /\ base' = base \ {NewId}
        BY <1>2, <3>1 DEF InsertOne
      <4>2. {db[id] : id \in {NewId} \cap DOMAIN db} \in SUBSET Records
        BY DEF TypeOK
      <4> QED BY <4>1, <4>2, LoseType DEF TypeOK, Causes
    <3>2. CASE ~ok
      <4>1. Lose("failed", {Head(queue)}) /\ base' = base
        BY <1>2, <3>2 DEF InsertOne
      <4> QED BY <2>2, <4>1, LoseType DEF TypeOK, Causes
    <3> QED BY <3>1, <3>2
  <2>8. faults' \subseteq {"insert", "flush", "sweep"}
    BY <1>2 DEF InsertOne, TypeOK
  <2>9. dirty' \in BOOLEAN
    BY <2>1, Zenon DEF TypeOK
  <2> QED
    BY <1>2, <2>1, <2>2, <2>3, <2>5, <2>6, <2>7, <2>8, <2>9, SMTT(20)
    DEF InsertOne, clockVars, TypeOK, SeqBound
<1>3. ASSUME NEW flushed \in BOOLEAN, NEW forgotten \in SUBSET Expired,
             Timeout(flushed, forgotten)
      PROVE  TypeOK' /\ SeqBound'
  <2> DEFINE ids == {ledger[n] : n \in forgotten}
             k == Cardinality(Expired)
  <2>1. /\ ledger' = SubSeq(ledger, k + 1, Len(ledger))
        /\ db' = Restrict(db, DOMAIN db \ ids)
        /\ Lose("forgotten", {db[id] : id \in ids \cap DOMAIN db})
    BY <1>3 DEF Timeout, Sweep
  <2>2. k \in 0 .. Len(ledger) /\ Len(ledger) \in Nat
    BY ExpiredPrefix DEF TypeOK
  <2>3. ledger' \in Seq(Id)
    <3>1. \A i \in k + 1 .. Len(ledger) : ledger[i] \in Id
      BY <2>2 DEF TypeOK
    <3> QED BY <2>1, <2>2, <3>1, SubSeqProperties
  <2>4. DOMAIN db' \subseteq Id /\ db' \in [DOMAIN db' -> Records]
    BY <2>1 DEF Restrict, TypeOK
  <2>5. gone' \in [Causes -> SUBSET Records]
    <3>1. {db[id] : id \in ids \cap DOMAIN db} \in SUBSET Records
      BY DEF TypeOK
    <3> QED BY <2>1, <3>1, LoseType DEF Causes
  <2>6. DOMAIN ckpt' \subseteq Id /\ ckpt' \in [DOMAIN ckpt' -> Records]
    BY <1>3 DEF Timeout, Checkpoint, TypeOK
  <2>7. faults' \subseteq {"insert", "flush", "sweep"}
    BY <1>3 DEF Timeout, TypeOK
  <2>8. /\ dirty' = FALSE /\ wait' = 0
        /\ UNCHANGED <<now, mode, calls, queue, seq, base, accepted, clean, late, quiet, clockVars>>
    BY <1>3 DEF Timeout, Checkpoint
  <2>9. wait' \in 0 .. Flush
    BY <1>3 DEF Timeout
  <2> HIDE DEF ids, k
  <2>10. TypeOK'
    BY <2>3, <2>4, <2>5, <2>6, <2>7, <2>8, <2>9 DEF clockVars, TypeOK
  <2>11. SeqBound'
    BY <2>8 DEF SeqBound
  <2> QED
    BY <2>10, <2>11
<1>4. ASSUME NEW flushed \in BOOLEAN, Disconnected(flushed) PROVE TypeOK' /\ SeqBound'
  <2>1. DOMAIN ckpt' \subseteq Id /\ ckpt' \in [DOMAIN ckpt' -> Records]
    BY <1>4 DEF Disconnected, Checkpoint, TypeOK
  <2>2. faults' \subseteq {"insert", "flush", "sweep"}
    BY <1>4 DEF Disconnected, TypeOK
  <2> QED BY <1>4, <2>1, <2>2 DEF Disconnected, Checkpoint, TypeOK, SeqBound, clockVars
<1>5. CASE Shutdown \/ MainReturns
  BY <1>5 DEF Shutdown, MainReturns, actorVars, clockVars, TypeOK, SeqBound
<1>6. CASE Exit \/ Crash
  <2>1. End /\ clean' \in BOOLEAN
    BY <1>6 DEF Exit, Crash, TypeOK
  <2>2. Range(queue) \in SUBSET Records
    BY RangeOfSeq DEF TypeOK
  <2>3. gone' \in [Causes -> SUBSET Records]
    BY <2>1, <2>2, LoseType DEF End, Causes
  <2>4. queue' = <<>> /\ queue' \in Seq(Records) /\ Len(queue') = 0 /\ Len(queue) \in Nat
    BY <2>1 DEF End, TypeOK
  <2>5. seq' + Len(queue') <= calls' /\ Len(queue') <= QueueCap
    BY <2>1, <2>4 DEF End, actorVars, TypeOK, SeqBound
  <2> QED BY <2>1, <2>3, <2>4, <2>5 DEF End, actorVars, clockVars, TypeOK, SeqBound
<1>7. CASE Start
  <2>1. now' = now /\ now' \in 0 .. MaxTime
    BY <1>7 DEF Start, TypeOK
  <2>2. queue' \in Seq(Records) /\ Len(queue') = 0 /\ ledger' \in Seq(Id)
    BY <1>7 DEF Start
  <2>3. /\ mode' = "up" /\ seq' = 0 /\ dirty' = FALSE /\ wait' = 0 /\ base' = DOMAIN db
        /\ quiet' = now
        /\ UNCHANGED <<calls, db, ckpt, accepted, gone, faults, clean, late, back>>
        /\ behind' \in BOOLEAN
    BY <1>7 DEF Start
  <2>4. seq' \in 0 .. MaxCalls /\ wait' \in 0 .. Flush /\ Len(queue') <= QueueCap
    BY <2>2, <2>3
  <2>5. TypeOK'
    BY <2>1, <2>2, <2>3, <2>4 DEF TypeOK
  <2>6. SeqBound'
    BY <2>2, <2>3 DEF SeqBound, TypeOK
  <2> QED BY <2>5, <2>6
<1>8. CASE Tick
  <2>1. now' \in 0 .. MaxTime /\ wait' \in 0 .. Flush
    BY <1>8 DEF Tick, TypeOK
  <2>2. late' \in BOOLEAN
    BY <1>8 DEF Tick
  <2> QED BY <1>8, <2>1, <2>2 DEF Tick, TypeOK, SeqBound, clockVars
<1>9. CASE StepBack
  <2>1. /\ now' \in 0 .. MaxTime /\ behind' \in BOOLEAN /\ back' = back + 1 /\ back < MaxBack
        /\ UNCHANGED <<mode, calls, queue, actorVars, db, ckpt, base, accepted, gone,
                       faults, clean, late, quiet>>
    BY <1>9 DEF StepBack
  <2> QED BY <2>1 DEF actorVars, TypeOK, SeqBound
<1>10. CASE UNCHANGED vars
  BY <1>10 DEF vars, TypeOK, SeqBound
<1> QED
  BY <1>1, <1>2, <1>3, <1>4, <1>5, <1>6, <1>7, <1>8, <1>9, <1>10
  DEF Next, Actor, Finished

-------------------------------------------------------------------------------
(* The queue and the ids. *)

\* The actor receives in the order of the calls, and a record that it has
\* received is not queued again.
LEMMA ReceiveOnce ==
    ASSUME TypeOK, QueueOrdered, queue # <<>>
    PROVE  /\ Head(queue) \notin Range(Tail(queue))
           /\ Range(queue) = {Head(queue)} \cup Range(Tail(queue))
<1>1. /\ Len(queue) \in Nat \ {0} /\ Head(queue) = queue[1]
      /\ DOMAIN Tail(queue) = 1 .. Len(queue) - 1
      /\ \A i \in 1 .. Len(queue) - 1 : Tail(queue)[i] = queue[i + 1]
      /\ \A i \in 1 .. Len(queue) : queue[i] \in Nat
  BY StoreAssumption DEF TypeOK, Records
<1>2. ASSUME NEW i \in 1 .. Len(queue) - 1 PROVE Tail(queue)[i] # Head(queue)
  BY <1>1 DEF QueueOrdered
<1>3. Head(queue) \notin Range(Tail(queue))
  BY <1>1, <1>2 DEF Range
<1>4. Range(queue) = {Head(queue)} \cup Range(Tail(queue))
  BY RangeTail DEF TypeOK
<1> QED BY <1>3, <1>4

\* The queue stays in the order of the calls, and only a running process has
\* one.
LEMMA QueueStep ==
    ASSUME TypeOK, SeqBound, QueueOrdered, DownEmpty, [Next]_vars
    PROVE  QueueOrdered' /\ DownEmpty'
<1>0. calls \in Nat /\ Len(queue) \in Nat /\ \A i \in 1 .. Len(queue) : queue[i] \in Nat
  BY StoreAssumption, SMTT(20) DEF TypeOK, Records
<1>1. CASE Record
  <2>1. mode' = mode /\ mode = "up" /\ calls' = calls + 1
    BY <1>1 DEF Record
  <2>2. CASE QueueFull
    BY <1>0, <1>1, <2>1, <2>2 DEF Record, QueueOrdered, DownEmpty
  <2>3. CASE ~QueueFull
    <3>1. queue' = Append(queue, calls + 1)
      BY <1>1, <2>3 DEF Record
    <3>2. /\ Len(queue') = Len(queue) + 1
          /\ \A i \in 1 .. Len(queue) : queue'[i] = queue[i]
          /\ queue'[Len(queue) + 1] = calls + 1
      BY <3>1 DEF TypeOK
    <3>3. QueueOrdered'
      BY <1>0, <2>1, <3>2, SMTT(20) DEF QueueOrdered
    <3> QED BY <2>1, <3>3 DEF DownEmpty
  <2> QED BY <2>2, <2>3
<1>2. ASSUME NEW ok \in BOOLEAN, InsertOne(ok) PROVE QueueOrdered' /\ DownEmpty'
  <2>1. /\ queue # <<>> /\ queue' = Tail(queue) /\ mode' = mode /\ mode # "down"
        /\ calls' = calls
    BY <1>2 DEF InsertOne, Running, Closing
  <2>2. /\ Len(queue') = Len(queue) - 1 /\ Len(queue) > 0
        /\ \A i \in 1 .. Len(queue) - 1 : queue'[i] = queue[i + 1]
    BY <2>1 DEF TypeOK
  <2>3. QueueOrdered'
    BY <1>0, <2>1, <2>2 DEF QueueOrdered
  <2> QED BY <2>1, <2>3 DEF DownEmpty
<1>3. ASSUME NEW flushed \in BOOLEAN, NEW forgotten \in SUBSET Expired,
             Timeout(flushed, forgotten)
      PROVE  QueueOrdered' /\ DownEmpty'
  BY <1>3 DEF Timeout, QueueOrdered, DownEmpty
<1>4. ASSUME NEW flushed \in BOOLEAN, Disconnected(flushed) PROVE QueueOrdered' /\ DownEmpty'
  BY <1>4 DEF Disconnected, QueueOrdered, DownEmpty
<1>5. CASE Shutdown \/ MainReturns
  BY <1>5 DEF Shutdown, MainReturns, QueueOrdered, DownEmpty
<1>6. CASE Exit \/ Crash
  BY <1>6 DEF Exit, Crash, End, QueueOrdered, DownEmpty
<1>7. CASE Start
  BY <1>7 DEF Start, QueueOrdered, DownEmpty
<1>8. CASE Tick \/ StepBack
  BY <1>8 DEF Tick, StepBack, QueueOrdered, DownEmpty
<1>9. CASE UNCHANGED vars
  BY <1>9 DEF vars, QueueOrdered, DownEmpty
<1> QED
  BY <1>1, <1>2, <1>3, <1>4, <1>5, <1>6, <1>7, <1>8, <1>9 DEF Next, Actor, Finished

\* "r{ts}_{seq}" is an id this process has not used and, until the clock has
\* fallen behind, one the store has not used.
LEMMA NewIdFresh ==
    ASSUME TypeOK, FreshIds
    PROVE  /\ NewId \notin DOMAIN db \ base
           /\ ~behind /\ mode # "down" => NewId \notin DOMAIN db
<1>1. seq \in Nat /\ now \in Nat
  BY StoreAssumption DEF TypeOK
<1>2. NewId[1] = now /\ NewId[2] = seq + 1
  BY DEF NewId
<1>3. ASSUME ~behind, mode # "down" PROVE NewId \notin base
  BY <1>1, <1>2, <1>3 DEF FreshIds
<1>4. NewId \notin DOMAIN db \ base
  BY <1>1, <1>2 DEF FreshIds
<1> QED BY <1>3, <1>4

\* Ids stay fresh: the sequence grows with every insert, and the clock only
\* advances, stands still or is seen to fall behind.
LEMMA FreshStep ==
    ASSUME TypeOK, FreshIds, [Next]_vars
    PROVE  FreshIds'
<1>0. /\ seq \in Nat /\ now \in Nat /\ behind \in BOOLEAN
      /\ \A id \in DOMAIN db \cup base : id[1] \in Nat /\ id[2] \in Nat
  BY StoreAssumption DEF TypeOK, Id
<1>1. CASE Record
  BY <1>1 DEF Record, actorVars, clockVars, FreshIds
<1>2. ASSUME NEW ok \in BOOLEAN, InsertOne(ok) PROVE FreshIds'
  <2>1. DOMAIN db' \ base' \subseteq (DOMAIN db \ base) \cup {NewId} /\ base' \subseteq base
    BY <1>2 DEF InsertOne
  <2>2. /\ seq' = seq + 1 /\ now' = now /\ behind' = behind /\ mode' = mode
        /\ NewId[2] = seq + 1
    BY <1>2 DEF InsertOne, clockVars, NewId
  <2>3. ASSUME NEW id \in DOMAIN db' \ base' PROVE id[2] <= seq + 1
    BY <1>0, <2>1, <2>2 DEF FreshIds
  <2> QED BY <2>1, <2>2, <2>3 DEF FreshIds
<1>3. ASSUME NEW flushed \in BOOLEAN, NEW forgotten \in SUBSET Expired,
             Timeout(flushed, forgotten)
      PROVE  FreshIds'
  <2>1. DOMAIN db' \subseteq DOMAIN db
    BY <1>3 DEF Timeout, Sweep, Restrict
  <2> QED BY <1>3, <2>1 DEF Timeout, clockVars, FreshIds
<1>4. ASSUME NEW flushed \in BOOLEAN, Disconnected(flushed) PROVE FreshIds'
  BY <1>4 DEF Disconnected, AllSendersGone, Closing, clockVars, FreshIds
<1>5. CASE Shutdown \/ MainReturns
  BY <1>5 DEF Shutdown, MainReturns, actorVars, clockVars, FreshIds
<1>6. CASE Exit \/ Crash
  BY <1>6 DEF Exit, Crash, End, actorVars, FreshIds
<1>7. CASE Start
  <2>1. /\ base' = DOMAIN db /\ db' = db /\ now' = now
        /\ ~behind' => \A id \in DOMAIN db : ~(id[1] >= now)
    BY <1>7 DEF Start
  <2> QED BY <1>0, <2>1 DEF FreshIds
<1>8. CASE Tick
  BY <1>0, <1>8 DEF Tick, clockVars, FreshIds
<1>9. CASE StepBack
  <2>1. /\ UNCHANGED <<db, base, seq, mode>> /\ now' \in Nat
        /\ ~behind' /\ mode # "down" => \A id \in base : ~(id[1] >= now')
    <3>1. PICK t \in 0 .. MaxTime :
            /\ now' = t
            /\ behind' = (behind \/ (mode # "down" /\ \E id \in base : id[1] >= t))
      BY <1>9 DEF StepBack
    <3>2. UNCHANGED <<db, base, seq, mode>>
      BY <1>9 DEF StepBack, actorVars
    <3>3. now' \in Nat
      BY <3>1, StoreAssumption
    <3>4. ASSUME ~behind', mode # "down", NEW id \in base PROVE ~(id[1] >= now')
      BY <3>1, <3>4
    <3> QED BY <3>2, <3>3, <3>4
  <2> QED BY <1>0, <2>1 DEF FreshIds
<1>10. CASE UNCHANGED vars
  BY <1>10 DEF vars, FreshIds
<1> QED
  BY <1>1, <1>2, <1>3, <1>4, <1>5, <1>6, <1>7, <1>8, <1>9, <1>10 DEF Next, Actor, Finished

-------------------------------------------------------------------------------
(* Where a record is. *)

\* insert_one moves the oldest queued record into the store, where it replaces
\* one of an earlier process if the clock has fallen behind and none if it has
\* not, or loses it.
LEMMA InsertEffect ==
    ASSUME TypeOK, FreshIds, OnePlace, NEW ok \in BOOLEAN, InsertOne(ok)
    PROVE  IF ok
           THEN \E old \in SUBSET Stored :
                  /\ Stored' = (Stored \ old) \cup {Head(queue)} /\ Gone' = Gone \cup old
                  /\ old = {} \/ (behind /\ \E rec \in Stored : old = {rec})
                  /\ gone'["replaced"] = gone["replaced"] \cup old
                  /\ DOMAIN db' = DOMAIN db \cup {NewId}
                  /\ db'[NewId] = Head(queue)
                  /\ \A id \in DOMAIN db : id # NewId => db'[id] = db[id] /\ db[id] \notin old
           ELSE db' = db /\ Stored' = Stored /\ Gone' = Gone \cup {Head(queue)}
<1>1. CASE ok
  <2> DEFINE old == {db[id] : id \in {NewId} \cap DOMAIN db}
  <2>1. /\ DOMAIN db' = DOMAIN db \cup {NewId}
        /\ db'[NewId] = Head(queue)
        /\ \A id \in DOMAIN db : id # NewId => db'[id] = db[id]
        /\ Lose("replaced", old)
    BY <1>1 DEF InsertOne
  <2>2. Gone' = Gone \cup old
    BY <2>1, LoseGone DEF Causes
  <2>3. gone'["replaced"] = gone["replaced"] \cup old
    BY <2>1 DEF Lose, TypeOK, Causes
  <2>4. old \in SUBSET Stored
    BY DEF Stored
  <2>5. old = {} \/ (behind /\ \E rec \in Stored : old = {rec})
    <3>1. CASE NewId \in DOMAIN db
      <4>1. behind
        BY <3>1, NewIdFresh DEF InsertOne, Running, Closing
      <4>2. old = {db[NewId]} /\ db[NewId] \in Stored
        BY <3>1 DEF Stored
      <4> QED BY <4>1, <4>2
    <3>2. CASE NewId \notin DOMAIN db
      BY <3>2
    <3> QED BY <3>1, <3>2
  <2>6. \A id \in DOMAIN db : id # NewId <=> db[id] \notin old
    BY DEF OnePlace
  <2> HIDE DEF old
  <2>7. Stored' = (Stored \ old) \cup {Head(queue)}
    BY <2>1, <2>6 DEF Stored
  <2> QED BY <1>1, <2>1, <2>2, <2>3, <2>4, <2>5, <2>6, <2>7
<1>2. CASE ~ok
  <2>1. db' = db /\ Lose("failed", {Head(queue)})
    BY <1>2 DEF InsertOne
  <2>2. Gone' = Gone \cup {Head(queue)}
    BY <2>1, LoseGone DEF Causes
  <2> QED BY <1>2, <2>1, <2>2 DEF Stored
<1> QED BY <1>1, <1>2

\* A sweep moves records from the store to what is gone, whichever statements
\* of its batch succeed.
LEMMA SweepEffect ==
    ASSUME TypeOK, OnePlace, NEW forgotten, Sweep(forgotten)
    PROVE  /\ DOMAIN db' = DOMAIN db \ {ledger[n] : n \in forgotten}
           /\ \A id \in DOMAIN db' : db'[id] = db[id]
           /\ \E old \in SUBSET Stored : Stored' = Stored \ old /\ Gone' = Gone \cup old
<1> DEFINE ids == {ledger[n] : n \in forgotten}
           old == {db[id] : id \in ids \cap DOMAIN db}
<1>1. db' = Restrict(db, DOMAIN db \ ids) /\ Lose("forgotten", old)
  BY DEF Sweep
<1>2. DOMAIN db' = DOMAIN db \ ids /\ \A id \in DOMAIN db' : db'[id] = db[id]
  BY <1>1 DEF Restrict
<1>3. Gone' = Gone \cup old
  BY <1>1, LoseGone DEF Causes
<1> HIDE DEF ids
<1>4. old \in SUBSET Stored
  BY DEF Stored
<1>5. \A id \in DOMAIN db : db[id] \in old <=> id \in ids
  BY DEF OnePlace
<1> HIDE DEF old
<1>6. Stored' = Stored \ old
  BY <1>2, <1>5 DEF Stored
<1> QED BY <1>2, <1>3, <1>4, <1>6 DEF ids

\* The end of the process loses what is queued and nothing else.
LEMMA EndEffect ==
    ASSUME TypeOK, End
    PROVE  /\ queue' = <<>> /\ Range(queue') = {}
           /\ Gone' = Gone \cup Range(queue) /\ Stored' = Stored
<1>1. Lose("lost", Range(queue)) /\ queue' = <<>> /\ db' = db
  BY DEF End
<1>2. Gone' = Gone \cup Range(queue)
  BY <1>1, LoseGone DEF Causes
<1>3. Range(queue') = {}
  BY <1>1 DEF Range
<1> QED BY <1>1, <1>2, <1>3 DEF Stored

\* A record stays in exactly one place.
LEMMA PlaceStep ==
    ASSUME TypeOK, SeqBound, QueueOrdered, DownEmpty, FreshIds, OnePlace, [Next]_vars
    PROVE  OnePlace'
<1>0. calls \in Nat /\ queue \in Seq(Records)
  BY StoreAssumption DEF TypeOK
<1>1. CASE Record
  <2>1. /\ db' = db /\ gone' = gone /\ calls' = calls + 1
        /\ Stored' = Stored /\ Gone' = Gone
    BY <1>1 DEF Record, Stored, Gone
  <2>2. CASE QueueFull
    <3>1. queue' = queue /\ accepted' = accepted
      BY <1>1, <2>2 DEF Record
    <3>2. accepted' \subseteq 1 .. calls'
      BY <1>0, <2>1, <3>1 DEF OnePlace
    <3> QED BY <2>1, <3>1, <3>2 DEF OnePlace
  <2>3. CASE ~QueueFull
    <3>1. queue' = Append(queue, calls + 1) /\ accepted' = accepted \cup {calls + 1}
      BY <1>1, <2>3 DEF Record
    <3>2. calls + 1 \in Records
      BY StoreAssumption, <1>0, <1>1 DEF Record, Records
    <3>3. Range(queue') = Range(queue) \cup {calls + 1}
      BY <1>0, <3>1, <3>2, RangeAppend
    <3>4. calls + 1 \notin accepted
      BY <1>0 DEF OnePlace
    <3>5. accepted' \subseteq 1 .. calls'
      BY <1>0, <2>1, <3>1 DEF OnePlace
    <3> QED BY <2>1, <3>1, <3>3, <3>4, <3>5 DEF OnePlace
  <2> QED BY <2>2, <2>3
<1>2. ASSUME NEW ok \in BOOLEAN, InsertOne(ok) PROVE OnePlace'
  <2>1. queue # <<>> /\ queue' = Tail(queue) /\ accepted' = accepted /\ calls' = calls
    BY <1>2 DEF InsertOne
  <2>2. /\ Head(queue) \notin Range(queue')
        /\ Range(queue) = {Head(queue)} \cup Range(queue')
    BY <2>1, ReceiveOnce
  <2>3. CASE ok
    <3>1. PICK old \in SUBSET Stored :
            /\ Stored' = (Stored \ old) \cup {Head(queue)} /\ Gone' = Gone \cup old
            /\ DOMAIN db' = DOMAIN db \cup {NewId}
            /\ db'[NewId] = Head(queue)
            /\ \A id \in DOMAIN db : id # NewId => db'[id] = db[id] /\ db[id] \notin old
      BY <1>2, <2>3, InsertEffect
    <3>2. Head(queue) \notin Stored /\ Head(queue) \notin Gone
      BY <2>2 DEF OnePlace
    <3>3. \A id \in DOMAIN db : id # NewId => db'[id] # Head(queue)
      BY <3>1, <3>2 DEF Stored
    <3>4. \A id, jd \in DOMAIN db' : db'[id] = db'[jd] => id = jd
      BY <3>1, <3>3 DEF OnePlace
    <3> QED BY <2>1, <2>2, <3>1, <3>2, <3>4 DEF OnePlace
  <2>4. CASE ~ok
    <3>1. db' = db /\ Stored' = Stored /\ Gone' = Gone \cup {Head(queue)}
      BY <1>2, <2>4, InsertEffect
    <3> QED BY <2>1, <2>2, <3>1 DEF OnePlace
  <2> QED BY <2>3, <2>4
<1>3. ASSUME NEW flushed \in BOOLEAN, NEW forgotten \in SUBSET Expired,
             Timeout(flushed, forgotten)
      PROVE  OnePlace'
  <2>1. /\ Sweep(forgotten)
        /\ queue' = queue /\ accepted' = accepted /\ calls' = calls
    BY <1>3 DEF Timeout
  <2>2. /\ DOMAIN db' \subseteq DOMAIN db
        /\ \A id \in DOMAIN db' : db'[id] = db[id]
    BY <2>1, SweepEffect
  <2>3. PICK old \in SUBSET Stored : Stored' = Stored \ old /\ Gone' = Gone \cup old
    BY <2>1, SweepEffect
  <2> QED BY <2>1, <2>2, <2>3 DEF OnePlace
<1>4. ASSUME UNCHANGED <<calls, queue, db, accepted, gone>> PROVE OnePlace'
  BY <1>4 DEF OnePlace, Stored, Gone
<1>5. ASSUME NEW flushed \in BOOLEAN, Disconnected(flushed) PROVE OnePlace'
  BY <1>4, <1>5 DEF Disconnected
<1>6. CASE Exit \/ Crash
  <2>1. End /\ db' = db /\ accepted' = accepted /\ calls' = calls
    BY <1>6 DEF Exit, Crash, End
  <2>2. Range(queue') = {} /\ Gone' = Gone \cup Range(queue) /\ Stored' = Stored
    BY <2>1, EndEffect
  <2> QED BY <2>1, <2>2 DEF OnePlace
<1>7. CASE Start
  <2>1. queue' = queue
    BY <1>7 DEF Start, DownEmpty
  <2> QED BY <1>4, <1>7, <2>1 DEF Start
<1>8. CASE Shutdown \/ MainReturns \/ Tick \/ StepBack
  BY <1>4, <1>8 DEF Shutdown, MainReturns, Tick, StepBack
<1>9. CASE UNCHANGED vars
  BY <1>4, <1>9 DEF vars
<1> QED
  BY <1>1, <1>2, <1>3, <1>5, <1>6, <1>7, <1>8, <1>9 DEF Next, Actor, Finished

\* Nothing is replaced until the clock has fallen behind.
LEMMA ReplacedStep ==
    ASSUME TypeOK, FreshIds, ReplacedBehind, OnePlace, [Next]_vars
    PROVE  ReplacedBehind'
<1>0. behind \in BOOLEAN /\ DOMAIN gone = Causes
  BY DEF TypeOK
<1>1. CASE Record \/ Shutdown \/ MainReturns \/ Tick
  BY <1>1 DEF Record, Shutdown, MainReturns, Tick, clockVars, ReplacedBehind
<1>2. ASSUME NEW ok \in BOOLEAN, InsertOne(ok) PROVE ReplacedBehind'
  <2>1. behind' = behind
    BY <1>2 DEF InsertOne, clockVars
  <2>2. CASE ok
    <3>1. PICK old \in SUBSET Stored :
            /\ old = {} \/ behind
            /\ gone'["replaced"] = gone["replaced"] \cup old
      BY <1>2, <2>2, InsertEffect
    <3> QED BY <2>1, <3>1 DEF ReplacedBehind
  <2>3. CASE ~ok
    BY <1>0, <1>2, <2>1, <2>3 DEF InsertOne, Lose, ReplacedBehind, Causes
  <2> QED BY <2>2, <2>3
<1>3. ASSUME NEW flushed \in BOOLEAN, NEW forgotten \in SUBSET Expired,
             Timeout(flushed, forgotten)
      PROVE  ReplacedBehind'
  BY <1>0, <1>3 DEF Timeout, Sweep, Lose, clockVars, ReplacedBehind, Causes
<1>4. ASSUME NEW flushed \in BOOLEAN, Disconnected(flushed) PROVE ReplacedBehind'
  BY <1>4 DEF Disconnected, clockVars, ReplacedBehind
<1>5. CASE Exit \/ Crash
  BY <1>0, <1>5 DEF Exit, Crash, End, Lose, clockVars, ReplacedBehind, Causes
<1>6. CASE Start \/ StepBack
  <2>1. gone' = gone /\ (behind => behind')
    BY <1>6 DEF Start, StepBack
  <2> QED BY <2>1 DEF ReplacedBehind
<1>7. CASE UNCHANGED vars
  BY <1>7 DEF vars, ReplacedBehind
<1> QED
  BY <1>1, <1>2, <1>3, <1>4, <1>5, <1>6, <1>7 DEF Next, Actor, Finished

-------------------------------------------------------------------------------
(* The ledger and the sweep. *)

\* A sweep shifts the ledger by the entries it pops.
LEMMA SweepShift ==
    ASSUME TypeOK, NEW forgotten \in SUBSET Expired, Sweep(forgotten),
           NEW k, k = Cardinality(Expired)
    PROVE  /\ k \in 0 .. Len(ledger) /\ Expired = 1 .. k
           /\ Len(ledger') = Len(ledger) - k /\ ledger' \in Seq(Id)
           /\ \A n \in 1 .. Len(ledger) - k : ledger'[n] = ledger[n + k]
<1>1. k \in 0 .. Len(ledger) /\ Expired = 1 .. k /\ Len(ledger) \in Nat
  BY ExpiredPrefix DEF TypeOK
<1>2. ledger' = SubSeq(ledger, k + 1, Len(ledger))
  BY DEF Sweep
<1>3. \A n \in k + 1 .. Len(ledger) : ledger[n] \in Id
  BY <1>1 DEF TypeOK
<1>4. /\ Len(ledger') = Len(ledger) - k /\ ledger' \in Seq(Id)
      /\ \A n \in 1 .. Len(ledger) - k : ledger'[n] = ledger[k + 1 + n - 1]
  <2>1. k + 1 \in Int /\ Len(ledger) \in Int
    BY <1>1
  <2>2. /\ SubSeq(ledger, k + 1, Len(ledger)) \in Seq(Id)
        /\ Len(SubSeq(ledger, k + 1, Len(ledger)))
             = IF k + 1 <= Len(ledger) THEN Len(ledger) - (k + 1) + 1 ELSE 0
        /\ \A n \in 1 .. Len(ledger) - (k + 1) + 1 :
             SubSeq(ledger, k + 1, Len(ledger))[n] = ledger[k + 1 + n - 1]
    BY <1>3, <2>1, SubSeqProperties
  <2>3. /\ (IF k + 1 <= Len(ledger) THEN Len(ledger) - (k + 1) + 1 ELSE 0) = Len(ledger) - k
        /\ Len(ledger) - (k + 1) + 1 = Len(ledger) - k
    BY <1>1
  <2> QED BY <1>2, <2>2, <2>3
<1>5. ASSUME NEW n \in 1 .. Len(ledger) - k PROVE k + 1 + n - 1 = n + k
  BY <1>1
<1> QED BY <1>1, <1>4, <1>5

\* The ledger keeps listing what this process stored.
LEMMA LedgerStep ==
    ASSUME TypeOK, SeqBound, FreshIds, OnePlace, LedgerInv, [Next]_vars
    PROVE  LedgerInv'
<1>0. /\ Len(ledger) \in Nat /\ seq \in Nat /\ now \in Nat /\ Ttl \in Nat
      /\ DOMAIN ledger = 1 .. Len(ledger) /\ ledger \in Seq(Id)
      /\ \A n \in 1 .. Len(ledger) : ledger[n][1] \in Nat /\ ledger[n][2] \in Nat
  <2>1. /\ Len(ledger) \in Nat /\ seq \in Nat /\ now \in Nat /\ Ttl \in Nat
        /\ DOMAIN ledger = 1 .. Len(ledger) /\ ledger \in Seq(Id)
        /\ \A n \in 1 .. Len(ledger) : ledger[n] \in Id
    BY StoreAssumption DEF TypeOK
  <2>2. \A id \in Id : id[1] \in Nat /\ id[2] \in Nat
    BY StoreAssumption DEF Id
  <2> QED BY <2>1, <2>2
<1>1. ASSUME UNCHANGED <<ledger, db, base, faults, back>>, now' \in Nat, now' >= now
      PROVE  LedgerInv'
  BY <1>0, <1>1 DEF LedgerInv
<1>2. ASSUME NEW ok \in BOOLEAN, InsertOne(ok) PROVE LedgerInv'
  <2>1. /\ ledger' = (IF Ttl > 0 /\ ok THEN Append(ledger, NewId) ELSE ledger)
        /\ UNCHANGED <<now, back>>
        /\ base' = (IF ok THEN base \ {NewId} ELSE base)
        /\ faults' = (IF ok THEN faults ELSE faults \cup {"insert"})
    BY <1>2 DEF InsertOne, Tracked, clockVars
  <2>2. CASE ok
    <3>1. /\ DOMAIN db' = DOMAIN db \cup {NewId}
          /\ DOMAIN db' \ base' = (DOMAIN db \ base) \cup {NewId}
      <4>1. DOMAIN db' = DOMAIN db \cup {NewId}
        BY <1>2, <2>2 DEF InsertOne
      <4> QED BY <2>1, <2>2, <4>1
    <3>2. CASE Ttl > 0
      <4>1. NewId \in Id
        BY <3>1, TypeStep DEF TypeOK
      <4>2. /\ Len(ledger') = Len(ledger) + 1
            /\ \A n \in 1 .. Len(ledger) : ledger'[n] = ledger[n]
            /\ ledger'[Len(ledger) + 1] = NewId
            /\ Range(ledger') = Range(ledger) \cup {NewId}
        BY <1>0, <2>1, <2>2, <3>2, <4>1, RangeAppend
      <4>3. NewId[1] = now /\ NewId[2] = seq + 1
        BY DEF NewId
      <4>4. \A n \in 1 .. Len(ledger) : ledger[n][2] <= seq
        BY DEF FreshIds, LedgerInv
      <4>5. \A n \in 1 .. Len(ledger') : ledger'[n] \in DOMAIN db' \ base'
        BY <1>0, <2>1, <3>1, <4>2 DEF LedgerInv
      <4>6. \A m, n \in 1 .. Len(ledger') : m < n => ledger'[m][2] < ledger'[n][2]
        BY <1>0, <4>2, <4>3, <4>4 DEF LedgerInv
      <4>7. back = 0 => /\ \A n \in 1 .. Len(ledger') : ledger'[n][1] <= now
                        /\ \A m, n \in 1 .. Len(ledger') :
                              m < n => ledger'[m][1] <= ledger'[n][1]
        <5>1. ASSUME back = 0, NEW n \in 1 .. Len(ledger') PROVE ledger'[n][1] <= now
          BY <1>0, <4>2, <4>3, <5>1 DEF LedgerInv
        <5>2. ASSUME back = 0, NEW m \in 1 .. Len(ledger'), NEW n \in 1 .. Len(ledger'), m < n
              PROVE  ledger'[m][1] <= ledger'[n][1]
          <6>1. CASE n = Len(ledger) + 1
            BY <1>0, <4>2, <4>3, <5>2, <6>1 DEF LedgerInv
          <6>2. CASE n # Len(ledger) + 1
            BY <1>0, <4>2, <5>2, <6>2 DEF LedgerInv
          <6> QED BY <6>1, <6>2
        <5> QED BY <5>1, <5>2
      <4>8. "sweep" \notin faults => DOMAIN db' \ base' \subseteq Range(ledger')
        BY <3>1, <3>2, <4>2 DEF LedgerInv
      <4> QED BY <2>1, <2>2, <4>5, <4>6, <4>7, <4>8 DEF LedgerInv
    <3>3. CASE ~(Ttl > 0)
      BY <2>1, <2>2, <3>1, <3>3 DEF LedgerInv
    <3> QED BY <3>2, <3>3
  <2>3. CASE ~ok
    BY <1>2, <2>1, <2>3, InsertEffect DEF LedgerInv
  <2> QED BY <2>2, <2>3
<1>3. ASSUME NEW flushed \in BOOLEAN, NEW forgotten \in SUBSET Expired,
             Timeout(flushed, forgotten)
      PROVE  LedgerInv'
  <2> DEFINE k == Cardinality(Expired)
  <2>1. /\ Sweep(forgotten) /\ UNCHANGED <<now, base, back>>
        /\ "sweep" \notin faults' => "sweep" \notin faults /\ forgotten = Expired
    BY <1>3 DEF Timeout, clockVars
  <2>2. DOMAIN db' = DOMAIN db \ {ledger[n] : n \in forgotten}
    BY <2>1, SweepEffect
  <2>3. /\ k \in 0 .. Len(ledger) /\ Expired = 1 .. k
        /\ Len(ledger') = Len(ledger) - k /\ ledger' \in Seq(Id)
        /\ \A n \in 1 .. Len(ledger) - k : ledger'[n] = ledger[n + k]
    BY <2>1, SweepShift
  <2> HIDE DEF k
  <2>4. \A n \in 1 .. Len(ledger') : n + k \in 1 .. Len(ledger) /\ n + k \notin forgotten
    BY <1>0, <2>3
  <2>5. ASSUME NEW n \in 1 .. Len(ledger') PROVE ledger'[n] \in DOMAIN db' \ base'
    <3>1. ledger[n + k] \in DOMAIN db \ base
      BY <2>4 DEF LedgerInv
    <3>2. ASSUME NEW m \in forgotten PROVE ledger[m] # ledger[n + k]
      <4>1. m \in 1 .. Len(ledger) /\ m < n + k
        BY <1>0, <2>3
      <4> QED BY <1>0, <2>4, <4>1 DEF LedgerInv
    <3>3. n \in 1 .. Len(ledger) - k
      BY <2>3
    <3> QED BY <2>1, <2>2, <2>3, <3>1, <3>2, <3>3
  <2>6. ASSUME NEW m \in 1 .. Len(ledger'), NEW n \in 1 .. Len(ledger'), m < n
        PROVE  /\ ledger'[m][2] < ledger'[n][2]
               /\ back = 0 => ledger'[m][1] <= ledger'[n][1] /\ ledger'[n][1] <= now
    <3>1. m + k < n + k /\ m \in 1 .. Len(ledger) - k /\ n \in 1 .. Len(ledger) - k
      BY <1>0, <2>3, <2>6
    <3> QED BY <2>3, <2>4, <3>1 DEF LedgerInv
  <2>7. back = 0 => \A n \in 1 .. Len(ledger') : ledger'[n][1] <= now
    BY <2>3, <2>4 DEF LedgerInv
  <2>8. ASSUME Ttl > 0, "sweep" \notin faults', NEW id \in DOMAIN db' \ base'
        PROVE  id \in Range(ledger')
    <3>1. id \in Range(ledger) /\ \A n \in 1 .. k : id # ledger[n]
      BY <2>1, <2>2, <2>3, <2>8 DEF LedgerInv
    <3>2. PICK n \in 1 .. Len(ledger) : id = ledger[n]
      BY <1>0, <3>1 DEF Range
    <3>3. n - k \in 1 .. Len(ledger') /\ ledger'[n - k] = id
      <4>1. n > k
        BY <1>0, <2>3, <3>1, <3>2
      <4>2. n - k \in 1 .. Len(ledger) - k /\ (n - k) + k = n
        BY <1>0, <2>3, <4>1
      <4> QED BY <2>3, <3>2, <4>2
    <3>4. DOMAIN ledger' = 1 .. Len(ledger')
      BY <2>3
    <3> QED BY <3>3, <3>4 DEF Range
  <2> QED BY <2>1, <2>5, <2>6, <2>7, <2>8 DEF LedgerInv
<1>4. ASSUME NEW flushed \in BOOLEAN, Disconnected(flushed) PROVE LedgerInv'
  <2>1. /\ UNCHANGED <<ledger, db, base, now, back>>
        /\ "sweep" \notin faults' => "sweep" \notin faults
    BY <1>4 DEF Disconnected, clockVars
  <2> QED BY <2>1 DEF LedgerInv
<1>5. CASE Record \/ Shutdown \/ MainReturns \/ StepBack
  <2>1. CASE Record
    BY <1>0, <1>1, <2>1 DEF Record, actorVars, clockVars
  <2>2. CASE Shutdown \/ MainReturns
    BY <1>0, <1>1, <2>2 DEF Shutdown, MainReturns, actorVars, clockVars
  <2>3. CASE StepBack
    <3>1. UNCHANGED <<ledger, db, base, faults>> /\ back' # 0
      BY <2>3 DEF StepBack, actorVars, TypeOK
    <3> QED BY <3>1 DEF LedgerInv
  <2> QED BY <1>5, <2>1, <2>2, <2>3
<1>6. CASE Exit \/ Crash
  BY <1>0, <1>1, <1>6 DEF Exit, Crash, End, actorVars, clockVars
<1>7. CASE Start
  BY <1>7 DEF Start, LedgerInv
<1>8. CASE Tick
  BY <1>0, <1>1, <1>8 DEF Tick, clockVars
<1>9. CASE UNCHANGED vars
  BY <1>0, <1>1, <1>9 DEF vars
<1> QED
  BY <1>2, <1>3, <1>4, <1>5, <1>6, <1>7, <1>8, <1>9 DEF Next, Actor, Finished

\* A sweep takes a record from the store only when it is older than the
\* retention, and a sweep whose statements all succeed leaves this process no
\* record that was older than the cutoff, as long as the clock is not set back.
LEMMA SweepCutoff ==
    ASSUME TypeOK, SeqBound, FreshIds, OnePlace, LedgerInv, NEW flushed \in BOOLEAN,
           NEW forgotten \in SUBSET Expired, Timeout(flushed, forgotten)
    PROVE  /\ \A id \in DOMAIN db \ DOMAIN db' : now > id[1] + Ttl
           /\ Ttl > 0 /\ back = 0 /\ "sweep" \notin faults' =>
                 \A id \in DOMAIN db' \ base : now <= id[1] + Ttl
<1> DEFINE k == Cardinality(Expired)
<1>0. /\ now \in Nat /\ Ttl \in Nat /\ Len(ledger) \in Nat
      /\ \A id \in DOMAIN db : id[1] \in Nat
      /\ \A n \in 1 .. Len(ledger) : ledger[n] \in DOMAIN db \ base
  <2>1. \A id \in Id : id[1] \in Nat
    BY StoreAssumption DEF Id
  <2> QED BY <2>1, StoreAssumption DEF TypeOK, LedgerInv
<1>1. Sweep(forgotten) /\ UNCHANGED <<now, base, back>>
  BY DEF Timeout, clockVars
<1>2. DOMAIN db' = DOMAIN db \ {ledger[n] : n \in forgotten}
  BY <1>1, SweepEffect
<1>3. k \in 0 .. Len(ledger) /\ Expired = 1 .. k
  BY <1>1, SweepShift
<1>4. ASSUME NEW id \in DOMAIN db \ DOMAIN db' PROVE now > id[1] + Ttl
  <2>1. PICK n \in forgotten : id = ledger[n]
    BY <1>2
  <2>2. n \in 1 .. Len(ledger) /\ ledger[n][1] < Cutoff
    BY <1>0 DEF Expired
  <2> QED BY <1>0, <2>1, <2>2 DEF Cutoff
<1>5. ASSUME Ttl > 0, back = 0, "sweep" \notin faults', NEW id \in DOMAIN db' \ base
      PROVE  now <= id[1] + Ttl
  <2>1. forgotten = Expired /\ "sweep" \notin faults
    BY <1>5 DEF Timeout
  <2>2. id \in Range(ledger) /\ \A n \in Expired : id # ledger[n]
    BY <1>2, <1>5, <2>1 DEF LedgerInv
  <2>3. PICK n \in 1 .. Len(ledger) : id = ledger[n]
    BY <2>2 DEF Range, TypeOK
  <2>4. PICK m \in 1 .. n : ~(ledger[m][1] < Cutoff)
    BY <2>2, <2>3 DEF Expired
  <2>5. m \in 1 .. Len(ledger) /\ (m = n \/ m < n)
    BY <1>0, <2>3, <2>4
  <2>6. ledger[m][1] <= ledger[n][1]
    BY <1>0, <1>5, <2>5 DEF LedgerInv
  <2>7. ledger[m][1] \in Nat /\ ledger[n][1] \in Nat
    BY <1>0, <2>5
  <2> QED BY <1>0, <2>3, <2>4, <2>6, <2>7, SMTT(20) DEF Cutoff
<1> QED BY <1>4, <1>5

-------------------------------------------------------------------------------
(* Shutdown. *)

\* As long as processes end by shutdown() and storage works, the checkpoints
\* keep up with the store and no queued record is lost.
LEMMA DrainStep ==
    ASSUME TypeOK, DownEmpty, OnePlace, FreshIds, DrainInv, [Next]_vars
    PROVE  DrainInv'
<1> SUFFICES ASSUME clean', faults' = {}
             PROVE  /\ gone'["lost"] = {}
                    /\ mode' # "leaving"
                    /\ mode' \in {"stopped", "down"} => queue' = <<>> /\ ~dirty'
                    /\ ~dirty' => Checkpointed'
  BY DEF DrainInv
<1>0. dirty \in BOOLEAN /\ DOMAIN gone = Causes
  BY DEF TypeOK
<1>1. CASE Record
  BY <1>1 DEF Record, actorVars, DrainInv, Checkpointed
<1>2. ASSUME NEW ok \in BOOLEAN, InsertOne(ok)
      PROVE  /\ gone'["lost"] = {}
             /\ mode' # "leaving"
             /\ mode' \in {"stopped", "down"} => queue' = <<>> /\ ~dirty'
             /\ ~dirty' => Checkpointed'
  <2>1. ok /\ faults' = faults /\ gone'["lost"] = gone["lost"] /\ dirty'
    BY <1>0, <1>2 DEF InsertOne, DirtyAfter, Lose, Causes
  <2>2. mode' = mode /\ mode \notin {"stopped", "down"} /\ clean' = clean
    BY <1>2 DEF InsertOne, Running, Closing
  <2> QED BY <2>1, <2>2 DEF DrainInv
<1>3. ASSUME NEW flushed \in BOOLEAN, NEW forgotten \in SUBSET Expired,
             Timeout(flushed, forgotten)
      PROVE  /\ gone'["lost"] = {}
             /\ mode' # "leaving"
             /\ mode' \in {"stopped", "down"} => queue' = <<>> /\ ~dirty'
             /\ ~dirty' => Checkpointed'
  <2>1. /\ mode = "up" /\ mode' = mode /\ clean' = clean /\ faults = {}
        /\ Sweep(forgotten)
        /\ ckpt' = (IF dirty /\ flushed THEN db ELSE ckpt)
        /\ ~(dirty /\ ~flushed)
    BY <1>3 DEF Timeout, Checkpoint
  <2>2. gone'["lost"] = gone["lost"]
    BY <1>0, <2>1 DEF Sweep, Lose
  <2>3. DOMAIN db' \subseteq DOMAIN db /\ \A id \in DOMAIN db' : db'[id] = db[id]
    BY <2>1, SweepEffect
  <2>4. \A id \in DOMAIN db : id \in DOMAIN ckpt' /\ ckpt'[id] = db[id]
    BY <1>0, <2>1 DEF DrainInv, Checkpointed
  <2> QED BY <2>1, <2>2, <2>3, <2>4 DEF DrainInv, Checkpointed
<1>4. ASSUME NEW flushed \in BOOLEAN, Disconnected(flushed)
      PROVE  /\ gone'["lost"] = {}
             /\ mode' # "leaving"
             /\ mode' \in {"stopped", "down"} => queue' = <<>> /\ ~dirty'
             /\ ~dirty' => Checkpointed'
  <2>1. /\ mode' = "stopped" /\ queue' = <<>> /\ ~dirty'
        /\ clean' = clean /\ faults = {} /\ gone' = gone /\ db' = db
        /\ ckpt' = (IF dirty /\ flushed THEN db ELSE ckpt)
        /\ ~(dirty /\ ~flushed)
    BY <1>4 DEF Disconnected, Checkpoint, AllSendersGone
  <2>2. Checkpointed'
    BY <1>0, <2>1 DEF DrainInv, Checkpointed
  <2> QED BY <2>1, <2>2 DEF DrainInv
<1>5. CASE Shutdown
  BY <1>5 DEF Shutdown, actorVars, DrainInv, Checkpointed
<1>6. CASE MainReturns \/ Crash
  BY <1>6 DEF MainReturns, Crash
<1>7. CASE Exit
  <2>1. /\ mode \in {"stopped", "leaving"} /\ mode' = "down" /\ queue' = <<>>
        /\ Lose("lost", Range(queue))
        /\ UNCHANGED <<dirty, db, ckpt, faults, clean>>
    BY <1>7 DEF Exit, End, actorVars
  <2>2. queue = <<>> /\ ~dirty /\ gone["lost"] = {} /\ Checkpointed
    BY <2>1 DEF DrainInv
  <2>3. Range(queue) = {}
    BY <2>2 DEF Range
  <2>4. gone'["lost"] = {}
    BY <1>0, <2>1, <2>2, <2>3 DEF Lose, Causes
  <2> QED BY <2>1, <2>2, <2>4 DEF Checkpointed
<1>8. CASE Start
  <2>1. mode = "down" /\ mode' = "up" /\ UNCHANGED <<db, ckpt, gone, faults, clean>>
    BY <1>8 DEF Start
  <2> QED BY <2>1 DEF DrainInv, Checkpointed
<1>9. CASE Tick \/ StepBack
  <2>1. UNCHANGED <<mode, queue, dirty, db, ckpt, gone, faults, clean>>
    BY <1>9 DEF Tick, StepBack, actorVars
  <2> QED BY <2>1 DEF DrainInv, Checkpointed
<1>10. CASE UNCHANGED vars
  BY <1>10 DEF vars, DrainInv, Checkpointed
<1> QED
  BY <1>1, <1>2, <1>3, <1>4, <1>5, <1>6, <1>7, <1>8, <1>9, <1>10 DEF Next, Actor, Finished

-------------------------------------------------------------------------------
(* The sweep of an idle process. *)

\* A prompt actor waits no longer than since the last record() call or since a
\* sweep of all that had expired.
LEMMA IdleStep ==
    ASSUME TypeOK, SeqBound, FreshIds, OnePlace, LedgerInv, IdleInv, [Next]_vars
    PROVE  IdleInv'
<1> DEFINE Prompt == ~late /\ back = 0 /\ mode = "up" /\ Ttl > 0 /\ faults = {}
           Seen == queue # <<>> => quiet = now
           Swept == \/ now <= quiet + wait
                    \/ \A id \in DOMAIN db \ base : now <= id[1] + Ttl + wait
<1> SUFFICES ASSUME Prompt' PROVE Seen' /\ Swept'
  BY DEF IdleInv
<1>0. /\ now \in Nat /\ quiet \in Nat /\ wait \in Nat /\ Ttl \in Nat
      /\ \A id \in DOMAIN db : id[1] \in Nat
  <2>1. \A id \in Id : id[1] \in Nat
    BY StoreAssumption DEF Id
  <2> QED BY <2>1, StoreAssumption DEF TypeOK
<1>1. CASE Record
  BY <1>0, <1>1 DEF Record, actorVars
<1>2. ASSUME NEW ok \in BOOLEAN, InsertOne(ok) PROVE Seen' /\ Swept'
  <2>1. /\ ok /\ queue # <<>> /\ wait' = 0
        /\ UNCHANGED <<now, quiet, late, back, mode, faults>>
    BY <1>2 DEF InsertOne, clockVars
  <2>2. quiet = now
    BY <2>1 DEF IdleInv
  <2> QED BY <1>0, <2>1, <2>2
<1>3. ASSUME NEW flushed \in BOOLEAN, NEW forgotten \in SUBSET Expired,
             Timeout(flushed, forgotten)
      PROVE  Seen' /\ Swept'
  <2>1. /\ queue = <<>> /\ wait' = 0
        /\ UNCHANGED <<now, quiet, queue, base, late, back>>
    BY <1>3 DEF Timeout, clockVars
  <2>2. \A id \in DOMAIN db' \ base : now <= id[1] + Ttl
    BY <1>3, <2>1, SweepCutoff
  <2>3. DOMAIN db' \subseteq DOMAIN db
    BY <1>3, SweepEffect DEF Timeout
  <2> QED BY <1>0, <2>1, <2>2, <2>3
<1>4. ASSUME NEW flushed \in BOOLEAN, Disconnected(flushed) PROVE Seen' /\ Swept'
  BY <1>4 DEF Disconnected
<1>5. CASE Shutdown \/ MainReturns
  BY <1>5 DEF Shutdown, MainReturns
<1>6. CASE Exit \/ Crash \/ StepBack
  <2>1. CASE Exit \/ Crash
    BY <2>1 DEF Exit, Crash, End
  <2>2. CASE StepBack
    BY <2>2 DEF StepBack, TypeOK
  <2> QED BY <1>6, <2>1, <2>2
<1>7. CASE Start
  BY <1>0, <1>7 DEF Start
<1>8. CASE Tick
  <2>1. /\ UNCHANGED <<mode, faults, back, queue, quiet, db, base>>
        /\ now' = now + 1 /\ ~late /\ ~ActorDue
        /\ wait' = IF Running /\ wait < Flush THEN wait + 1 ELSE wait
    BY <1>8 DEF Tick, clockVars
  <2>2. queue = <<>> /\ wait' = wait + 1
    BY StoreAssumption, <2>1 DEF ActorDue, Running, TypeOK
  <2> QED BY <1>0, <2>1, <2>2 DEF IdleInv
<1>9. CASE UNCHANGED vars
  BY <1>9 DEF vars, IdleInv
<1> QED
  BY <1>1, <1>2, <1>3, <1>4, <1>5, <1>6, <1>7, <1>8, <1>9 DEF Next, Actor, Finished

-------------------------------------------------------------------------------
(* The theorems. *)

\* A store on a new file satisfies the inductive invariant (MemoryStore::start).
LEMMA StoreInit ==
    ASSUME Init
    PROVE  StoreInv
<1> USE StoreAssumption
<1>1. DOMAIN db = {} /\ DOMAIN ckpt = {} /\ Stored = {}
  BY DEF Init, NoRecords, Stored
<1>2. Range(queue) = {} /\ Len(queue) = 0
  BY DEF Init, Range
<1>3. Gone = {}
  BY DEF Init, Gone
<1>4. gone["lost"] = {} /\ gone["replaced"] = {}
  BY DEF Init, Causes
<1>5. TypeOK
  <2>1. /\ now \in 0 .. MaxTime /\ calls \in 0 .. MaxCalls /\ seq \in 0 .. MaxCalls
        /\ wait \in 0 .. Flush /\ quiet \in 0 .. MaxTime /\ back \in 0 .. MaxBack
    BY DEF Init
  <2>2. queue \in Seq(Records) /\ Len(queue) <= QueueCap /\ ledger \in Seq(Id)
    BY <1>2 DEF Init
  <2>3. gone \in [Causes -> SUBSET Records]
    BY DEF Init
  <2>4. db \in [DOMAIN db -> Records] /\ ckpt \in [DOMAIN ckpt -> Records]
    BY <1>1 DEF Init, NoRecords
  <2>5. dirty \in BOOLEAN /\ late \in BOOLEAN /\ clean \in BOOLEAN /\ behind \in BOOLEAN
    BY Zenon DEF Init
  <2> QED BY <1>1, <2>1, <2>2, <2>3, <2>4, <2>5 DEF Init, TypeOK
<1>6. SeqBound /\ QueueOrdered /\ DownEmpty
  BY <1>2 DEF Init, SeqBound, QueueOrdered, DownEmpty
<1>7. FreshIds /\ ReplacedBehind /\ OnePlace
  BY <1>1, <1>2, <1>3, <1>4 DEF Init, FreshIds, ReplacedBehind, OnePlace
<1>8. LedgerInv
  BY <1>1 DEF Init, LedgerInv
<1>9. DrainInv
  BY <1>1, <1>4 DEF Init, DrainInv, Checkpointed
<1>10. IdleInv
  BY DEF Init, IdleInv
<1> QED BY <1>5, <1>6, <1>7, <1>8, <1>9, <1>10 DEF StoreInv

\* Every step of the gateway, the actor, the process and the clock preserves
\* the inductive invariant.
LEMMA StoreStep ==
    ASSUME StoreInv, [Next]_vars
    PROVE  StoreInv'
<1>1. /\ TypeOK /\ SeqBound /\ QueueOrdered /\ DownEmpty /\ FreshIds /\ ReplacedBehind /\ OnePlace
      /\ LedgerInv /\ DrainInv /\ IdleInv
  BY DEF StoreInv
<1>2. TypeOK' /\ SeqBound'
  BY <1>1, TypeStep
<1>3. QueueOrdered' /\ DownEmpty' /\ FreshIds'
  BY <1>1, QueueStep, FreshStep
<1>4. OnePlace' /\ ReplacedBehind'
  BY <1>1, PlaceStep, ReplacedStep
<1>5. LedgerInv'
  BY <1>1, LedgerStep
<1>6. DrainInv'
  BY <1>1, DrainStep
<1>7. IdleInv'
  BY <1>1, IdleStep
<1> QED BY <1>2, <1>3, <1>4, <1>5, <1>6, <1>7 DEF StoreInv

\* The inductive invariant holds throughout (the actor loop of memory.rs).
THEOREM StoreInvariant == Spec => []StoreInv
<1>1. Init => StoreInv
  BY StoreInit
<1>2. StoreInv /\ [Next]_vars => StoreInv'
  BY StoreStep
<1> QED BY <1>1, <1>2, PTL DEF Spec

\* The state of the store has its types, and the queue its bound: try_send never
\* lets the channel grow past QUEUE_CAP.
THEOREM StoreTypes == Spec => []TypeOK
<1>1. StoreInv => TypeOK
  BY DEF StoreInv
<1> QED BY <1>1, StoreInvariant, PTL

\* Two disjoint finite sets have as many elements together as apart.
LEMMA DisjointUnion ==
    ASSUME NEW S, NEW T, IsFiniteSet(S), IsFiniteSet(T), S \cap T = {}
    PROVE  /\ IsFiniteSet(S \cup T)
           /\ Cardinality(S \cup T) = Cardinality(S) + Cardinality(T)
<1>1. /\ IsFiniteSet(S \cup T)
      /\ Cardinality(S \cup T) = Cardinality(S) + Cardinality(T) - Cardinality(S \cap T)
  BY FS_Union
<1>2. Cardinality(S \cap T) = 0
  BY FS_EmptySet
<1>3. Cardinality(S) \in Nat /\ Cardinality(T) \in Nat
  BY FS_CardinalityType
<1> QED BY <1>1, <1>2, <1>3

\* Each stored record has one id, so there are as many ids as records.
LEMMA IdsAndRecords ==
    ASSUME TypeOK, OnePlace
    PROVE  /\ IsFiniteSet(DOMAIN db) /\ IsFiniteSet(Stored)
           /\ Cardinality(DOMAIN db) = Cardinality(Stored)
<1>1. db \in Bijection(DOMAIN db, Stored)
  BY DEF TypeOK, OnePlace, Stored, Bijection, Injection, Surjection, IsInjective
<1>2. ExistsBijection(DOMAIN db, Stored)
  BY <1>1 DEF ExistsBijection
<1>3. ExistsBijection(Stored, DOMAIN db)
  BY <1>2, Fun_ExistsBijSymmetric
<1>4. Stored \subseteq 1 .. calls /\ calls \in Nat
  BY StoreAssumption DEF OnePlace, TypeOK
<1>5. IsFiniteSet(Stored)
  <2>1. IsFiniteSet(1 .. calls)
    BY <1>4, FS_Interval
  <2> QED BY <1>4, <2>1, FS_Subset
<1> QED BY <1>3, <1>5, FS_Bijection

\* Every record that record() queued is in exactly one place: queued, stored
\* under an id no other record has, or accounted for as failed, forgotten,
\* replaced or lost; and insert_one replaces a record only after a process has
\* run at a time not later than that of a record stored before it started.
THEOREM StoreKeepsAccepted == Spec => []AcceptedKept
<1>1. ASSUME StoreInv PROVE AcceptedKept
  <2>1. TypeOK /\ QueueOrdered /\ OnePlace
    BY <1>1 DEF StoreInv
  <2>2. /\ queue \in Seq(Records) /\ Len(queue) \in Nat /\ calls \in Nat
        /\ \A n \in 1 .. Len(queue) : queue[n] \in Nat
    BY <2>1, StoreAssumption, SMTT(20) DEF TypeOK, Records
  <2>3. \A m, n \in 1 .. Len(queue) : m # n => queue[m] # queue[n]
    BY <2>1, <2>2 DEF QueueOrdered
  <2>4. IsFiniteSet(Range(queue)) /\ Cardinality(Range(queue)) = Len(queue)
    BY <2>2, <2>3, DistinctLength
  <2>5. IsFiniteSet(Stored) /\ Cardinality(DOMAIN db) = Cardinality(Stored)
    BY <2>1, IdsAndRecords
  <2>6. IsFiniteSet(Gone)
    <3>1. Gone \subseteq 1 .. calls
      BY <2>1 DEF OnePlace
    <3>2. IsFiniteSet(1 .. calls)
      BY <2>2, FS_Interval
    <3> QED BY <3>1, <3>2, FS_Subset
  <2>7. /\ IsFiniteSet(Range(queue) \cup Stored)
        /\ Cardinality(Range(queue) \cup Stored) = Len(queue) + Cardinality(DOMAIN db)
    BY <2>1, <2>4, <2>5, DisjointUnion, SMTT(20) DEF OnePlace
  <2>8. (Range(queue) \cup Stored) \cap Gone = {}
    BY <2>1 DEF OnePlace
  <2>9. Cardinality((Range(queue) \cup Stored) \cup Gone)
          = Len(queue) + Cardinality(DOMAIN db) + Cardinality(Gone)
    BY <2>6, <2>7, <2>8, DisjointUnion
  <2>10. ~behind => gone["replaced"] = {}
    BY <1>1 DEF StoreInv, ReplacedBehind
  <2> QED BY <2>1, <2>9, <2>10 DEF AcceptedKept, OnePlace
<1> QED BY <1>1, StoreInvariant, PTL

\* The TTL ledger lists exactly the records this process stored, in order, until
\* a sweep fails: what sweep() pops is what its FORGETs remove.
THEOREM StoreLedger == Spec => []LedgerMatchesStore
<1>1. ASSUME StoreInv PROVE LedgerMatchesStore
  <2>1. LedgerInv /\ Len(ledger) \in Nat
    BY <1>1 DEF StoreInv, TypeOK
  <2>2. ASSUME NEW n \in 1 .. Len(ledger), NEW m \in 1 .. n - 1
        PROVE  /\ ledger[m][2] < ledger[n][2]
               /\ ledger[m][1] <= ledger[n][1] \/ back > 0
    <3>1. m \in 1 .. Len(ledger) /\ m < n
      BY <2>1
    <3>2. back = 0 \/ back > 0
      BY <1>1, StoreAssumption DEF StoreInv, TypeOK
    <3> QED BY <2>1, <3>1, <3>2 DEF LedgerInv
  <2> QED BY <2>1, <2>2 DEF LedgerMatchesStore, LedgerInv
<1> QED BY <1>1, StoreInvariant, PTL

\* When every process ended by shutdown() and storage worked, nothing was lost
\* and the main file has every stored record (the Disconnected branch).
THEOREM StoreDrains == Spec => []ShutdownDrains
<1>1. StoreInv => ShutdownDrains
  BY DEF StoreInv, DrainInv, Checkpointed, ShutdownDrains
<1> QED BY <1>1, StoreInvariant, PTL

\* An idle process keeps no record of its own beyond the retention plus one
\* flush interval: every recv_timeout sweeps.
THEOREM StoreSweepsOnTime == Spec => []IdleSweepsOnTime
<1>1. ASSUME StoreInv PROVE IdleSweepsOnTime
  <2>1. /\ IdleInv /\ now \in Nat /\ quiet \in Nat /\ wait \in Nat /\ wait <= Flush
        /\ Ttl \in Nat /\ Flush \in Nat /\ DOMAIN db \subseteq Id
    BY <1>1, StoreAssumption DEF StoreInv, TypeOK
  <2>2. \A id \in Id : id[1] \in Nat
    BY StoreAssumption DEF Id
  <2> QED BY <2>1, <2>2 DEF IdleInv, IdleSweepsOnTime
<1> QED BY <1>1, StoreInvariant, PTL

\* No step takes a record out of the store before its retention has ended, be
\* it an insert, a restart, a crash or a failing sweep, and none overwrites a
\* record before the clock has fallen behind the store.
THEOREM StoreForgetsLate == Spec => NoEarlyForget
<1> DEFINE Late == \A id \in DOMAIN db :
                      \/ id \in DOMAIN db' /\ (db'[id] = db[id] \/ behind)
                      \/ now > id[1] + Ttl
<1>1. ASSUME StoreInv, [Next]_vars PROVE [Late]_vars
  <2>1. ASSUME NEW flushed \in BOOLEAN, NEW forgotten \in SUBSET Expired,
               Timeout(flushed, forgotten)
        PROVE  Late
    <3>1. \A id \in DOMAIN db \ DOMAIN db' : now > id[1] + Ttl
      BY <1>1, <2>1, SweepCutoff DEF StoreInv
    <3>2. \A id \in DOMAIN db' : db'[id] = db[id]
      BY <1>1, <2>1, SweepEffect DEF StoreInv, Timeout
    <3> QED BY <3>1, <3>2
  <2>2. ASSUME NEW ok \in BOOLEAN, InsertOne(ok) PROVE Late
    <3>1. CASE ok
      <4>1. /\ DOMAIN db' = DOMAIN db \cup {NewId}
            /\ \A id \in DOMAIN db : id # NewId => db'[id] = db[id]
        BY <2>2, <3>1 DEF InsertOne
      <4>2. NewId \in DOMAIN db => behind
        BY <1>1, <2>2, NewIdFresh DEF StoreInv, InsertOne, Running, Closing
      <4> QED BY <4>1, <4>2
    <3>2. CASE ~ok
      BY <2>2, <3>2 DEF InsertOne
    <3> QED BY <3>1, <3>2
  <2>3. ASSUME NEW flushed \in BOOLEAN, Disconnected(flushed) PROVE db' = db
    BY <2>3 DEF Disconnected
  <2>4. CASE Record \/ Shutdown \/ MainReturns \/ Exit \/ Crash \/ Start \/ Tick \/ StepBack
    BY <2>4 DEF Record, Shutdown, MainReturns, Exit, Crash, End, Start, Tick, StepBack
  <2>5. CASE Finished \/ UNCHANGED vars
    BY <2>5 DEF Finished
  <2> QED BY <1>1, <2>1, <2>2, <2>3, <2>4, <2>5 DEF Next, Actor
<1> QED BY <1>1, StoreInvariant, PTL DEF Spec, NoEarlyForget

-------------------------------------------------------------------------------
(* The refinement. *)

\* A new store is an empty request log.
LEMMA LogInit ==
    ASSUME Init
    PROVE  Log!Init
<1>1. Stored = {}
  BY DEF Init, NoRecords, Stored
<1>2. Gone = {}
  BY DEF Init, Gone
<1> QED BY <1>1, <1>2 DEF Init, Log!Init

\* Every step of the store is a step of the request log or leaves it alone:
\* record() accepts or rejects, insert_one keeps, overwrites or fails, a sweep expires, the
\* end of the process abandons the queue, and a restart or the clock may let the
\* log see that the clock has fallen behind; checkpoints and shutdown change
\* nothing a reader of the log could tell.
LEMMA LogStep ==
    ASSUME StoreInv, [Next]_vars
    PROVE  [Log!Next]_(Log!logVars)
<1>0. TypeOK /\ FreshIds /\ OnePlace /\ DownEmpty
  BY DEF StoreInv
<1>1. ASSUME UNCHANGED <<calls, queue, db, gone, behind>> PROVE UNCHANGED Log!logVars
  BY <1>1 DEF Log!logVars, Stored, Gone
<1>2. CASE Record
  <2>1. calls' = calls + 1 /\ Stored' = Stored /\ Gone' = Gone /\ behind' = behind
    BY <1>2 DEF Record, clockVars, Stored, Gone
  <2>2. Len(queue) \in Nat /\ Len(queue) <= QueueCap /\ QueueCap \in Nat
    BY <1>0, StoreAssumption DEF TypeOK
  <2>3. CASE QueueFull
    <3>1. queue' = queue /\ Len(queue) = QueueCap
      BY <1>2, <2>2, <2>3 DEF Record, QueueFull
    <3>2. Log!Reject
      BY <2>1, <3>1 DEF Log!Reject
    <3> QED BY <3>2 DEF Log!Next
  <2>4. CASE ~QueueFull
    <3>1. queue' = Append(queue, calls + 1) /\ Len(queue) < QueueCap
      BY <1>2, <2>2, <2>4 DEF Record, QueueFull
    <3>2. Log!Accept
      BY <2>1, <3>1 DEF Log!Accept
    <3> QED BY <3>2 DEF Log!Next
  <2> QED BY <2>3, <2>4
<1>3. ASSUME NEW ok \in BOOLEAN, InsertOne(ok) PROVE Log!Next
  <2>1. queue # <<>> /\ queue' = Tail(queue) /\ calls' = calls /\ behind' = behind
    BY <1>3 DEF InsertOne, clockVars
  <2>2. CASE ok
    <3>1. PICK old \in SUBSET Stored :
            /\ Stored' = (Stored \ old) \cup {Head(queue)} /\ Gone' = Gone \cup old
            /\ old = {} \/ (behind /\ \E rec \in Stored : old = {rec})
      BY <1>0, <1>3, <2>2, InsertEffect
    <3>2. CASE old = {}
      <4>1. Stored' = Stored \cup {Head(queue)} /\ Gone' = Gone
        BY <3>1, <3>2
      <4>2. Log!Keep
        BY <2>1, <4>1 DEF Log!Keep
      <4> QED BY <4>2 DEF Log!Next
    <3>3. CASE behind /\ \E rec \in Stored : old = {rec}
      <4>1. Log!Overwrite
        BY <2>1, <3>1, <3>3 DEF Log!Overwrite
      <4> QED BY <4>1 DEF Log!Next
    <3> QED BY <3>1, <3>2, <3>3
  <2>3. CASE ~ok
    <3>1. Stored' = Stored /\ Gone' = Gone \cup {Head(queue)}
      BY <1>0, <1>3, <2>3, InsertEffect
    <3>2. Log!Fail
      BY <2>1, <3>1 DEF Log!Fail
    <3> QED BY <3>2 DEF Log!Next
  <2> QED BY <2>2, <2>3
<1>4. ASSUME NEW flushed \in BOOLEAN, NEW forgotten \in SUBSET Expired,
             Timeout(flushed, forgotten)
      PROVE  Log!Next
  <2>1. Sweep(forgotten) /\ calls' = calls /\ queue' = queue /\ behind' = behind
    BY <1>4 DEF Timeout, clockVars
  <2>2. PICK old \in SUBSET Stored : Stored' = Stored \ old /\ Gone' = Gone \cup old
    BY <1>0, <2>1, SweepEffect
  <2>3. Log!Expire
    BY <2>1, <2>2 DEF Log!Expire
  <2> QED BY <2>3 DEF Log!Next
<1>5. CASE Exit \/ Crash
  <2>1. End /\ calls' = calls /\ behind' = behind
    BY <1>5 DEF Exit, Crash, End, clockVars
  <2>2. queue' = <<>> /\ Gone' = Gone \cup Range(queue) /\ Stored' = Stored
    BY <1>0, <2>1, EndEffect
  <2>3. Log!Abandon
    BY <2>1, <2>2 DEF Log!Abandon, Log!Range, Range
  <2> QED BY <2>3 DEF Log!Next
<1>6. ASSUME NEW flushed \in BOOLEAN, Disconnected(flushed) PROVE UNCHANGED Log!logVars
  BY <1>1, <1>6 DEF Disconnected, clockVars
<1>7. CASE Start \/ StepBack
  <2>1. queue' = queue /\ UNCHANGED <<calls, db, gone>> /\ behind' \in BOOLEAN /\ (behind => behind')
    BY <1>0, <1>7 DEF Start, StepBack, DownEmpty
  <2>2. CASE behind' = behind
    BY <1>1, <2>1, <2>2
  <2>3. CASE behind' # behind
    <3>1. behind' = TRUE
      BY <1>0, <2>1, <2>3 DEF TypeOK
    <3>2. Log!FallBehind
      BY <2>1, <3>1 DEF Log!FallBehind, Stored, Gone
    <3> QED BY <3>2 DEF Log!Next
  <2> QED BY <2>2, <2>3
<1>8. CASE Shutdown \/ MainReturns \/ Tick
  BY <1>1, <1>8 DEF Shutdown, MainReturns, Tick, clockVars
<1>9. CASE UNCHANGED vars
  BY <1>1, <1>9 DEF vars
<1> QED
  BY <1>2, <1>3, <1>4, <1>5, <1>6, <1>7, <1>8, <1>9 DEF Next, Actor, Finished

\* The store implements the request log: through failing storage, crashes and
\* restarts a record is kept at most once, in the order of the record() calls,
\* leaves only by expiring or, the clock having fallen behind the store, by being
\* overwritten, and a call drops its record only when the queue is full.
THEOREM StoreImplementsLog == Spec => Implements
<1>1. Init => Log!Init
  BY LogInit
<1>2. StoreInv /\ [Next]_vars => [Log!Next]_(Log!logVars)
  BY LogStep
<1> QED BY <1>1, <1>2, StoreInvariant, PTL DEF Spec, Implements, Log!Spec
==============================================================================
