----------------------------- MODULE MemoryStore -----------------------------
(***************************************************************************)
(* The request log of the gateway (core/memory.rs): request handlers       *)
(* enqueue records with a non-blocking try_send, and one actor thread owns *)
(* the nqlite database, inserting records, checkpointing its WAL and       *)
(* forgetting expired records.                                             *)
(*                                                                         *)
(* The actor is one loop over recv_timeout(flush_interval); each of its    *)
(* three outcomes (a record, a timeout, all senders gone) is an action.    *)
(* Any storage operation may fail, the process may stop at any moment and  *)
(* be started again on the same file.                                      *)
(*                                                                         *)
(* Records are numbered in the order of the record() calls.  The database  *)
(* is a function from record ids to records: an INSERT under a used id     *)
(* replaces the record, or is refused (a failed insert).  Statements are   *)
(* durable once executed (the engine fsyncs its WAL), so only the queue    *)
(* and the actor's local variables die with the process.                   *)
(***************************************************************************)
EXTENDS Naturals, FiniteSets, Sequences, Functions

CONSTANTS
    QueueCap,   \* QUEUE_CAP (4096 in the code)
    Ttl,        \* ttl_ms in clock ticks; 0 keeps records forever
    Flush,      \* flush_interval in clock ticks
    MaxTime,    \* bound: clock ticks
    MaxBack,    \* bound: times the clock is set back
    MaxCalls    \* bound: record() calls

ASSUME StoreAssumption ==
    /\ QueueCap \in Nat \ {0}
    /\ Ttl \in Nat
    /\ Flush \in Nat \ {0}
    /\ MaxTime \in Nat
    /\ MaxBack \in Nat
    /\ MaxCalls \in Nat

VARIABLES
    now,        \* the clock
    mode,       \* "up"; the senders are dropped: "joining" by shutdown(),
                \* "leaving" by main; the actor has "stopped"; "down"
    calls,      \* record() calls so far
    queue,      \* the bounded channel
    seq, dirty, ledger,   \* the actor's variables
    wait,       \* how long the actor has been in recv_timeout
    db,         \* the records in the store, by id
    ckpt,       \* the main file: the store as of the last checkpoint
    base,       \* history: ids already stored when the process started
    accepted,   \* history: records that entered the queue
    gone,       \* history: records whose insert failed, that were forgotten or
                \* replaced, or that were still queued when the process ended
    faults,     \* history: storage operations that have failed
    clean,      \* history: every process ended by shutdown()
    late,       \* history: time passed while the actor had something to do
    quiet,      \* history: time of the last record() call or start
    back,       \* history: times the clock has been set back
    behind      \* history: a process has run at a time not later than that of
                \* a record an earlier process stored

vars == <<now, mode, calls, queue, seq, dirty, ledger, wait, db, ckpt, base,
          accepted, gone, faults, clean, late, quiet, back, behind>>

actorVars == <<seq, dirty, ledger, wait>>

clockVars == <<back, behind>>

Records == 1 .. MaxCalls

Causes == {"failed", "forgotten", "replaced", "lost"}

\* "r{ts}_{seq}"
Id == (0 .. MaxTime) \X (1 .. MaxCalls)

\* The types, and the bound on the queue.
TypeOK ==
    /\ now \in 0 .. MaxTime
    /\ mode \in {"up", "joining", "leaving", "stopped", "down"}
    /\ calls \in 0 .. MaxCalls
    /\ queue \in Seq(Records) /\ Len(queue) <= QueueCap
    /\ seq \in 0 .. MaxCalls
    /\ dirty \in BOOLEAN
    /\ ledger \in Seq(Id)
    /\ wait \in 0 .. Flush
    /\ DOMAIN db \subseteq Id /\ db \in [DOMAIN db -> Records]
    /\ DOMAIN ckpt \subseteq Id /\ ckpt \in [DOMAIN ckpt -> Records]
    /\ base \subseteq Id
    /\ accepted \subseteq Records
    /\ gone \in [Causes -> SUBSET Records]
    /\ faults \subseteq {"insert", "flush", "sweep"}
    /\ clean \in BOOLEAN
    /\ late \in BOOLEAN
    /\ quiet \in 0 .. MaxTime
    /\ back \in 0 .. MaxBack
    /\ behind \in BOOLEAN

NoRecords == [id \in {} |-> 0]

Init ==
    /\ now = 0
    /\ mode = "up"
    /\ calls = 0
    /\ queue = <<>>
    /\ seq = 0 /\ dirty = FALSE /\ ledger = <<>> /\ wait = 0
    /\ db = NoRecords
    /\ ckpt = NoRecords
    /\ base = {}
    /\ accepted = {}
    /\ gone = [why \in Causes |-> {}]
    /\ faults = {}
    /\ clean = TRUE
    /\ late = FALSE
    /\ quiet = 0
    /\ back = 0
    /\ behind = FALSE

Lose(why, recs) == gone' = [gone EXCEPT ![why] = @ \cup recs]

Closing == mode \in {"joining", "leaving"}

\* Mutation: the actor stops receiving when the senders are gone.
RunningWhileUp == mode = "up"

Running == mode = "up" \/ Closing

-------------------------------------------------------------------------------
(* The request path. *)

\* Mutation: the queue has no limit.
UnboundedQueue == FALSE

\* Mutation: a record is dropped when there is room for one more.
QueueAlmostFull == Len(queue) + 1 >= QueueCap

QueueFull == Len(queue) >= QueueCap

\* record(): try_send; a full queue drops the record.
Record ==
    /\ mode = "up"
    /\ calls < MaxCalls
    /\ calls' = calls + 1
    /\ quiet' = now
    /\ IF QueueFull
       THEN UNCHANGED <<queue, accepted>>
       ELSE /\ queue' = Append(queue, calls + 1)
            /\ accepted' = accepted \cup {calls + 1}
    /\ UNCHANGED <<now, mode, actorVars, db, ckpt, base, gone, faults, clean, late, clockVars>>

-------------------------------------------------------------------------------
(* The actor. *)

\* Mutation: the id is the timestamp alone.
TimestampId == <<now, 1>>

NewId == <<now, seq + 1>>

DirtyAfter(ok) == dirty \/ ok

\* Mutation: a failed insert enters the ledger too.
TrackFailed(ok) == IF Ttl > 0 THEN Append(ledger, NewId) ELSE ledger

Tracked(ok) == IF Ttl > 0 /\ ok THEN Append(ledger, NewId) ELSE ledger

\* recv_timeout returned a record: insert_one, then dirty and the ledger.  An
\* id that an earlier process used takes its record's place.
InsertOne(ok) ==
    /\ Running
    /\ queue # <<>>
    /\ queue' = Tail(queue)
    /\ seq' = seq + 1
    /\ wait' = 0
    /\ dirty' = DirtyAfter(ok)
    /\ ledger' = Tracked(ok)
    /\ IF ok
       THEN /\ db' = [id \in DOMAIN db \cup {NewId} |->
                        IF id = NewId THEN Head(queue) ELSE db[id]]
            /\ base' = base \ {NewId}
            /\ Lose("replaced", {db[id] : id \in {NewId} \cap DOMAIN db})
            /\ UNCHANGED faults
       ELSE /\ Lose("failed", {Head(queue)})
            /\ faults' = faults \cup {"insert"}
            /\ UNCHANGED <<db, base>>
    /\ UNCHANGED <<now, mode, calls, ckpt, accepted, clean, late, quiet, clockVars>>

\* db.flush() when dirty: the WAL is folded into the main file.  A failed
\* checkpoint clears dirty all the same.
Checkpoint(ok) ==
    /\ dirty' = FALSE
    /\ ckpt' = IF dirty /\ ok THEN db ELSE ckpt

Cutoff == IF now >= Ttl THEN now - Ttl ELSE 0

\* Mutation: the cutoff is inclusive.
ExpiredTooSoon == {n \in 1 .. Len(ledger) : \A m \in 1 .. n : ledger[m][1] <= Cutoff}

\* Mutation: a sweep looks at one entry.
ExpiredFirst == {n \in 1 .. Len(ledger) : n = 1 /\ ledger[n][1] < Cutoff}

\* The positions sweep pops: the longest run of expired entries at the front.
Expired == {n \in 1 .. Len(ledger) : \A m \in 1 .. n : ledger[m][1] < Cutoff}

\* One FORGET per expired id; the entries leave the ledger whether or not the
\* statements succeed, and a failing batch may have run in part.
Sweep(forgotten) ==
    LET ids == {ledger[n] : n \in forgotten}
    IN  /\ ledger' = SubSeq(ledger, Cardinality(Expired) + 1, Len(ledger))
        /\ db' = Restrict(db, DOMAIN db \ ids)
        /\ Lose("forgotten", {db[id] : id \in ids \cap DOMAIN db})

\* recv_timeout timed out: checkpoint if dirty, then sweep.
Timeout(flushed, forgotten) ==
    /\ queue = <<>>
    /\ mode = "up"
    /\ wait = Flush
    /\ wait' = 0
    /\ Checkpoint(flushed)
    /\ forgotten \subseteq Expired
    /\ \A n \in forgotten : 1 .. n \subseteq forgotten
    /\ Sweep(forgotten)
    /\ faults' = faults \cup (IF dirty /\ ~flushed THEN {"flush"} ELSE {})
                        \cup (IF forgotten # Expired THEN {"sweep"} ELSE {})
    /\ UNCHANGED <<now, mode, calls, queue, seq, base, accepted, clean, late, quiet, clockVars>>

\* Mutation: the actor stops with records queued.
StopsAtOnce == Closing

\* recv_timeout reports Disconnected only once the queue is empty, so the
\* drain loop that follows finds nothing.
AllSendersGone == Closing /\ queue = <<>>

Disconnected(flushed) ==
    /\ AllSendersGone
    /\ mode' = "stopped"
    /\ Checkpoint(flushed)
    /\ faults' = faults \cup (IF dirty /\ ~flushed THEN {"flush"} ELSE {})
    /\ UNCHANGED <<now, calls, queue, seq, ledger, wait, db, base, accepted, gone,
                   clean, late, quiet, clockVars>>

-------------------------------------------------------------------------------
(* The process: main.rs and the operating system. *)

\* shutdown() drops the last sender and joins the actor ...
Shutdown ==
    /\ mode = "up"
    /\ mode' = "joining"
    /\ UNCHANGED <<now, calls, queue, actorVars, db, ckpt, base, accepted, gone,
                   faults, clean, late, quiet, clockVars>>

\* ... while main returns after axum's graceful shutdown, dropping the last
\* sender and joining nothing.
MainReturns ==
    /\ mode = "up"
    /\ mode' = "leaving"
    /\ clean' = FALSE
    /\ UNCHANGED <<now, calls, queue, actorVars, db, ckpt, base, accepted, gone,
                   faults, late, quiet, clockVars>>

End ==
    /\ mode' = "down"
    /\ queue' = <<>>
    /\ Lose("lost", Range(queue))
    /\ UNCHANGED <<now, calls, actorVars, db, ckpt, base, accepted, faults, late, quiet, clockVars>>

\* The process is over once shutdown() has joined the actor, or as soon as
\* main has returned.
Exit ==
    /\ mode \in {"stopped", "leaving"}
    /\ End
    /\ UNCHANGED clean

Crash ==
    /\ mode # "down"
    /\ End
    /\ clean' = FALSE

\* MemoryStore::start on the existing file, whatever the clock says.
Start ==
    /\ mode = "down"
    /\ mode' = "up"
    /\ queue' = <<>>
    /\ seq' = 0 /\ dirty' = FALSE /\ ledger' = <<>> /\ wait' = 0
    /\ base' = DOMAIN db
    /\ quiet' = now
    /\ behind' = (behind \/ \E id \in DOMAIN db : id[1] >= now)
    /\ UNCHANGED <<now, calls, db, ckpt, accepted, gone, faults, clean, late, back>>

ActorDue == Running /\ (queue # <<>> \/ wait = Flush \/ Closing)

Tick ==
    /\ now < MaxTime
    /\ late' = (late \/ ActorDue)
    /\ now' = now + 1
    /\ wait' = IF Running /\ wait < Flush THEN wait + 1 ELSE wait
    /\ UNCHANGED <<mode, calls, queue, seq, dirty, ledger, db, ckpt, base, accepted,
                   gone, faults, clean, quiet, clockVars>>

\* SystemTime is set back; recv_timeout counts on a clock of its own.
StepBack ==
    /\ back < MaxBack
    /\ \E t \in 0 .. MaxTime :
        /\ t < now
        /\ now' = t
        /\ behind' = (behind \/ (mode # "down" /\ \E id \in base : id[1] >= t))
    /\ back' = back + 1
    /\ UNCHANGED <<mode, calls, queue, actorVars, db, ckpt, base, accepted, gone,
                   faults, clean, late, quiet>>

\* The end of the observation.
Finished == mode = "down" /\ now = MaxTime /\ UNCHANGED vars

Actor ==
    \/ \E ok \in BOOLEAN : InsertOne(ok)
    \/ \E flushed \in BOOLEAN, forgotten \in SUBSET Expired : Timeout(flushed, forgotten)
    \/ \E flushed \in BOOLEAN : Disconnected(flushed)

Next == Record \/ Actor \/ Shutdown \/ MainReturns \/ Exit \/ Crash \/ Start
        \/ Tick \/ StepBack \/ Finished

Spec == Init /\ [][Next]_vars

\* The actor's thread runs, and a process that has nothing left to do exits.
FairSpec == Spec /\ WF_vars(Actor) /\ WF_vars(Exit)

-------------------------------------------------------------------------------
(* Properties. *)

Stored == {db[id] : id \in DOMAIN db}

Gone == UNION {gone[why] : why \in DOMAIN gone}

\* Every record that entered the queue is queued or in the store, each under
\* an id of its own, unless its insert failed, its retention ended, a record
\* with the same id took its place or the process ended before the actor
\* reached it.  The id "r{ts}_{seq}" (insert_one) is unique within a process,
\* whatever the clock does, and across restarts as long as no process has run
\* at a time not later than that of a record stored before it started.
AcceptedKept ==
    /\ accepted = Range(queue) \cup Stored \cup Gone
    /\ Cardinality(accepted) = Len(queue) + Cardinality(DOMAIN db) + Cardinality(Gone)
    /\ ~behind => gone["replaced"] = {}

\* The TTL ledger and the store agree: the ledger lists, oldest first, exactly
\* the stored records this process inserted, until a sweep fails (sweep pops
\* the entries before it executes the FORGETs).
LedgerMatchesStore ==
    Ttl > 0 /\ Running =>
        /\ \A n \in 1 .. Len(ledger) :
             /\ ledger[n] \in DOMAIN db \ base
             /\ \A m \in 1 .. n - 1 : /\ ledger[m][2] < ledger[n][2]
                                      /\ ledger[m][1] <= ledger[n][1] \/ back > 0
        /\ "sweep" \notin faults => DOMAIN db \ base \subseteq Range(ledger)

\* A record leaves the store only once it is older than the retention, and is
\* overwritten only after the clock has fallen behind the store.
NoEarlyForget ==
    [][\A id \in DOMAIN db :
         \/ id \in DOMAIN db' /\ (db'[id] = db[id] \/ behind)
         \/ now > id[1] + Ttl]_vars

\* A prompt actor (one that never kept a record or a timeout waiting) that has
\* seen no record for a whole interval keeps no record of its own beyond the
\* retention plus one interval, as long as the clock is not set back.  Those of
\* earlier processes stay for ever: the ledger starts empty.
IdleSweepsOnTime ==
    /\ ~late /\ back = 0
    /\ Ttl > 0 /\ mode = "up" /\ faults = {} /\ now > quiet + Flush
    => \A id \in DOMAIN db \ base : now <= id[1] + Ttl + Flush

\* When every process ended by shutdown(), nothing accepted was lost and the
\* main file has everything that is stored (the Disconnected branch of the
\* actor).  main does not call it: a process that ends by MainReturns may lose
\* what is queued.
ShutdownDrains ==
    mode = "down" /\ clean /\ faults = {} =>
        /\ gone["lost"] = {}
        /\ \A id \in DOMAIN db : id \in DOMAIN ckpt /\ ckpt[id] = db[id]

\* shutdown() joins the actor's thread: the join always returns, however many
\* records are queued and whatever storage operations fail.
ShutdownEnds == mode = "joining" ~> mode = "down"

Log == INSTANCE RequestLog WITH
    Capacity <- QueueCap, count <- calls, waiting <- queue, kept <- Stored, gone <- Gone,
    behind <- behind

\* The store is a request log: through failing storage, crashes, restarts and
\* a clock set back a record is kept at most once, in the order of the record()
\* calls, leaves when its retention ends or, the clock having fallen behind
\* the store, to make room for the next record, and never comes back; a
\* record() call drops its record only when the queue is full.
Implements == Log!Spec
==============================================================================
