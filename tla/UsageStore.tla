----------------------------- MODULE UsageStore -----------------------------
(***************************************************************************)
(* The usage store (internal/store/store.go): request goroutines push      *)
(* their calls into a bounded channel, one worker batches them into SQLite *)
(* transactions, Close stops the worker after it has drained the channel.  *)
(* Every call is recorded by a goroutine of its own, which tests the flag  *)
(* closed and sends in two steps.  The process may crash and be restarted  *)
(* on the same database; SQLite keeps what was committed (external).       *)
(***************************************************************************)
EXTENDS Integers, Sequences

CONSTANTS
    Calls,       \* the calls to be recorded
    Capacity,    \* of the channel ch (4096)
    Batch,       \* Store.batch
    MaxCrashes   \* bound: how often the process crashes

ASSUME StoreAssumption == Capacity \in Nat \ {0} /\ Batch \in Nat \ {0} /\ MaxCrashes \in Nat

VARIABLES
    caller,    \* where the goroutine of each call is in Record
    ch,        \* Store.ch
    buf,       \* run's buf
    worker,    \* where run is
    closing,   \* how far Close has got
    table,     \* the rows of the table calls
    crashes,   \* how often the process has crashed
    turn,      \* history: the place of a call among the accepted ones; 0: none
    accepts,   \* history: how many have been accepted
    excused    \* history: accepted calls whose transaction failed, that were
               \* in memory at a crash, or that have been pruned for their age

memory  == <<caller, ch, buf, worker, closing>>
history == <<turn, accepts, excused>>
vars    == <<memory, table, crashes, history>>

Elems(s) == {s[k] : k \in DOMAIN s}

Closed      == closing # "open"
CloseChDone == closing \in {"signalled", "closed"}

-----------------------------------------------------------------------------
(* Record *)

\* if s.closed.get() { return }
RecordCheck(c) ==
    /\ caller[c] = "new"
    /\ caller' = [caller EXCEPT ![c] = IF Closed THEN "refused" ELSE "checked"]
    /\ UNCHANGED <<ch, buf, worker, closing, table, crashes, history>>

\* Mutant: the send never takes the default branch.
RecordSendUnbounded(c) ==
    /\ caller[c] = "checked"
    /\ ch' = Append(ch, c)
    /\ caller' = [caller EXCEPT ![c] = "accepted"]
    /\ accepts' = accepts + 1
    /\ turn' = [turn EXCEPT ![c] = accepts + 1]
    /\ UNCHANGED <<buf, worker, closing, table, crashes, excused>>

\* The send, if there is room in the buffer of ch.
RecordSend(c) ==
    /\ caller[c] = "checked" /\ Len(ch) < Capacity
    /\ ch' = Append(ch, c)
    /\ caller' = [caller EXCEPT ![c] = "accepted"]
    /\ accepts' = accepts + 1
    /\ turn' = [turn EXCEPT ![c] = accepts + 1]
    /\ UNCHANGED <<buf, worker, closing, table, crashes, excused>>

\* The default branch: the buffer is full, the call is dropped.
RecordDrop(c) ==
    /\ caller[c] = "checked" /\ Len(ch) >= Capacity
    /\ caller' = [caller EXCEPT ![c] = "dropped"]
    /\ UNCHANGED <<ch, buf, worker, closing, table, crashes, history>>

-----------------------------------------------------------------------------
(* run *)

\* A receive, in the main loop or while draining; a full batch is flushed.
Receive ==
    /\ worker \in {"loop", "drain"} /\ ch # << >>
    /\ buf' = Append(buf, Head(ch))
    /\ ch' = Tail(ch)
    /\ worker' = IF Len(buf) + 1 < Batch THEN worker
                 ELSE IF worker = "loop" THEN "flush" ELSE "drainFlush"
    /\ UNCHANGED <<caller, closing, table, crashes, history>>

\* ticker.C; with an empty buffer it does nothing.
Tick ==
    /\ worker = "loop" /\ buf # << >>
    /\ worker' = "flush"
    /\ UNCHANGED <<caller, ch, buf, closing, table, crashes, history>>

\* Mutant: the worker does not drain the channel.
SeeCloseNoDrain ==
    /\ worker = "loop" /\ CloseChDone
    /\ worker' = "lastFlush"
    /\ UNCHANGED <<caller, ch, buf, closing, table, crashes, history>>

\* <-closeCh is ready: the draining loop begins.
SeeClose ==
    /\ worker = "loop" /\ CloseChDone
    /\ worker' = "drain"
    /\ UNCHANGED <<caller, ch, buf, closing, table, crashes, history>>

\* The default branch of the draining loop: the channel is empty.
Drained ==
    /\ worker = "drain" /\ ch = << >>
    /\ worker' = "lastFlush"
    /\ UNCHANGED <<caller, ch, buf, closing, table, crashes, history>>

AfterFlush == CASE worker = "flush"      -> "loop"
                [] worker = "drainFlush" -> "drain"
                [] worker = "lastFlush"  -> "exited"

\* Mutant: flush forgets to empty the buffer.
FlushKeepsBuffer(n) ==
    /\ worker \in {"flush", "drainFlush", "lastFlush"}
    /\ table' = table \o SubSeq(buf, 1, n)
    /\ excused' = excused \cup Elems(SubSeq(buf, n + 1, Len(buf)))
    /\ worker' = AfterFlush
    /\ UNCHANGED <<caller, ch, buf, closing, crashes, turn, accepts>>

\* Mutant: a failed insert skips its row and goes on.
FlushSkips(n) ==
    /\ worker \in {"flush", "drainFlush", "lastFlush"}
    /\ table' = table \o SubSeq(buf, Len(buf) - n + 1, Len(buf))
    /\ excused' = excused \cup Elems(SubSeq(buf, 1, Len(buf) - n))
    /\ buf' = << >>
    /\ worker' = AfterFlush
    /\ UNCHANGED <<caller, ch, closing, crashes, turn, accepts>>

\* flushBatch, then buf = buf[:0].  The first n rows are committed: all of
\* them, those before an insert that failed, or none if the transaction could
\* not be begun, prepared or committed.
Flush(n) ==
    /\ worker \in {"flush", "drainFlush", "lastFlush"}
    /\ table' = table \o SubSeq(buf, 1, n)
    /\ excused' = excused \cup Elems(SubSeq(buf, n + 1, Len(buf)))
    /\ buf' = << >>
    /\ worker' = AfterFlush
    /\ UNCHANGED <<caller, ch, closing, crashes, turn, accepts>>

\* pruneTicker.C: the k oldest rows are older than retentionDays.
Prune(k) ==
    /\ worker = "loop"
    /\ table' = SubSeq(table, k + 1, Len(table))
    /\ excused' = excused \cup Elems(SubSeq(table, 1, k))
    /\ UNCHANGED <<memory, crashes, turn, accepts>>

-----------------------------------------------------------------------------
(* Close, and the process as a whole *)

\* closed.set(true)
CloseSet ==
    /\ closing = "open"
    /\ closing' = "set"
    /\ UNCHANGED <<caller, ch, buf, worker, table, crashes, history>>

\* Mutant: Close waits for the worker without telling it.
CloseNoSignal ==
    /\ closing = "set" /\ worker = "exited"
    /\ closing' = "signalled"
    /\ UNCHANGED <<caller, ch, buf, worker, table, crashes, history>>

\* close(s.closeCh)
CloseSignal ==
    /\ closing = "set"
    /\ closing' = "signalled"
    /\ UNCHANGED <<caller, ch, buf, worker, table, crashes, history>>

\* wg.Wait() returns; db.Close().
CloseDone ==
    /\ closing = "signalled" /\ worker = "exited"
    /\ closing' = "closed"
    /\ UNCHANGED <<caller, ch, buf, worker, table, crashes, history>>

\* The process dies and Open is called again on the same database; requests in
\* flight die with it.
Crash ==
    /\ crashes < MaxCrashes
    /\ crashes' = crashes + 1
    /\ caller' = [c \in Calls |-> IF caller[c] = "checked" THEN "killed" ELSE caller[c]]
    /\ ch' = << >> /\ buf' = << >>
    /\ worker' = "loop" /\ closing' = "open"
    /\ excused' = excused \cup Elems(ch) \cup Elems(buf)
    /\ UNCHANGED <<table, turn, accepts>>

-----------------------------------------------------------------------------
Init ==
    /\ caller = [c \in Calls |-> "new"]
    /\ ch = << >> /\ buf = << >>
    /\ worker = "loop" /\ closing = "open"
    /\ table = << >> /\ crashes = 0
    /\ turn = [c \in Calls |-> 0] /\ accepts = 0 /\ excused = {}

Record(c) == RecordCheck(c) \/ RecordSend(c) \/ RecordDrop(c)

Run ==
    \/ Receive \/ Tick \/ SeeClose \/ Drained
    \/ \E n \in 0..Len(buf) : Flush(n)
    \/ \E k \in 1..Len(table) : Prune(k)

Close == CloseSet \/ CloseSignal \/ CloseDone

Next == (\E c \in Calls : Record(c)) \/ Run \/ Close \/ Crash

Spec == Init /\ [][Next]_vars

\* The goroutines of the process keep running: requests, the worker, and Close
\* once it has been called.  Nobody has to call Close, nothing has to crash.
FairSpec ==
    /\ Spec
    /\ \A c \in Calls : WF_vars(Record(c))
    /\ WF_vars(Run)
    /\ WF_vars(CloseSignal \/ CloseDone)

-----------------------------------------------------------------------------
(* Properties *)

\* Type correctness; the channel never exceeds its capacity, and the buffer
\* reaches the batch size only on its way into flush.
TypeOK ==
    /\ caller \in [Calls -> {"new", "checked", "accepted", "refused", "dropped", "killed"}]
    /\ ch \in Seq(Calls) /\ Len(ch) <= Capacity
    /\ buf \in Seq(Calls) /\ Len(buf) <= Batch
    /\ worker \in {"loop", "drain"} => Len(buf) < Batch
    /\ worker \in {"loop", "flush", "drain", "drainFlush", "lastFlush", "exited"}
    /\ closing \in {"open", "set", "signalled", "closed"}
    /\ table \in Seq(Calls)
    /\ crashes \in 0..MaxCrashes
    /\ turn \in [Calls -> Nat] /\ accepts \in Nat /\ excused \subseteq Calls

\* The table lists calls in the order in which the channel accepted them, none
\* twice, across batches, partial batches, drains and restarts.
OnceInOrder ==
    \A i, j \in DOMAIN table : i < j => turn[table[i]] < turn[table[j]]

\* The store keeps the promise of UsageLog, seen from outside: what waits is
\* what run has in its buffer followed by what is in the channel.
Log == INSTANCE UsageLog WITH
    taken   <- {c \in Calls : caller[c] = "accepted"},
    waiting <- buf \o ch,
    log     <- table
ImplementsLog == Log!LogSpec

\* A call that was in the channel before Close was called is recorded, unless
\* its transaction failed or the process crashed: neither a slow tick, nor a
\* batch that never fills, nor Close itself loses it.
Settles ==
    \A c \in Calls :
        c \in Elems(ch) /\ ~Closed ~> c \in Elems(table) \cup excused

\* Close returns (or the process crashes), whatever requests still record.
CloseReturns == closing = "set" ~> closing \in {"closed", "open"}

=============================================================================
