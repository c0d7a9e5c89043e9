------------------------------- MODULE Streams -------------------------------
(***************************************************************************)
(* A component-model stream: a writable and a readable end that meet       *)
(* through one shared pending buffer.  An end that finds no partner leaves *)
(* its buffer there and is told the outcome by an event.  Three settings:  *)
(*   "guest"       both ends are held by components (stream.read, ...)     *)
(*   "hostReader"  the host reads with StreamReadableEnd.read(), whose     *)
(*                 calls are chained through #result                       *)
(*   "hostWriter"  the stream was lowered from the host: every read of the *)
(*                 guest starts an injection that takes values from the    *)
(*                 host's iterator and writes them just in time            *)
(*   "hostWriterCancel"  the same, with reads the guest may cancel; their  *)
(*                 lengths are CancelCounts, the iterator yields at most   *)
(*                 one value at a time and does not throw: with others the *)
(*                 code loses or repeats elements (see README)             *)
(* Elements are the numbers 1, 2, ... in the order of the writer.          *)
(*                                                                         *)
(*   c      the stream: the shared dropped flag, the end whose buffer is   *)
(*          pending, what was copied so far (got), and for each end its    *)
(*          CopyState, the buffer of its operation (cap, done, data, the   *)
(*          reject limit of a host read), the pending event of its         *)
(*          waitable with the reclaim callback it carries, whether it is   *)
(*          still in its table, and how many elements its owner was told   *)
(*   host   the reads of the host: their state, what they wait for, the    *)
(*          newest one (#result) and #endOfStream                          *)
(*   src    PendingValueQueue: the queue, the next element of the iterator, *)
(*          whether it is being read and whether it is done, what its last *)
(*          answer brought, and whether its error is pending as the event  *)
(*          of the guest's read                                            *)
(*   inj    the injections under way, oldest first                         *)
(*   timer  cancellations of injected reads that wait for their timer      *)
(***************************************************************************)
EXTENDS Naturals, Sequences, FiniteSets

CONSTANTS
    Modes,       \* the settings that are explored
    MaxElem,     \* bound: elements the writer has
    Counts,      \* bound: the lengths of reads and writes
    Rejects,     \* bound: the reject limits of host reads, NoReject for none
    NoReject,    \* bound: a number above every length
    HostReads,   \* bound: reads the host issues
    MaxInject,   \* bound: injections under way
    Chunks,      \* bound: the lengths of what the host's iterator yields;
                 \* 0 is an empty chunk, or undefined
    CancelCounts,\* bound: the lengths of reads that may be cancelled
    MaxTimers    \* bound: cancellations waiting for their timer

ASSUME StreamsAssumption ==
    /\ Modes \subseteq {"guest", "hostReader", "hostWriter", "hostWriterCancel"}
    /\ {MaxElem, HostReads, MaxInject, NoReject, MaxTimers} \subseteq Nat
    /\ Counts \cup CancelCounts \subseteq 0 .. MaxElem /\ Rejects \subseteq 0 .. NoReject
    /\ Chunks \subseteq Nat /\ 0 \in Chunks
    /\ NoReject > MaxElem

VARIABLES mode, c, host, src, inj, timer

vars == <<mode, c, host, src, inj, timer>>

Ends == {"R", "W"}
Other(e) == IF e = "R" THEN "W" ELSE "R"
Smaller(m, n) == IF m < n THEN m ELSE n

NewEnd == [copy |-> "IDLE", cap |-> 0, done |-> 0, data |-> <<>>,
           reject |-> NoReject, ev |-> "none", reclaim |-> FALSE,
           alive |-> TRUE, told |-> 0]

Init ==
    /\ mode \in Modes
    /\ c = [dropped |-> FALSE, pend |-> "none", got |-> <<>>,
            end |-> [e \in Ends |-> NewEnd]]
    /\ host = [st |-> [i \in 1 .. HostReads |-> "new"],
               prev |-> [i \in 1 .. HostReads |-> 0], result |-> 0, eos |-> FALSE]
    /\ src = [queue |-> <<>>, next |-> 1, reading |-> FALSE, done |-> FALSE,
              last |-> "none", error |-> FALSE]
    /\ inj = <<>>
    /\ timer = 0

-----------------------------------------------------------------------------
(* The rendezvous: functions of the stream. *)

remaining(s, e) == s.end[e].cap - s.end[e].done

isCopying(e) == c.end[e].copy \in {"SYNC_COPYING", "ASYNC_COPYING", "CANCELLING_COPY"}

(* The closures of setupCopy: onCopyDoneFn(result) announces an outcome,     *)
(* onCopyFn announces progress and reclaims the pending buffer when the      *)
(* event is taken.                                                           *)
onCopyDone(s, e, result) ==
    [s EXCEPT !.end[e] = [@ EXCEPT !.ev = result, !.reclaim = FALSE]]

onCopy(s, e) == [s EXCEPT !.end[e] = [@ EXCEPT !.ev = "COMPLETED", !.reclaim = TRUE]]

(* Mutant: the owner of the pending buffer is not told. *)
resetPending(s, result) == [s EXCEPT !.pend = "none"]

resetAndNotifyPending(s, result) ==
    IF s.pend = "none" THEN s
    ELSE onCopyDone([s EXCEPT !.pend = "none"], s.pend, result)

(* The buffer of an end has taken or given n elements. *)
processed(x, n) == [x EXCEPT !.done = x.done + n]

(* Mutant: the elements copied to the reader stay in the writer's buffer. *)
moveAndKeep(s, n) ==
    LET w == s.end["W"]
    IN  [s EXCEPT !.got = @ \o SubSeq(w.data, w.done + 1, w.done + n),
                  !.end["R"].done = @ + n]

(* buffer.write(other.read(n)): n elements move and count as processed. *)
move(s, n) ==
    LET w == s.end["W"]
    IN  [s EXCEPT !.got = @ \o SubSeq(w.data, w.done + 1, w.done + n),
                  !.end["R"] = processed(@, n), !.end["W"] = processed(@, n)]

setupCopy(s, e, data, n, reject) ==
    [s EXCEPT !.end[e] = [@ EXCEPT !.cap = n, !.done = 0, !.data = data,
                                   !.reject = reject]]

(* StreamWritableEnd._write: meet the pending reader, or become pending. *)
writeTo(s) ==
    LET n == remaining(s, "W")
    IN  CASE s.pend = "none" -> [s EXCEPT !.pend = "W"]
          [] s.pend # "none" /\ s.end["W"].cap = 0 /\ s.end["R"].cap = 0 ->
                onCopyDone(s, "W", "COMPLETED")
          [] s.pend # "none" /\ ~(s.end["W"].cap = 0 /\ s.end["R"].cap = 0)
                /\ remaining(s, "R") = 0 ->
                [resetAndNotifyPending(s, "COMPLETED") EXCEPT !.pend = "W"]
          [] s.pend # "none" /\ remaining(s, "R") > 0 /\ n > s.end["R"].reject ->
                onCopyDone(onCopyDone([s EXCEPT !.pend = "none"], "R", "DROPPED"),
                           "W", "DROPPED")
          [] s.pend # "none" /\ remaining(s, "R") > 0 /\ n > 0 /\ n <= s.end["R"].reject ->
                onCopyDone(onCopy(move(s, Smaller(n, remaining(s, "R"))), "R"),
                           "W", "COMPLETED")
          [] OTHER -> onCopyDone(s, "W", "COMPLETED")

(* StreamReadableEnd._read: meet the pending writer, or become pending. *)
readFrom(s) ==
    LET n == remaining(s, "W")
    IN  CASE s.pend = "none" -> [s EXCEPT !.pend = "R"]
          [] s.pend # "none" /\ n > 0 /\ n > s.end["R"].reject ->
                onCopyDone(resetAndNotifyPending(s, "DROPPED"), "R", "DROPPED")
          [] s.pend # "none" /\ n > 0 /\ n <= s.end["R"].reject /\ remaining(s, "R") > 0 ->
                onCopyDone(onCopy(move(s, Smaller(n, remaining(s, "R"))), "W"),
                           "R", "COMPLETED")
          [] s.pend # "none" /\ n > 0 /\ n <= s.end["R"].reject /\ remaining(s, "R") = 0 ->
                onCopyDone(s, "R", "COMPLETED")
          [] OTHER -> [resetAndNotifyPending(s, "COMPLETED") EXCEPT !.pend = "R"]

(* Taking the event of an end runs processFn: reclaim, leave the copying     *)
(* state, report what was processed.                                         *)
getPendingEvent(s, e) ==
    LET x == s.end[e]
    IN  [s EXCEPT !.pend = IF x.reclaim THEN "none" ELSE @,
                  !.end[e] = [x EXCEPT !.ev = "none", !.reclaim = FALSE,
                                       !.copy = IF x.ev = "DROPPED" THEN "DONE" ELSE "IDLE",
                                       !.told = x.told + x.done,
                                       !.cap = 0, !.done = 0, !.data = <<>>]]

(* copy() up to the point where it blocks or takes its own event. *)
Copied(s, e, data, n, reject) ==
    LET t == setupCopy(s, e, data, n, reject)
    IN  IF e = "W" THEN writeTo(t) ELSE readFrom(t)

TakenOrBlocked(s, e, state) ==
    IF s.end[e].ev = "none" THEN [s EXCEPT !.end[e].copy = state]
    ELSE getPendingEvent(s, e)

(* What cancel() and drop() report for the pending buffer. *)
CutResult(s, result) ==
    IF s.pend # "none" /\ s.end[s.pend].done > 0 THEN "COMPLETED" ELSE result

-----------------------------------------------------------------------------
(* Guests. *)
Injected == mode \in {"hostWriter", "hostWriterCancel"}

HeldByGuest(e) == /\ c.end[e].alive
                  /\ (e = "R" => mode # "hostReader") /\ (e = "W" => ~Injected)

(* The elements a guest offers next: the ones it was not told are gone. *)
Offer(n) == [i \in 1 .. n |-> c.end["W"].told + i]

HasOffer(n) == c.end["W"].told + n <= MaxElem

(* copy() on a dropped stream. *)
CopyDropped(e) ==
    /\ HeldByGuest(e) /\ c.dropped
    /\ c.end[e].copy \in {"IDLE", "DONE"} /\ c.end[e].ev = "none"
    /\ c' = [c EXCEPT !.end[e].copy = "DONE"]
    /\ UNCHANGED <<mode, host, src, inj, timer>>

(* stream.write, blocking (SYNC_COPYING) or not. *)
StreamWrite(n, state) ==
    /\ HeldByGuest("W") /\ ~c.dropped /\ c.end["W"].copy = "IDLE" /\ HasOffer(n)
    /\ c' = TakenOrBlocked(Copied(c, "W", Offer(n), n, NoReject), "W", state)
    /\ UNCHANGED <<mode, host, src, inj, timer>>

(* stream.read of a stream whose writer is a component. *)
StreamRead(n, state) ==
    /\ mode = "guest"
    /\ HeldByGuest("R") /\ ~c.dropped /\ c.end["R"].copy = "IDLE"
    /\ c' = TakenOrBlocked(Copied(c, "R", <<>>, n, NoReject), "R", state)
    /\ UNCHANGED <<mode, host, src, inj, timer>>

(* The event reaches the guest: from a waitable set, or because the guest is *)
(* suspended in a synchronous operation or cancellation.                     *)
TakeEvent(e) ==
    /\ HeldByGuest(e) /\ isCopying(e) /\ c.end[e].ev # "none"
    /\ c' = getPendingEvent(c, e)
    /\ UNCHANGED <<mode, host, src, inj, timer>>

(* Mutant: cancel() reports to nobody. *)
CancelUnheard(s) == s

completeCancel(s) ==
    IF s.dropped THEN s ELSE resetAndNotifyPending(s, CutResult(s, "CANCELLED"))

(* stream.cancel-read and stream.cancel-write.  The read of a stream lowered *)
(* from the host is cancelled in a timer.                                    *)
StreamCancel(e) ==
    /\ HeldByGuest(e) /\ c.end[e].copy = "ASYNC_COPYING"
    /\ mode # "hostWriter" /\ timer < MaxTimers
    /\ LET s == [c EXCEPT !.end[e].copy = "CANCELLING_COPY"]
           later == e = "R" /\ Injected
       IN  CASE s.end[e].ev # "none" -> c' = getPendingEvent(s, e) /\ UNCHANGED timer
             [] s.end[e].ev = "none" /\ later -> c' = s /\ timer' = timer + 1
             [] OTHER -> /\ c' = TakenOrBlocked(completeCancel(s), e, "CANCELLING_COPY")
                         /\ UNCHANGED timer
    /\ UNCHANGED <<mode, host, src, inj>>

(* StreamEnd.drop: nothing if the stream was already dropped; otherwise the  *)
(* flag both ends share is set and the pending buffer's owner is told.       *)
Dropped(s) ==
    IF s.dropped THEN s
    ELSE resetAndNotifyPending([s EXCEPT !.dropped = TRUE], CutResult(s, "DROPPED"))

(* stream.drop-readable and stream.drop-writable.  That the guest takes the  *)
(* event first and drops no end it still uses is assumed of the guest: with  *)
(* an event pending the drop of the waitable throws, and a copying end is    *)
(* not refused.                                                              *)
StreamDrop(e) ==
    /\ HeldByGuest(e) /\ c.end[e].ev = "none" /\ c.end[e].copy \in {"IDLE", "DONE"}
    /\ c' = Dropped([c EXCEPT !.end[e].alive = FALSE])
    /\ UNCHANGED <<mode, host, src, inj, timer>>

-----------------------------------------------------------------------------
(* The host as the reader: StreamReadableEnd.read(). *)
Finished(h, i, result) ==
    [h EXCEPT !.st[i] = "done", !.result = 0, !.eos = @ \/ result = "DROPPED"]

(* From copy() to the end of the read, or to the point where it polls for    *)
(* its event.  A read that finds the end busy is rejected and leaves #result *)
(* as it is.                                                                 *)
HostCopy(h, i, n, reject) ==
    LET t == Copied(c, "R", <<>>, n, reject)
    IN  CASE c.dropped ->
               /\ c' = [c EXCEPT !.end["R"].copy = "DONE"]
               /\ host' = Finished(h, i, "DROPPED")
          [] ~c.dropped /\ c.end["R"].copy # "IDLE" ->
               /\ host' = [h EXCEPT !.st[i] = "failed"]
               /\ UNCHANGED c
          [] OTHER ->
               /\ c' = TakenOrBlocked(t, "R", "ASYNC_COPYING")
               /\ host' = IF t.end["R"].ev = "none" THEN [h EXCEPT !.st[i] = "copying"]
                          ELSE Finished(h, i, t.end["R"].ev)

NewestFirst(i) == host.st[i] = "new" /\ \A j \in 1 .. i - 1 : host.st[j] # "new"

(* #readOpts: a read of nothing needs a reject limit. *)
ReadOpts == {o \in Counts \X Rejects : o[1] > 0 \/ o[2] # NoReject}

HostRead(i, n, reject) ==
    /\ mode = "hostReader" /\ NewestFirst(i)
    /\ CASE host.eos -> host' = [host EXCEPT !.st[i] = "done"] /\ UNCHANGED c
         [] ~host.eos /\ host.result # 0 ->
              /\ host' = [host EXCEPT !.st[i] = "chained", !.prev[i] = host.result,
                                      !.result = i]
              /\ UNCHANGED c
         [] OTHER -> HostCopy([host EXCEPT !.result = i], i, n, reject)
    /\ UNCHANGED <<mode, src, inj, timer>>

(* The read a chained one waits for has settled, one way or the other. *)
HostReadChained(i, n, reject) ==
    /\ host.st[i] = "chained" /\ host.st[host.prev[i]] \in {"done", "failed"}
    /\ HostCopy(host, i, n, reject)
    /\ UNCHANGED <<mode, src, inj, timer>>

(* The interval that polls for the event of a blocked read. *)
HostReadEnds(i) ==
    /\ host.st[i] = "copying" /\ c.end["R"].ev # "none"
    /\ c' = getPendingEvent(c, "R")
    /\ host' = Finished(host, i, c.end["R"].ev)
    /\ UNCHANGED <<mode, src, inj, timer>>

(* The host disposes of the stream; with an event pending that throws. *)
HostDrop ==
    /\ mode = "hostReader" /\ c.end["R"].alive /\ c.end["R"].ev = "none"
    /\ c' = Dropped([c EXCEPT !.end["R"].alive = FALSE])
    /\ UNCHANGED <<mode, host, src, inj, timer>>

-----------------------------------------------------------------------------
(* The host as the writer: generatedStreamHostInject and its value queue.    *)
(* An injection is the read it serves (zero: a read of nothing), what it     *)
(* still wants, the values it holds, and whether readSource() woke it.       *)

(* drainInto: the first n values of the queue, and the others. *)
drainInto(q, n) == SubSeq(q, 1, Smaller(n, Len(q)))
Rest(q, n) == SubSeq(q, Smaller(n, Len(q)) + 1, Len(q))

(* Mutant: the event of the just-in-time write stays pending. *)
keepWriteEvent(s) == s

resetWriteEndToIdle(s) ==
    IF s.end["W"].ev # "none" THEN getPendingEvent(s, "W") ELSE s

(* writeMany of an end the host owns; a second write fails in the reader.   *)
writeMany(s, values) ==
    CASE s.dropped -> [s EXCEPT !.end["W"].copy = "DONE"]
      [] ~s.dropped /\ s.end["W"].copy # "IDLE" -> [s EXCEPT !.end["R"].ev = "ERROR"]
      [] OTHER -> resetWriteEndToIdle(
                      TakenOrBlocked(Copied(s, "W", values, Len(values), NoReject),
                                     "W", "ASYNC_COPYING"))

bail(values, q) == values \o q

(* What is left of an injection once it stops waiting: the end of the        *)
(* stream, the values put back, or the write.                                *)
Finish(s, q, values) ==
    CASE src.done /\ values = <<>> -> [c |-> Dropped(resetWriteEndToIdle(s)), q |-> q]
      [] ~(src.done /\ values = <<>>) /\ s.pend = "none" ->
            [c |-> s, q |-> bail(values, q)]
      [] OTHER -> [c |-> writeMany(s, values), q |-> q]

(* The injection of a read of nothing: it only shows that a value is there. *)
FinishZero(s, q) ==
    CASE q # <<>> -> [c |-> writeMany(s, drainInto(q, 1)), q |-> Rest(q, 1)]
      [] q = <<>> /\ src.done -> [c |-> Dropped(resetWriteEndToIdle(s)), q |-> q]
      [] OTHER -> [c |-> s, q |-> q]

NewInjection(zero, n, values) == [zero |-> zero, want |-> n, values |-> values, woken |-> FALSE]

(* readSource(): one read of the iterator at a time. *)
Awaits(i, q) ==
    /\ inj' = Append(inj, i)
    /\ src' = [src EXCEPT !.queue = q, !.reading = TRUE]

(* copy() of a read whose writer is the host: the read is registered, then   *)
(* the injection runs to its first await.                                    *)
StreamReadInjected(n, state) ==
    /\ Injected /\ Len(inj) < MaxInject
    /\ mode = "hostWriterCancel" => n \in CancelCounts
    /\ HeldByGuest("R") /\ ~c.dropped /\ c.end["R"].copy = "IDLE"
    /\ LET s == Copied(c, "R", <<>>, n, NoReject)
           q == src.queue
           values == drainInto(q, n)
           blocked == [s EXCEPT !.end["R"].copy = state]
           r == IF n = 0 THEN FinishZero(s, q) ELSE Finish(s, Rest(q, n), values)
       IN  CASE s.end["R"].ev # "none" ->
                  /\ c' = getPendingEvent(resetWriteEndToIdle(s), "R")
                  /\ UNCHANGED <<src, inj>>
             [] s.end["R"].ev = "none" /\ ~src.done
                  /\ (IF n = 0 THEN q = <<>> ELSE Len(q) < n) ->
                  /\ c' = blocked
                  /\ Awaits(NewInjection(n = 0, n - Len(values), values), Rest(q, n))
             [] OTHER ->
                  /\ c' = TakenOrBlocked(r.c, "R", state)
                  /\ src' = [src EXCEPT !.queue = r.q]
                  /\ UNCHANGED inj
    /\ UNCHANGED <<mode, host, timer>>

(* The iterator answers with a chunk, which may be empty, and may be done     *)
(* with it; every injection that waits for it is woken; they resume, first in *)
(* first out, before the next read of the iterator can settle.  External: the *)
(* iterator is the host's.                                                    *)
Woken == [i \in DOMAIN inj |-> [inj[i] EXCEPT !.woken = TRUE]]

AllResumed == \A i \in DOMAIN inj : ~inj[i].woken

MaySettle == src.reading /\ AllResumed

SourceYields(k, done) ==
    /\ MaySettle /\ src.next + k - 1 <= MaxElem
    /\ mode = "hostWriterCancel" => k <= 1
    /\ src' = [src EXCEPT !.queue = @ \o [i \in 1 .. k |-> src.next + i - 1],
                          !.next = @ + k, !.reading = FALSE, !.done = done,
                          !.last = IF k = 0 THEN "nothing" ELSE "values"]
    /\ inj' = Woken
    /\ UNCHANGED <<mode, c, host, timer>>

(* The iterator throws, or its promise is rejected. *)
SourceThrows ==
    /\ MaySettle /\ mode = "hostWriter"
    /\ src' = [src EXCEPT !.reading = FALSE, !.last = "thrown"]
    /\ inj' = Woken
    /\ UNCHANGED <<mode, c, host, timer>>

(* The read was answered or taken back while the injection waited. *)
ReadGone(s) == s.end["R"].ev # "none" \/ s.pend = "none"

(* An answer that brought nothing counts as an element of the read. *)
WantAfter(i) == IF src.last = "nothing" THEN i.want - 1 ELSE i.want

(* The oldest injection goes on after its await.  It waits again if it still  *)
(* has no value and wants one.                                                *)
InjectResumes ==
    /\ inj # <<>> /\ Head(inj).woken /\ src.last # "thrown"
    /\ LET i == Head(inj)
           values == i.values \o drainInto(src.queue, i.want)
           q == Rest(src.queue, i.want)
           r == IF i.zero THEN FinishZero(c, src.queue) ELSE Finish(c, q, values)
       IN  CASE ReadGone(c) ->
                  /\ src' = [src EXCEPT !.queue = bail(i.values, @)]
                  /\ inj' = Tail(inj)
                  /\ UNCHANGED c
             [] /\ ~ReadGone(c) /\ ~i.zero
                /\ values = <<>> /\ ~src.done /\ WantAfter(i) > 0 ->
                  /\ inj' = Append(Tail(inj),
                                   [i EXCEPT !.want = WantAfter(i), !.woken = FALSE])
                  /\ src' = [src EXCEPT !.reading = TRUE]
                  /\ UNCHANGED c
             [] OTHER ->
                  /\ c' = r.c
                  /\ src' = [src EXCEPT !.queue = r.q]
                  /\ inj' = Tail(inj)
    /\ UNCHANGED <<mode, host, timer>>

(* readSource() rejects in the injection: what the injection held is lost,    *)
(* and the error becomes the event of an asynchronous read.  A synchronous    *)
(* read hears nothing.                                                        *)
InjectFails ==
    /\ inj # <<>> /\ Head(inj).woken /\ src.last = "thrown"
    /\ src' = [src EXCEPT !.error = @ \/ c.end["R"].copy = "ASYNC_COPYING"]
    /\ inj' = Tail(inj)
    /\ UNCHANGED <<mode, c, host, timer>>

(* Taking that event throws in the guest, and leaves the end as it is. *)
TakeError ==
    /\ src.error
    /\ src' = [src EXCEPT !.error = FALSE]
    /\ UNCHANGED <<mode, c, host, inj, timer>>

(* hostCancelFn fills the pending read from the queue.  The write has taken  *)
(* its own event by then, so the values are put back and the cancellation    *)
(* goes on.                                                                  *)
hostCancelFn(s) ==
    IF s.pend # "none" /\ src.queue # <<>> /\ remaining(s, s.pend) > 0
           /\ s.end["W"].copy = "IDLE"
    THEN writeMany(s, drainInto(src.queue, remaining(s, s.pend))) ELSE s

(* The timer of cancel(): it fires once the promise jobs are done. *)
CancelTimer ==
    /\ timer > 0 /\ AllResumed
    /\ c' = IF c.dropped THEN c ELSE completeCancel(hostCancelFn(c))
    /\ timer' = timer - 1
    /\ UNCHANGED <<mode, host, src, inj>>

-----------------------------------------------------------------------------
Blocking == {"SYNC_COPYING", "ASYNC_COPYING"}

Next ==
    \/ \E e \in Ends : CopyDropped(e) \/ TakeEvent(e) \/ StreamCancel(e) \/ StreamDrop(e)
    \/ \E n \in Counts, state \in Blocking :
          StreamWrite(n, state) \/ StreamRead(n, state) \/ StreamReadInjected(n, state)
    \/ \E i \in 1 .. HostReads :
          \/ \E o \in ReadOpts : HostRead(i, o[1], o[2]) \/ HostReadChained(i, o[1], o[2])
          \/ HostReadEnds(i)
    \/ HostDrop
    \/ \E k \in Chunks, done \in BOOLEAN : SourceYields(k, done)
    \/ SourceThrows \/ InjectResumes \/ InjectFails \/ TakeError \/ CancelTimer

(* A guest that waits for an event takes it, the host's interval polls, the  *)
(* iterator answers, and promises and timers that are due run.               *)
Fairness ==
    /\ \A e \in Ends : WF_vars(TakeEvent(e))
    /\ \A i \in 1 .. HostReads :
          /\ WF_vars(HostReadEnds(i))
          /\ WF_vars(\E o \in ReadOpts : HostReadChained(i, o[1], o[2]))
    /\ WF_vars(SourceThrows \/ \E k \in Chunks, done \in BOOLEAN : SourceYields(k, done))
    /\ WF_vars(InjectResumes \/ InjectFails) /\ WF_vars(CancelTimer)

Spec == Init /\ [][Next]_vars /\ Fairness

-----------------------------------------------------------------------------
EndType ==
    [copy : {"IDLE", "SYNC_COPYING", "ASYNC_COPYING", "CANCELLING_COPY", "DONE"},
     cap : 0 .. MaxElem, done : 0 .. MaxElem, data : Seq(1 .. MaxElem),
     reject : 0 .. NoReject, ev : {"none", "COMPLETED", "DROPPED", "CANCELLED"},
     reclaim : BOOLEAN, alive : BOOLEAN, told : 0 .. MaxElem]

StreamType == [dropped : BOOLEAN, pend : Ends \cup {"none"}, got : Seq(1 .. MaxElem),
               end : [Ends -> EndType]]

(* Every variable has its type; the outcome of an operation is never the     *)
(* error of a second write (setupCopy "stream is currently undergoing a      *)
(* separate copy" in an injection), and no more is copied than fits.         *)
TypeOK ==
    /\ mode \in Modes
    /\ c \in StreamType
    /\ \A e \in Ends : c.end[e].done <= c.end[e].cap
    /\ host \in [st : [1 .. HostReads -> {"new", "chained", "copying", "done", "failed"}],
                 prev : [1 .. HostReads -> 0 .. HostReads], result : 0 .. HostReads,
                 eos : BOOLEAN]
    /\ src \in [queue : Seq(1 .. MaxElem), next : 1 .. MaxElem + 1,
                reading : BOOLEAN, done : BOOLEAN,
                last : {"none", "values", "nothing", "thrown"}, error : BOOLEAN]
    /\ \A i \in DOMAIN inj : inj[i].want \in 0 .. MaxElem
    /\ timer \in 0 .. MaxTimers

(* What the reader receives is what the writer sent, in that order, nothing  *)
(* lost or repeated, whichever end came first, was cut off by cancel() or    *)
(* drop(), or was served by _write(), _read() or an injection.               *)
InOrder == c.got = [i \in 1 .. Len(c.got) |-> i]

(* Both ends agree on how much was copied: what the packed results told an   *)
(* owner, and what its operation under way has processed, add up to what     *)
(* arrived.  A writer that was told less would send elements twice.          *)
Accounting ==
    \A e \in Ends : (e = "W" => ~Injected) =>
        c.end[e].told + c.end[e].done = Len(c.got)

(* An end that copies and has no event is the one whose buffer is pending:   *)
(* the other end will find it.  A reclaim callback belongs to the pending    *)
(* buffer, so it never takes away another operation's, and a dropped stream  *)
(* keeps nobody waiting.                                                     *)
BlockedIsPending ==
    /\ \A e \in Ends : isCopying(e) /\ c.end[e].ev = "none" => c.pend = e
    /\ \A e \in Ends : c.end[e].reclaim => c.pend = e
    /\ c.dropped => c.pend = "none"

(* Where the values of the host's iterator can be: with the reader, in the   *)
(* pending write, in the queue, or in an injection under way.                *)
Stores ==
    LET w == c.end["W"]
    IN  <<c.got, SubSeq(w.data, w.done + 1, w.cap), src.queue>>
            \o [i \in DOMAIN inj |-> inj[i].values]

PlacesOf(v) ==
    {p \in (1 .. Len(Stores)) \X (1 .. MaxElem) :
        p[2] <= Len(Stores[p[1]]) /\ Stores[p[1]][p[2]] = v}

(* Every value the host's iterator has yielded is in exactly one place: an   *)
(* injection that lost its read (bail) puts back what it held, and no value  *)
(* is written and kept.  An iterator that throws ends this.                  *)
Conservation ==
    Injected /\ ~c.dropped /\ src.last # "thrown" =>
        \A v \in 1 .. src.next - 1 : Cardinality(PlacesOf(v)) = 1

(* No injection is left, and the last answer of the iterator was an error, or *)
(* nothing although it is not done: an injection then gives up.               *)
Unserved ==
    inj = <<>> /\ (src.last = "thrown" \/ (src.last = "nothing" /\ ~src.done))

(* A cancellation ends, and so does a read of a stream of the host: some     *)
(* injection answers it, even when the one started for it gave up or an      *)
(* earlier one took the value it waited for - unless the iterator left the   *)
(* last injection without a value.                                           *)
OperationsEnd ==
    /\ \A e \in Ends : c.end[e].copy = "CANCELLING_COPY" ~> c.end[e].copy # "CANCELLING_COPY"
    /\ Injected /\ isCopying("R") ~> ~isCopying("R") \/ Unserved

(* Every read of a stream of the host is answered, whatever the iterator does.*)
(* The code does not have this: StreamsEmptyChunk.cfg.                        *)
ReadsAnswered == Injected /\ isCopying("R") ~> ~isCopying("R")

(* read() of the host: "an attempt to sequence operations to ensure          *)
(* consecutive reads only wait on their direct predecessors (i.e. read #3    *)
(* must wait on read #2, *not* read #1)": no read finds the end busy.        *)
NoReadFails == \A i \in 1 .. HostReads : host.st[i] # "failed"
=============================================================================
