---------------------------- MODULE StreamsProofs ----------------------------
(***************************************************************************)
(* Theorems about Streams in all four settings: the writer is a component  *)
(* or the host, the reader a component or the host, for any number of      *)
(* elements, any lengths of reads, writes and chunks, any reject limits,   *)
(* any number of reads of the host and of injections under way.  Reads of  *)
(* a stream of the host that may be cancelled have length 1: with others   *)
(* the code loses or repeats elements (see README).                        *)
(***************************************************************************)
EXTENDS Streams, SequenceTheorems, FiniteSetTheorems, TLAPS

(* What the assumption says of the constants. *)
LEMMA Bounds ==
    /\ MaxElem \in Nat /\ NoReject \in Nat /\ 0 \in 0 .. MaxElem
    /\ Counts \subseteq 0 .. MaxElem /\ Rejects \subseteq 0 .. NoReject
BY StreamsAssumption

Copies(s, e) == s.end[e].copy \in {"SYNC_COPYING", "ASYNC_COPYING", "CANCELLING_COPY"}

(* Both ends agree with what arrived, what arrived is 1, 2, ..., and the     *)
(* writer's buffer goes on where its owner was told the last write ended.    *)
Counted(s) ==
    /\ \A e \in Ends : /\ s.end[e].done <= s.end[e].cap
                       /\ s.end[e].told + s.end[e].done = Len(s.got)
    /\ \A i \in 1 .. Len(s.got) : s.got[i] = i
    /\ Len(s.end["W"].data) = s.end["W"].cap
    /\ \A i \in 1 .. s.end["W"].cap : s.end["W"].data[i] = s.end["W"].told + i
    /\ s.end["W"].told + s.end["W"].cap <= MaxElem

(* An end that is at rest, or whose operation waits, or has an event it was  *)
(* not told of.                                                              *)
EndSound(s, e) ==
    /\ Copies(s, e) /\ s.end[e].ev = "none" => s.pend = e
    /\ s.pend = e => Copies(s, e)
    /\ s.end[e].reclaim <=> s.pend = e /\ s.end[e].ev # "none"
    /\ s.end[e].ev # "none" => Copies(s, e) \/ (e = "R" /\ s.dropped)
    /\ ~Copies(s, e) /\ s.end[e].ev = "none" => s.end[e].cap = 0 /\ s.end[e].done = 0

Sound(s) ==
    /\ \A e \in Ends : EndSound(s, e)
    /\ s.dropped => s.pend = "none"

Good(s) == s \in StreamType /\ Counted(s) /\ Sound(s)

(* The invariant of a stream the host does not write: no injection runs. *)
StreamInv ==
    ~Injected => Good(c) /\ inj = <<>> /\ ~src.reading /\ ~src.error /\ timer = 0

-----------------------------------------------------------------------------
(* What the updates of a stream do to its ends. *)

Events == {"none", "COMPLETED", "DROPPED", "CANCELLED"}
CopyStates == {"IDLE", "SYNC_COPYING", "ASYNC_COPYING", "CANCELLING_COPY", "DONE"}

(* The two ends of a stream. *)
LEMMA TwoEnds ==
    ASSUME NEW e \in Ends
    PROVE  /\ Other(e) \in Ends /\ Other(Other(e)) = e /\ Other(e) # e
           /\ Ends = {e, Other(e)} /\ e # "none" /\ Other(e) # "none"
           /\ "R" \in Ends /\ "W" \in Ends
BY DEF Ends, Other

(* The fields of a stream have their types. *)
LEMMA StreamFields ==
    ASSUME NEW s \in StreamType
    PROVE  /\ s.dropped \in BOOLEAN /\ s.pend \in Ends \cup {"none"}
           /\ s.got \in Seq(1 .. MaxElem) /\ s.end \in [Ends -> EndType]
           /\ \A e \in Ends : s.end[e] \in EndType
BY DEF StreamType

(* The fields of an end have theirs. *)
LEMMA EndFields ==
    ASSUME NEW x \in EndType
    PROVE  /\ x.copy \in CopyStates /\ x.cap \in 0 .. MaxElem /\ x.done \in 0 .. MaxElem
           /\ x.data \in Seq(1 .. MaxElem) /\ x.reject \in 0 .. NoReject
           /\ x.ev \in Events /\ x.reclaim \in BOOLEAN /\ x.alive \in BOOLEAN
           /\ x.told \in 0 .. MaxElem
BY DEF EndType, Events, CopyStates

(* Replacing one end leaves the other and the rest. *)
LEMMA SetEnd ==
    ASSUME NEW s \in StreamType, NEW e \in Ends, NEW r \in EndType
    PROVE  LET t == [s EXCEPT !.end[e] = r]
           IN  /\ t \in StreamType /\ t.pend = s.pend /\ t.got = s.got
               /\ t.dropped = s.dropped
               /\ t.end[e] = r /\ t.end[Other(e)] = s.end[Other(e)]
BY DEF StreamType, Ends, Other

(* Replacing the pending end leaves the rest. *)
LEMMA SetPend ==
    ASSUME NEW s \in StreamType, NEW p \in Ends \cup {"none"}
    PROVE  LET t == [s EXCEPT !.pend = p]
           IN  /\ t \in StreamType /\ t.pend = p /\ t.got = s.got
               /\ t.dropped = s.dropped /\ t.end = s.end
BY DEF StreamType

(* Two streams whose buffers and whose reader's elements are the same. *)
SameBuffer(x, y) == x.cap = y.cap /\ x.done = y.done /\ x.data = y.data /\ x.told = y.told

SameCopied(s, t) ==
    s.got = t.got /\ \A e \in Ends : SameBuffer(s.end[e], t.end[e])

(* The counts depend on the buffers and on what arrived only. *)
LEMMA CountedKept ==
    ASSUME NEW s, NEW t, SameCopied(s, t), Counted(s)
    PROVE  Counted(t)
BY DEF SameCopied, SameBuffer, Counted, Ends

(* Only the state of one end changes, its buffer stays. *)
Touched(s, t, e) ==
    /\ t \in StreamType /\ t.pend = s.pend /\ t.got = s.got /\ t.dropped = s.dropped
    /\ t.end[Other(e)] = s.end[Other(e)]
    /\ SameCopied(s, t)

(* Changing an end but not its buffer touches no count. *)
LEMMA Touch ==
    ASSUME NEW s \in StreamType, NEW e \in Ends, NEW x \in EndType,
           SameBuffer(s.end[e], x)
    PROVE  LET t == [s EXCEPT !.end[e] = x]
           IN  Touched(s, t, e) /\ t.end[e] = x
<1> DEFINE t == [s EXCEPT !.end[e] = x]
<1>1. /\ t \in StreamType /\ t.pend = s.pend /\ t.got = s.got /\ t.dropped = s.dropped
      /\ t.end[e] = x /\ t.end[Other(e)] = s.end[Other(e)]
  BY SetEnd
<1> HIDE DEF t
<1>2. SameCopied(s, t)
  BY <1>1, TwoEnds DEF SameCopied, SameBuffer
<1>3. Touched(s, t, e) /\ t.end[e] = x
  BY <1>1, <1>2 DEF Touched
<1> QED BY <1>3 DEF t

(* onCopyDone: the event is set and nothing is to be reclaimed. *)
LEMMA OnCopyDone ==
    ASSUME NEW s \in StreamType, NEW e \in Ends, NEW r \in Events
    PROVE  LET t == onCopyDone(s, e, r)
           IN  /\ Touched(s, t, e) /\ t.end[e].ev = r
               /\ ~t.end[e].reclaim /\ t.end[e].copy = s.end[e].copy
               /\ t.end[e].reject = s.end[e].reject
<1> DEFINE x == [s.end[e] EXCEPT !.ev = r, !.reclaim = FALSE]
<1>1. s.end[e] \in EndType
  BY StreamFields
<1>2. /\ x \in EndType /\ x.ev = r /\ ~x.reclaim /\ x.copy = s.end[e].copy
      /\ x.reject = s.end[e].reject /\ SameBuffer(s.end[e], x)
  BY <1>1 DEF EndType, Events, SameBuffer
<1>3. onCopyDone(s, e, r) = [s EXCEPT !.end[e] = x]
  BY DEF onCopyDone
<1> HIDE DEF x
<1> QED
  BY <1>2, <1>3, Touch

(* onCopy: the event is set and the buffer stays pending. *)
LEMMA OnCopy ==
    ASSUME NEW s \in StreamType, NEW e \in Ends
    PROVE  LET t == onCopy(s, e)
           IN  /\ Touched(s, t, e) /\ t.end[e].ev = "COMPLETED"
               /\ t.end[e].reclaim /\ t.end[e].copy = s.end[e].copy
               /\ t.end[e].reject = s.end[e].reject
<1> DEFINE x == [s.end[e] EXCEPT !.ev = "COMPLETED", !.reclaim = TRUE]
<1>1. s.end[e] \in EndType
  BY StreamFields
<1>2. /\ x \in EndType /\ x.ev = "COMPLETED" /\ x.reclaim /\ x.copy = s.end[e].copy
      /\ x.reject = s.end[e].reject /\ SameBuffer(s.end[e], x)
  BY <1>1 DEF EndType, SameBuffer
<1>3. onCopy(s, e) = [s EXCEPT !.end[e] = x]
  BY DEF onCopy
<1> HIDE DEF x
<1> QED
  BY <1>2, <1>3, Touch

(* Setting the copy state of an end. *)
LEMMA SetCopy ==
    ASSUME NEW s \in StreamType, NEW e \in Ends, NEW k \in CopyStates
    PROVE  LET t == [s EXCEPT !.end[e].copy = k]
           IN  /\ Touched(s, t, e) /\ t.end[e].copy = k
               /\ t.end[e].ev = s.end[e].ev /\ t.end[e].reclaim = s.end[e].reclaim
               /\ t.end[e].reject = s.end[e].reject
<1> DEFINE x == [s.end[e] EXCEPT !.copy = k]
<1>1. s.end[e] \in EndType
  BY StreamFields
<1>2. /\ x \in EndType /\ x.ev = s.end[e].ev /\ x.reclaim = s.end[e].reclaim
      /\ x.copy = k /\ x.reject = s.end[e].reject /\ SameBuffer(s.end[e], x)
  BY <1>1 DEF EndType, CopyStates, SameBuffer
<1>3. [s EXCEPT !.end[e].copy = k] = [s EXCEPT !.end[e] = x]
  OBVIOUS
<1> HIDE DEF x
<1> QED
  BY <1>2, <1>3, Touch

(* Taking an end out of its table. *)
LEMMA SetDead ==
    ASSUME NEW s \in StreamType, NEW e \in Ends
    PROVE  LET t == [s EXCEPT !.end[e].alive = FALSE]
           IN  /\ Touched(s, t, e) /\ t.end[e].copy = s.end[e].copy
               /\ t.end[e].ev = s.end[e].ev /\ t.end[e].reclaim = s.end[e].reclaim
               /\ t.end[e].reject = s.end[e].reject
<1> DEFINE x == [s.end[e] EXCEPT !.alive = FALSE]
<1>1. s.end[e] \in EndType
  BY StreamFields
<1>2. /\ x \in EndType /\ x.ev = s.end[e].ev /\ x.reclaim = s.end[e].reclaim
      /\ x.copy = s.end[e].copy /\ x.reject = s.end[e].reject /\ SameBuffer(s.end[e], x)
  BY <1>1 DEF EndType, SameBuffer
<1>3. [s EXCEPT !.end[e].alive = FALSE] = [s EXCEPT !.end[e] = x]
  OBVIOUS
<1> HIDE DEF x
<1> QED
  BY <1>2, <1>3, Touch

-----------------------------------------------------------------------------
(* An operation of end e starts: the end is at rest, and so is the stream    *)
(* as far as the other end can tell.                                         *)
Ready(s, e) ==
    /\ s \in StreamType /\ Counted(s) /\ ~s.dropped /\ s.pend # e
    /\ s.end[e].copy = "IDLE" /\ s.end[e].ev = "none" /\ ~s.end[e].reclaim
    /\ EndSound(s, Other(e))

(* The operation has looked for its partner: it is answered, or pending. *)
Met(s, e) ==
    /\ s \in StreamType /\ Counted(s) /\ ~s.dropped
    /\ s.end[e].copy = "IDLE" /\ ~s.end[e].reclaim
    /\ s.end[e].ev = "none" <=> s.pend = e
    /\ EndSound(s, Other(e))

(* An end without an event that does not copy has no buffer. *)
LEMMA IdleHasNothing ==
    ASSUME NEW s \in StreamType, NEW e \in Ends, Counted(s), EndSound(s, e),
           ~s.dropped, s.end[e].copy = "IDLE"
    PROVE  /\ s.end[e].ev = "none" /\ s.pend # e /\ ~s.end[e].reclaim
           /\ s.end[e].cap = 0 /\ s.end[e].done = 0
           /\ s.end[e].told = Len(s.got)
<1>1. ~Copies(s, e)
  BY DEF Copies
<1>2. s.end[e].ev = "none" /\ s.pend # e /\ ~s.end[e].reclaim
  BY <1>1 DEF EndSound
<1>3. s.end[e].cap = 0 /\ s.end[e].done = 0
  BY <1>1, <1>2 DEF EndSound
<1>4. s.end[e].told \in 0 .. MaxElem
  BY StreamFields, EndFields
<1>5. s.end[e].told + s.end[e].done = Len(s.got)
  BY DEF Counted
<1> QED
  BY <1>2, <1>3, <1>4, <1>5

(* The buffer a write may be given: the elements its owner was not told are  *)
(* gone.  A read's buffer starts empty.                                      *)
GoodData(s, e, data, n) ==
    IF e = "R" THEN data = <<>>
    ELSE /\ Len(data) = n /\ s.end["W"].told + n <= MaxElem
         /\ \A i \in 1 .. n : data[i] = s.end["W"].told + i

(* setupCopy of an idle end makes it ready for a rendezvous. *)
LEMMA SetupCopy ==
    ASSUME NEW s \in StreamType, NEW e \in Ends, Counted(s), Sound(s),
           ~s.dropped, s.end[e].copy = "IDLE",
           NEW n \in 0 .. MaxElem, NEW data \in Seq(1 .. MaxElem), GoodData(s, e, data, n),
           NEW reject \in 0 .. NoReject
    PROVE  Ready(setupCopy(s, e, data, n, reject), e)
<1> DEFINE x == [s.end[e] EXCEPT !.cap = n, !.done = 0, !.data = data, !.reject = reject]
           t == [s EXCEPT !.end[e] = x]
<1>1. EndSound(s, e) /\ EndSound(s, Other(e)) /\ Other(e) # e
  BY TwoEnds DEF Sound
<1>2. /\ s.end[e].ev = "none" /\ s.pend # e /\ ~s.end[e].reclaim
      /\ s.end[e].told = Len(s.got)
  BY <1>1, IdleHasNothing
<1>3. s.end[e] \in EndType
  BY StreamFields
<1>4. /\ x \in EndType /\ x.copy = "IDLE" /\ x.ev = "none" /\ ~x.reclaim
      /\ x.cap = n /\ x.done = 0 /\ x.data = data /\ x.told = s.end[e].told
  BY <1>2, <1>3, Bounds DEF EndType
<1>5. setupCopy(s, e, data, n, reject) = t
  BY DEF setupCopy
<1> HIDE DEF x
<1>6. /\ t \in StreamType /\ t.pend = s.pend /\ t.got = s.got /\ t.dropped = s.dropped
      /\ t.end[e] = x /\ t.end[Other(e)] = s.end[Other(e)]
  BY <1>4, SetEnd
<1> HIDE DEF t
<1>7. EndSound(t, Other(e))
  BY <1>1, <1>6 DEF EndSound, Copies
<1>8. Counted(t)
  <2>1. Len(s.got) \in Nat
    BY StreamFields
  <2>2. \A d \in Ends : t.end[d].done <= t.end[d].cap /\ t.end[d].told + t.end[d].done = Len(t.got)
    <3>1. 0 <= n /\ Len(s.got) + 0 = Len(s.got)
      BY <2>1
    <3>2. t.end[e].done <= t.end[e].cap /\ t.end[e].told + t.end[e].done = Len(t.got)
      BY <3>1, <1>2, <1>4, <1>6
    <3> QED BY <3>2, <1>6, TwoEnds DEF Counted
  <2>3. CASE e = "R"
    <3>1. t.end["W"] = s.end["W"]
      BY <2>3, <1>6 DEF Other
    <3> QED BY <2>2, <3>1, <1>6 DEF Counted
  <2>4. CASE e = "W"
    BY <2>2, <2>4, <1>4, <1>6 DEF Counted, GoodData
  <2> QED BY <2>3, <2>4 DEF Ends
<1> QED
  BY <1>2, <1>4, <1>5, <1>6, <1>7, <1>8 DEF Ready

(* What was told and done is within the elements. *)
LEMMA FitsIn ==
    ASSUME NEW told \in Nat, NEW done \in Nat, NEW cap \in Nat, NEW m \in Nat,
           done <= cap, told + cap <= m
    PROVE  told + done \in 0 .. m
OBVIOUS

(* Taking an event, field by field. *)
LEMMA TakenFields ==
    ASSUME NEW s \in StreamType, NEW e \in Ends, Counted(s)
    PROVE  LET t == getPendingEvent(s, e)
           IN  /\ t \in StreamType /\ Counted(t) /\ t.got = s.got /\ t.dropped = s.dropped
               /\ t.pend = (IF s.end[e].reclaim THEN "none" ELSE s.pend)
               /\ t.end[Other(e)] = s.end[Other(e)]
               /\ t.end[e].copy = (IF s.end[e].ev = "DROPPED" THEN "DONE" ELSE "IDLE")
               /\ t.end[e].ev = "none" /\ ~t.end[e].reclaim
               /\ t.end[e].told = s.end[e].told + s.end[e].done
               /\ t.end[e].cap = 0 /\ t.end[e].done = 0
               /\ t.end[e].reject = s.end[e].reject
<1> DEFINE k == IF s.end[e].ev = "DROPPED" THEN "DONE" ELSE "IDLE"
           x == [s.end[e] EXCEPT !.ev = "none", !.reclaim = FALSE, !.copy = k,
                                 !.told = s.end[e].told + s.end[e].done,
                                 !.cap = 0, !.done = 0, !.data = <<>>]
           p == IF s.end[e].reclaim THEN "none" ELSE s.pend
           u == [s EXCEPT !.pend = p]
           t == [u EXCEPT !.end[e] = x]
<1>0. Other(e) # e /\ Ends = {e, Other(e)} /\ e # "none" /\ Other(e) # "none"
  BY TwoEnds
<1>1. s.end[e] \in EndType
  BY StreamFields
<1>2. /\ s.end[e].told \in 0 .. MaxElem /\ s.end[e].done \in 0 .. MaxElem
      /\ s.end["W"].told \in 0 .. MaxElem /\ s.end["W"].done \in 0 .. MaxElem
      /\ s.end["W"].cap \in 0 .. MaxElem /\ Len(s.got) \in Nat
  <2>1. s.end[e] \in EndType /\ s.end["W"] \in EndType /\ s.got \in Seq(1 .. MaxElem)
    BY StreamFields, TwoEnds
  <2>2. Len(s.got) \in Nat
    BY <2>1
  <2> QED BY <2>1, <2>2, EndFields
<1>3. /\ s.end[e].told + s.end[e].done = Len(s.got)
      /\ s.end["W"].told + s.end["W"].done = Len(s.got)
      /\ s.end["W"].done <= s.end["W"].cap /\ s.end["W"].told + s.end["W"].cap <= MaxElem
  BY TwoEnds DEF Counted
<1>4. Len(s.got) \in 0 .. MaxElem
  <2>1. s.end["W"].told \in Nat /\ s.end["W"].done \in Nat /\ s.end["W"].cap \in Nat
    BY <1>2
  <2> QED BY <2>1, <1>3, Bounds, FitsIn
<1>5. k \in {"DONE", "IDLE"}
  OBVIOUS
<1>6. /\ x \in EndType /\ x.ev = "none" /\ ~x.reclaim /\ x.copy = k
      /\ x.told = Len(s.got) /\ x.cap = 0 /\ x.done = 0 /\ x.data = <<>>
      /\ x.reject = s.end[e].reject
  <2> HIDE DEF k
  <2>1. <<>> \in Seq(1 .. MaxElem)
    OBVIOUS
  <2> QED BY <2>1, <1>1, <1>3, <1>4, <1>5, Bounds DEF EndType
<1>7. p \in Ends \cup {"none"}
  BY <1>0, StreamFields
<1>8. getPendingEvent(s, e) = t
  BY DEF getPendingEvent
<1> HIDE DEF x, p
<1>9. u \in StreamType /\ u.pend = p /\ u.got = s.got /\ u.dropped = s.dropped /\ u.end = s.end
  BY <1>7, SetPend
<1> HIDE DEF u
<1>10. /\ t \in StreamType /\ t.pend = p /\ t.got = s.got /\ t.dropped = s.dropped
       /\ t.end[e] = x /\ t.end[Other(e)] = s.end[Other(e)]
  BY <1>6, <1>9, SetEnd
<1> HIDE DEF t
<1>11. Counted(t)
  <2>1. \A d \in Ends : t.end[d].done <= t.end[d].cap /\ t.end[d].told + t.end[d].done = Len(t.got)
    BY <1>0, <1>2, <1>6, <1>10 DEF Counted
  <2>2. CASE e = "R"
    <3>1. t.end["W"] = s.end["W"]
      BY <2>2, <1>10 DEF Other
    <3> QED BY <2>1, <3>1, <1>10 DEF Counted
  <2>3. CASE e = "W"
    <3>1. /\ t.end["W"].cap = 0 /\ t.end["W"].data = <<>> /\ Len(<<>>) = 0 /\ 1 .. 0 = {}
          /\ t.end["W"].told + 0 <= MaxElem
      BY <2>3, <1>4, <1>6, <1>10
    <3> QED BY <2>1, <3>1, <1>10 DEF Counted
  <2> QED BY <2>2, <2>3 DEF Ends
<1> QED
  BY <1>3, <1>6, <1>8, <1>10, <1>11 DEF k, p

(* Taking the event of an end leaves it at rest. *)
LEMMA EventTaken ==
    ASSUME NEW s \in StreamType, NEW e \in Ends, Counted(s), EndSound(s, Other(e)),
           s.end[e].ev # "none", s.end[e].reclaim <=> s.pend = e,
           s.dropped => s.pend = "none"
    PROVE  LET t == getPendingEvent(s, e)
           IN  t \in StreamType /\ Counted(t) /\ Sound(t)
<1> DEFINE t == getPendingEvent(s, e)
           p == IF s.end[e].reclaim THEN "none" ELSE s.pend
<1>0. Other(e) # e /\ Ends = {e, Other(e)} /\ e # "none" /\ Other(e) # "none"
  BY TwoEnds
<1>1. /\ t \in StreamType /\ Counted(t) /\ t.dropped = s.dropped /\ t.pend = p
      /\ t.end[Other(e)] = s.end[Other(e)]
      /\ t.end[e].copy \in {"DONE", "IDLE"}
      /\ t.end[e].ev = "none" /\ ~t.end[e].reclaim
      /\ t.end[e].cap = 0 /\ t.end[e].done = 0
  BY TakenFields
<1>2. p # e /\ (p = Other(e) <=> s.pend = Other(e)) /\ (s.dropped => p = "none")
  BY <1>0, StreamFields
<1> HIDE DEF t, p
<1>3. EndSound(t, Other(e))
  BY <1>1, <1>2 DEF EndSound, Copies
<1>4. EndSound(t, e)
  BY <1>1, <1>2 DEF EndSound, Copies
<1>5. t \in StreamType /\ Counted(t) /\ Sound(t)
  BY <1>0, <1>1, <1>2, <1>3, <1>4 DEF Sound
<1> QED BY <1>5 DEF t

-----------------------------------------------------------------------------
(* The branches of _write and _read. *)

(* Nothing is pending: the operation becomes pending. *)
LEMMA BecomesPending ==
    ASSUME NEW s, NEW e \in Ends, Ready(s, e), s.pend = "none"
    PROVE  Met([s EXCEPT !.pend = e], e)
<1> DEFINE t == [s EXCEPT !.pend = e]
<1>1. t \in StreamType /\ t.pend = e /\ t.got = s.got /\ t.dropped = s.dropped /\ t.end = s.end
  BY SetPend DEF Ready
<1> HIDE DEF t
<1>2. Counted(t)
  BY <1>1, CountedKept DEF Ready, SameCopied, SameBuffer
<1>3. EndSound(t, Other(e))
  BY <1>1, TwoEnds DEF Ready, EndSound, Copies
<1>4. Met(t, e)
  BY <1>1, <1>2, <1>3 DEF Ready, Met
<1> QED BY <1>4 DEF t

(* The operation completes at once, without the other end. *)
LEMMA AnswersItself ==
    ASSUME NEW s, NEW e \in Ends, Ready(s, e)
    PROVE  Met(onCopyDone(s, e, "COMPLETED"), e)
<1> DEFINE t == onCopyDone(s, e, "COMPLETED")
<1>1. /\ Touched(s, t, e) /\ t.end[e].ev = "COMPLETED"
      /\ ~t.end[e].reclaim /\ t.end[e].copy = s.end[e].copy
  BY OnCopyDone DEF Ready, Events
<1> HIDE DEF t
<1>2. Counted(t)
  BY <1>1, CountedKept DEF Ready, Touched
<1>3. EndSound(t, Other(e))
  BY <1>1 DEF Ready, EndSound, Copies, Touched
<1>4. Met(t, e)
  BY <1>1, <1>2, <1>3 DEF Ready, Met, Touched
<1> QED BY <1>4 DEF t

(* The owner of the pending buffer is told, and nobody is pending. *)
LEMMA PendingNotified ==
    ASSUME NEW s \in StreamType, NEW r \in Events \ {"none"}, s.pend # "none", EndSound(s, s.pend)
    PROVE  LET t == resetAndNotifyPending(s, r)
           IN  /\ t \in StreamType /\ t.pend = "none" /\ t.got = s.got
               /\ t.dropped = s.dropped
               /\ t.end[Other(s.pend)] = s.end[Other(s.pend)]
               /\ t.end[s.pend].ev = r /\ t.end[s.pend].copy = s.end[s.pend].copy
               /\ ~t.end[s.pend].reclaim /\ t.end[s.pend].reject = s.end[s.pend].reject
               /\ SameCopied(s, t) /\ EndSound(t, s.pend)
<1> DEFINE o == s.pend
           u == [s EXCEPT !.pend = "none"]
           t == onCopyDone(u, o, r)
<1>0. o \in Ends
  BY StreamFields
<1>1. resetAndNotifyPending(s, r) = t
  BY DEF resetAndNotifyPending
<1>2. u \in StreamType /\ u.pend = "none" /\ u.got = s.got /\ u.dropped = s.dropped /\ u.end = s.end
  BY SetPend
<1> HIDE DEF u
<1>3. /\ Touched(u, t, o) /\ t.end[o].ev = r
      /\ ~t.end[o].reclaim /\ t.end[o].copy = u.end[o].copy
      /\ t.end[o].reject = u.end[o].reject
  <2> HIDE DEF o
  <2> QED BY <1>0, <1>2, OnCopyDone
<1> HIDE DEF t
<1>4. Copies(s, o) /\ o # "none"
  BY <1>0, TwoEnds DEF EndSound
<1>5. EndSound(t, o)
  BY <1>2, <1>3, <1>4 DEF EndSound, Copies, Touched
<1>6. SameCopied(s, t)
  BY <1>2, <1>3 DEF SameCopied, Touched
<1> QED
  BY <1>1, <1>2, <1>3, <1>5, <1>6 DEF Touched

(* What a ready end finds pending is the other end. *)
LEMMA PendingIsOther ==
    ASSUME NEW s, NEW e \in Ends, Ready(s, e), s.pend # "none"
    PROVE  s.pend = Other(e) /\ EndSound(s, s.pend) /\ s \in StreamType
BY StreamFields, TwoEnds DEF Ready

(* The pending operation ends, and this one becomes pending. *)
LEMMA TakesItsPlace ==
    ASSUME NEW s, NEW e \in Ends, Ready(s, e), s.pend # "none"
    PROVE  Met([resetAndNotifyPending(s, "COMPLETED") EXCEPT !.pend = e], e)
<1> DEFINE u == resetAndNotifyPending(s, "COMPLETED")
           t == [u EXCEPT !.pend = e]
<1>0. s.pend = Other(e) /\ Other(Other(e)) = e /\ Other(e) # e
  BY PendingIsOther, TwoEnds
<1>1. /\ u \in StreamType /\ u.pend = "none" /\ u.got = s.got
      /\ u.dropped = s.dropped /\ u.end[e] = s.end[e]
      /\ u.end[Other(e)].ev = "COMPLETED" /\ SameCopied(s, u) /\ EndSound(u, Other(e))
  BY <1>0, PendingIsOther, PendingNotified DEF Events
<1> HIDE DEF u
<1>2. t \in StreamType /\ t.pend = e /\ t.got = u.got /\ t.dropped = u.dropped /\ t.end = u.end
  BY <1>1, SetPend
<1> HIDE DEF t
<1>3. Counted(t)
  BY <1>1, <1>2, CountedKept DEF Ready, SameCopied
<1>4. EndSound(t, Other(e))
  BY <1>0, <1>1, <1>2, TwoEnds DEF EndSound, Copies
<1>5. Met(t, e)
  BY <1>1, <1>2, <1>3, <1>4 DEF Ready, Met
<1> QED BY <1>5 DEF t, u

(* A consumer that rejects ends both operations as dropped. *)
LEMMA BothRefused ==
    ASSUME NEW s, NEW e \in Ends, Ready(s, e), s.pend # "none"
    PROVE  Met(onCopyDone(resetAndNotifyPending(s, "DROPPED"), e, "DROPPED"), e)
<1> DEFINE u == resetAndNotifyPending(s, "DROPPED")
           t == onCopyDone(u, e, "DROPPED")
<1>0. s.pend = Other(e) /\ Other(Other(e)) = e /\ Other(e) # e
  BY PendingIsOther, TwoEnds
<1>1. /\ u \in StreamType /\ u.pend = "none" /\ u.got = s.got
      /\ u.dropped = s.dropped /\ u.end[e] = s.end[e]
      /\ u.end[Other(e)].ev = "DROPPED" /\ SameCopied(s, u) /\ EndSound(u, Other(e))
  BY <1>0, PendingIsOther, PendingNotified DEF Events
<1> HIDE DEF u
<1>2. /\ Touched(u, t, e) /\ t.end[e].ev = "DROPPED"
      /\ ~t.end[e].reclaim /\ t.end[e].copy = u.end[e].copy
  BY <1>1, OnCopyDone DEF Events
<1> HIDE DEF t
<1>3. Counted(u)
  BY <1>1, CountedKept DEF Ready
<1>4. Counted(t)
  BY <1>2, <1>3, CountedKept DEF Touched
<1>5. EndSound(t, Other(e))
  BY <1>1, <1>2 DEF EndSound, Copies, Touched
<1>6. Met(t, e)
  BY <1>0, <1>1, <1>2, <1>4, <1>5, TwoEnds DEF Ready, Met, Touched
<1> QED BY <1>6 DEF t, u

(* The elements that arrive after 1, ..., Len(got) are the next ones of the  *)
(* writer's buffer.                                                          *)
LEMMA NextElement ==
    ASSUME NEW told \in Nat, NEW done \in Nat, NEW g \in Nat, NEW i \in Nat, told + done = g
    PROVE  told + (done + (i - g)) = i /\ (i <= g \/ i > g)
OBVIOUS

CountsFrom(seq, k) == \A i \in 1 .. Len(seq) : seq[i] = k + i

CountsUp(seq) == \A i \in 1 .. Len(seq) : seq[i] = i

(* Elements appended from the writer's buffer go on counting. *)
LEMMA Arrives ==
    ASSUME NEW S, NEW got \in Seq(S), NEW data \in Seq(S),
           NEW told \in Nat, NEW done \in Nat, NEW n \in Nat,
           done + n <= Len(data), told + done = Len(got),
           CountsUp(got), CountsFrom(data, told)
    PROVE  LET more == SubSeq(data, done + 1, done + n)
           IN  /\ got \o more \in Seq(S)
               /\ Len(got \o more) = Len(got) + n
               /\ CountsUp(got \o more)
<1> DEFINE more == SubSeq(data, done + 1, done + n)
<1>1. Len(data) \in Nat /\ Len(got) \in Nat
  OBVIOUS
<1>2. \A i \in (done + 1) .. (done + n) : i \in 1 .. Len(data)
  BY <1>1
<1>3. /\ more \in Seq(S) /\ Len(more) = n
      /\ \A i \in 1 .. n : more[i] = data[done + i]
  <2>1. \A i \in (done + 1) .. (done + n) : data[i] \in S
    <3>1. \A i \in 1 .. Len(data) : data[i] \in S
      OBVIOUS
    <3> QED BY <3>1, <1>2
  <2>2. /\ more \in Seq(S)
        /\ Len(more) = IF done + 1 <= done + n THEN (done + n) - (done + 1) + 1 ELSE 0
        /\ \A i \in 1 .. (done + n) - (done + 1) + 1 : more[i] = data[done + 1 + i - 1]
    BY <1>1, <1>2, <2>1, SubSeqProperties
  <2> HIDE DEF more
  <2>3. Len(more) = n
    <3>1. (done + 1 <= done + n <=> n >= 1) /\ (done + n) - (done + 1) + 1 = n
      OBVIOUS
    <3> QED BY <2>2, <3>1
  <2>4. ASSUME NEW i \in 1 .. n PROVE more[i] = data[done + i]
    <3>1. i \in 1 .. (done + n) - (done + 1) + 1 /\ done + 1 + i - 1 = done + i
      OBVIOUS
    <3>2. more[i] = data[done + 1 + i - 1]
      BY <2>2, <3>1
    <3> QED BY <3>1, <3>2
  <2> QED BY <2>2, <2>3, <2>4
<1> HIDE DEF more
<1>4. got \o more \in Seq(S) /\ Len(got \o more) = Len(got) + n
  BY <1>3, ConcatProperties
<1>5. ASSUME NEW i \in 1 .. Len(got) + n
      PROVE  (got \o more)[i] = i
  <2>0. i \in Nat
    BY <1>1
  <2>1. CASE i <= Len(got)
    BY <2>1, <1>1, <1>3 DEF CountsUp
  <2>2. CASE i > Len(got)
    <3>1. i - Len(got) \in 1 .. n
      BY <2>2, <1>1
    <3>2. (got \o more)[i] = more[i - Len(got)]
      BY <2>2, <1>1, <1>3
    <3>3. more[i - Len(got)] = data[done + (i - Len(got))]
      BY <3>1, <1>3
    <3>4. done + (i - Len(got)) \in 1 .. Len(data)
      BY <3>1, <1>1
    <3>5. data[done + (i - Len(got))] = told + (done + (i - Len(got)))
      BY <3>4 DEF CountsFrom
    <3>6. told + (done + (i - Len(got))) = i
      BY <2>0, <1>1, NextElement
    <3> QED BY <3>2, <3>3, <3>5, <3>6
  <2> QED BY <2>0, <2>1, <2>2, <1>1, NextElement
<1> QED
  BY <1>4, <1>5 DEF more, CountsUp

(* An element more than was done still fits. *)
LEMMA Room ==
    ASSUME NEW cap \in Nat, NEW done \in Nat, NEW n \in Nat, NEW m \in Nat,
           n <= cap - done, cap <= m
    PROVE  done + n \in 0 .. cap /\ done + n \in 0 .. m
OBVIOUS

(* The count of an end and of the stream grow alike. *)
LEMMA AddsUp ==
    ASSUME NEW told \in Nat, NEW done \in Nat, NEW n \in Nat, NEW g \in Nat, told + done = g
    PROVE  told + (done + n) = g + n
OBVIOUS

(* n elements move: both ends count them, and they arrive in order. *)
LEMMA Move ==
    ASSUME NEW s \in StreamType, Counted(s), NEW n \in Nat,
           n <= remaining(s, "W"), n <= remaining(s, "R")
    PROVE  LET t == move(s, n)
           IN  /\ t \in StreamType /\ Counted(t) /\ t.pend = s.pend
               /\ t.dropped = s.dropped
               /\ \A e \in Ends : /\ t.end[e].copy = s.end[e].copy
                                  /\ t.end[e].ev = s.end[e].ev
                                  /\ t.end[e].reclaim = s.end[e].reclaim
                                  /\ t.end[e].reject = s.end[e].reject
                                  /\ t.end[e].cap = s.end[e].cap
                                  /\ t.end[e].told = s.end[e].told
                                  /\ t.end[e].done = s.end[e].done + n
<1> DEFINE w == s.end["W"]
           r == s.end["R"]
           w1 == [w EXCEPT !.done = w.done + n]
           r1 == [r EXCEPT !.done = r.done + n]
           g == s.got \o SubSeq(w.data, w.done + 1, w.done + n)
           t == [s EXCEPT !.got = g, !.end["R"] = r1, !.end["W"] = w1]
<1>1. w \in EndType /\ r \in EndType
  BY StreamFields DEF Ends
<1>2. /\ w.cap \in 0 .. MaxElem /\ w.done \in 0 .. MaxElem /\ w.told \in 0 .. MaxElem
      /\ r.cap \in 0 .. MaxElem /\ r.done \in 0 .. MaxElem /\ r.told \in 0 .. MaxElem
      /\ w.data \in Seq(1 .. MaxElem) /\ s.got \in Seq(1 .. MaxElem)
  BY <1>1, EndFields, StreamFields
<1>3. /\ w.told + w.done = Len(s.got) /\ r.told + r.done = Len(s.got)
      /\ Len(w.data) = w.cap /\ w.told + w.cap <= MaxElem
      /\ \A i \in 1 .. w.cap : w.data[i] = w.told + i
      /\ \A i \in 1 .. Len(s.got) : s.got[i] = i
  BY DEF Counted, Ends
<1>0. /\ w.cap \in Nat /\ w.done \in Nat /\ w.told \in Nat
      /\ r.cap \in Nat /\ r.done \in Nat /\ r.told \in Nat
      /\ w.cap <= MaxElem /\ r.cap <= MaxElem /\ Len(s.got) \in Nat
  <2> HIDE DEF w, r
  <2>1. \A i \in 0 .. MaxElem : i \in Nat /\ i <= MaxElem
    BY Bounds
  <2>2. Len(s.got) \in Nat
    BY <1>2
  <2> QED BY <2>1, <2>2, <1>2
<1>4. /\ w.done + n \in 0 .. w.cap /\ w.done + n \in 0 .. MaxElem
      /\ r.done + n \in 0 .. r.cap /\ r.done + n \in 0 .. MaxElem
  <2>1. n <= w.cap - w.done /\ n <= r.cap - r.done
    BY DEF remaining
  <2> HIDE DEF w, r
  <2> QED BY <2>1, <1>0, Bounds, Room
<1>5. /\ g \in Seq(1 .. MaxElem) /\ Len(g) = Len(s.got) + n
      /\ \A i \in 1 .. Len(g) : g[i] = i
  <2> HIDE DEF w
  <2>1. w.done + n <= Len(w.data)
    BY <1>3, <1>4
  <2>2. CountsFrom(w.data, w.told) /\ CountsUp(s.got)
    BY <1>3 DEF CountsFrom, CountsUp
  <2>3. /\ s.got \in Seq(1 .. MaxElem) /\ w.data \in Seq(1 .. MaxElem)
        /\ w.told \in Nat /\ w.done \in Nat /\ w.told + w.done = Len(s.got)
    BY <1>0, <1>2, <1>3
  <2>4. /\ s.got \o SubSeq(w.data, w.done + 1, w.done + n) \in Seq(1 .. MaxElem)
        /\ Len(s.got \o SubSeq(w.data, w.done + 1, w.done + n)) = Len(s.got) + n
        /\ CountsUp(s.got \o SubSeq(w.data, w.done + 1, w.done + n))
    BY <2>1, <2>2, <2>3, Arrives, Zenon
  <2> QED BY <2>4 DEF g, CountsUp
<1> HIDE DEF g
<1>6. /\ w1 \in EndType /\ w1.done = w.done + n /\ w1.cap = w.cap /\ w1.data = w.data
      /\ w1.told = w.told /\ w1.copy = w.copy /\ w1.ev = w.ev /\ w1.reclaim = w.reclaim
      /\ w1.reject = w.reject
  <2> HIDE DEF w
  <2> QED BY <1>1, <1>4 DEF EndType
<1>7. /\ r1 \in EndType /\ r1.done = r.done + n /\ r1.cap = r.cap /\ r1.told = r.told
      /\ r1.copy = r.copy /\ r1.ev = r.ev /\ r1.reclaim = r.reclaim
      /\ r1.reject = r.reject
  <2> HIDE DEF r
  <2> QED BY <1>1, <1>4 DEF EndType
<1>8. move(s, n) = t
  BY DEF move, processed, g
<1> HIDE DEF w1, r1
<1>9. /\ t \in StreamType /\ t.got = g /\ t.pend = s.pend /\ t.dropped = s.dropped
      /\ t.end["R"] = r1 /\ t.end["W"] = w1
  BY <1>5, <1>6, <1>7 DEF StreamType, Ends
<1> HIDE DEF t
<1>10. Counted(t)
  <2>1. /\ w1.told + w1.done = Len(g) /\ w1.done <= w1.cap
        /\ r1.told + r1.done = Len(g) /\ r1.done <= r1.cap
    <3> HIDE DEF w, r
    <3>1. w.told + (w.done + n) = Len(s.got) + n /\ r.told + (r.done + n) = Len(s.got) + n
      <4>1. w.told + w.done = Len(s.got) /\ r.told + r.done = Len(s.got)
        BY <1>3
      <4>2. ASSUME NEW x \in Nat, NEW y \in Nat, x + y = Len(s.got)
            PROVE  x + (y + n) = Len(s.got) + n
        <5>1. Len(s.got) \in Nat /\ n \in Nat
          BY <1>0
        <5> QED BY <4>2, <5>1, AddsUp
      <4>3. w.told + (w.done + n) = Len(s.got) + n
        BY <4>1, <4>2, <1>0
      <4>4. r.told + (r.done + n) = Len(s.got) + n
        BY <4>1, <4>2, <1>0
      <4> QED BY <4>3, <4>4
    <3>2. w.done + n <= w.cap /\ r.done + n <= r.cap
      BY <1>4
    <3>3. Len(g) = Len(s.got) + n
      BY <1>5
    <3>4. w1.told = w.told /\ w1.done = w.done + n /\ w1.cap = w.cap
      BY <1>6
    <3>5. r1.told = r.told /\ r1.done = r.done + n /\ r1.cap = r.cap
      BY <1>7
    <3> QED BY <3>1, <3>2, <3>3, <3>4, <3>5
  <2>2. /\ \A e \in Ends : /\ t.end[e].done <= t.end[e].cap
                           /\ t.end[e].told + t.end[e].done = Len(t.got)
    BY <2>1, <1>9 DEF Ends
  <2>3. /\ \A i \in 1 .. Len(t.got) : t.got[i] = i
    BY <1>5, <1>9
  <2>4. /\ Len(t.end["W"].data) = t.end["W"].cap
        /\ \A i \in 1 .. t.end["W"].cap : t.end["W"].data[i] = t.end["W"].told + i
        /\ t.end["W"].told + t.end["W"].cap <= MaxElem
    <3> HIDE DEF w
    <3> QED BY <1>3, <1>6, <1>9
  <2> QED BY <2>2, <2>3, <2>4 DEF Counted
<1> QED
  BY <1>6, <1>7, <1>8, <1>9, <1>10 DEF Ends

(* Elements are copied: both ends have their event and agree. *)
LEMMA ElementsCopied ==
    ASSUME NEW s, NEW e \in Ends, Ready(s, e), s.pend # "none",
           NEW n \in Nat, n <= remaining(s, "W"), n <= remaining(s, "R")
    PROVE  Met(onCopyDone(onCopy(move(s, n), Other(e)), e, "COMPLETED"), e)
<1> DEFINE o == Other(e)
           m == move(s, n)
           u == onCopy(m, o)
           t == onCopyDone(u, e, "COMPLETED")
<1>0. s.pend = o /\ EndSound(s, o) /\ s \in StreamType /\ Other(o) = e /\ o # e
      /\ o \in Ends /\ o # "none"
  BY PendingIsOther, TwoEnds
<1>1. /\ m \in StreamType /\ Counted(m) /\ m.pend = o /\ m.dropped = s.dropped
      /\ m.end[e].copy = "IDLE"
      /\ m.end[o].copy = s.end[o].copy
  BY <1>0, Move DEF Ready
<1> HIDE DEF m
<1>2. /\ Touched(m, u, o) /\ u.end[o].ev = "COMPLETED"
      /\ u.end[o].reclaim /\ u.end[o].copy = m.end[o].copy
  <2> HIDE DEF o
  <2> QED BY <1>0, <1>1, OnCopy
<1> HIDE DEF u
<1>3. u \in StreamType /\ u.end[e] = m.end[e] /\ Counted(u) /\ u.pend = o /\ u.dropped = s.dropped
  BY <1>0, <1>1, <1>2, CountedKept DEF Touched
<1>4. /\ Touched(u, t, e) /\ t.end[e].ev = "COMPLETED"
      /\ ~t.end[e].reclaim /\ t.end[e].copy = u.end[e].copy
  BY <1>3, OnCopyDone DEF Events
<1> HIDE DEF t
<1>5. t \in StreamType /\ Counted(t) /\ t.pend = o /\ t.dropped = s.dropped /\ t.end[o] = u.end[o]
  BY <1>3, <1>4, CountedKept DEF Touched
<1>6. Copies(s, o)
  BY <1>0 DEF EndSound
<1>7. EndSound(t, o)
  BY <1>1, <1>2, <1>5, <1>6 DEF EndSound, Copies
<1>8. Met(t, e)
  BY <1>0, <1>1, <1>3, <1>4, <1>5, <1>7 DEF Ready, Met
<1> QED BY <1>8 DEF t, u, m, o

-----------------------------------------------------------------------------
(* _write and _read, and the operations built from them. *)

(* The smaller of two lengths fits both. *)
LEMMA SmallerFits ==
    ASSUME NEW m \in Nat, NEW n \in Nat
    PROVE  Smaller(m, n) \in Nat /\ Smaller(m, n) <= m /\ Smaller(m, n) <= n
BY DEF Smaller

(* A buffer never holds more than its capacity. *)
LEMMA RoomLeft ==
    ASSUME NEW cap \in 0 .. MaxElem, NEW done \in 0 .. MaxElem, done <= cap
    PROVE  cap - done \in Nat
BY Bounds

(* remaining() is a natural number. *)
LEMMA RemainingIsNat ==
    ASSUME NEW s \in StreamType, Counted(s), NEW e \in Ends
    PROVE  remaining(s, e) \in Nat
<1>1. s.end[e].cap \in 0 .. MaxElem /\ s.end[e].done \in 0 .. MaxElem
  BY StreamFields, EndFields
<1>2. s.end[e].done <= s.end[e].cap
  BY DEF Counted
<1> QED
  BY <1>1, <1>2, RoomLeft DEF remaining

(* A zero-length buffer has nothing left. *)
LEMMA NothingLeft ==
    ASSUME NEW s \in StreamType, Counted(s), NEW e \in Ends, s.end[e].cap = 0
    PROVE  remaining(s, e) = 0 /\ ~(remaining(s, e) > 0)
<1>1. s.end[e].cap \in 0 .. MaxElem /\ s.end[e].done \in 0 .. MaxElem
  BY StreamFields, EndFields
<1>2. s.end[e].done <= s.end[e].cap
  BY DEF Counted
<1> QED
  BY <1>1, <1>2 DEF remaining

(* A write meets whatever is pending and leaves a sound stream. *)
LEMMA WriteMeets ==
    ASSUME NEW s, Ready(s, "W")
    PROVE  Met(writeTo(s), "W")
<1> DEFINE n == remaining(s, "W")
           m == remaining(s, "R")
           k == Smaller(n, m)
<1>0. "W" \in Ends /\ Other("W") = "R" /\ "R" \in Ends
  BY DEF Ends, Other
<1>7. n \in Nat /\ m \in Nat /\ s.end["R"].reject \in 0 .. NoReject
  BY <1>0, RemainingIsNat, StreamFields, EndFields DEF Ready
<1>1. CASE s.pend = "none"
  <2>1. writeTo(s) = [s EXCEPT !.pend = "W"]
    BY <1>1 DEF writeTo
  <2> QED BY <2>1, <1>0, <1>1, BecomesPending
<1>2. CASE s.pend # "none" /\ s.end["W"].cap = 0 /\ s.end["R"].cap = 0
  <2>1. writeTo(s) = onCopyDone(s, "W", "COMPLETED")
    <3>1. m = 0 /\ ~(m > 0)
      BY <1>0, <1>2, NothingLeft DEF Ready
    <3> HIDE DEF m
    <3> QED BY <3>1, <1>2 DEF writeTo, m
  <2> QED BY <2>1, <1>0, AnswersItself
<1>3. CASE s.pend # "none" /\ ~(s.end["W"].cap = 0 /\ s.end["R"].cap = 0) /\ m = 0
  <2>1. writeTo(s) = [resetAndNotifyPending(s, "COMPLETED") EXCEPT !.pend = "W"]
    BY <1>3 DEF writeTo
  <2> QED BY <2>1, <1>0, <1>3, TakesItsPlace
<1>4. CASE s.pend # "none" /\ m > 0 /\ n > s.end["R"].reject
  <2>1. s.pend = "R"
    BY <1>0, <1>4, PendingIsOther
  <2>2. writeTo(s) = onCopyDone(resetAndNotifyPending(s, "DROPPED"), "W", "DROPPED")
    <3>1. writeTo(s) = onCopyDone(onCopyDone([s EXCEPT !.pend = "none"], "R", "DROPPED"),
                                  "W", "DROPPED")
      <4>1. s.end["R"].cap # 0
        BY <1>0, <1>4, NothingLeft DEF Ready
      <4>2. m # 0
        BY <1>4
      <4>3. ~(n <= s.end["R"].reject)
        <5> HIDE DEF n, m
        <5> QED BY <1>4, <1>7
      <4> HIDE DEF n, m
      <4> QED BY <4>1, <4>2, <4>3, <1>4, <2>1 DEF writeTo, n, m
    <3>2. resetAndNotifyPending(s, "DROPPED") = onCopyDone([s EXCEPT !.pend = "none"], "R", "DROPPED")
      BY <2>1 DEF resetAndNotifyPending
    <3> QED BY <3>1, <3>2
  <2> QED BY <2>2, <1>0, <1>4, BothRefused
<1>5. CASE s.pend # "none" /\ m > 0 /\ n > 0 /\ n <= s.end["R"].reject
  <2>1. writeTo(s) = onCopyDone(onCopy(move(s, k), "R"), "W", "COMPLETED")
    BY <1>5 DEF writeTo, remaining
  <2>2. k \in Nat /\ k <= n /\ k <= m
    BY <1>0, RemainingIsNat, SmallerFits DEF Ready
  <2> HIDE DEF k
  <2> QED BY <2>1, <2>2, <1>0, <1>5, ElementsCopied
<1>6. CASE s.pend # "none" /\ m > 0 /\ n = 0 /\ ~(n > s.end["R"].reject)
  <2>1. writeTo(s) = onCopyDone(s, "W", "COMPLETED")
    BY <1>6 DEF writeTo, remaining
  <2> QED BY <2>1, <1>0, AnswersItself
<1>8. (m = 0 \/ m > 0) /\ (n = 0 \/ n > 0)
      /\ (n > s.end["R"].reject \/ n <= s.end["R"].reject)
  <2> HIDE DEF n, m
  <2> QED BY <1>7, Bounds
<1> QED
  BY <1>1, <1>2, <1>3, <1>4, <1>5, <1>6, <1>8

(* A read meets whatever is pending and leaves a sound stream. *)
LEMMA ReadMeets ==
    ASSUME NEW s, Ready(s, "R")
    PROVE  Met(readFrom(s), "R")
<1> DEFINE n == remaining(s, "W")
           m == remaining(s, "R")
           k == Smaller(n, m)
<1>0. "W" \in Ends /\ Other("R") = "W" /\ "R" \in Ends
  BY DEF Ends, Other
<1>7. n \in Nat /\ m \in Nat /\ s.end["R"].reject \in 0 .. NoReject
  BY <1>0, RemainingIsNat, StreamFields, EndFields DEF Ready
<1>1. CASE s.pend = "none"
  <2>1. readFrom(s) = [s EXCEPT !.pend = "R"]
    BY <1>1 DEF readFrom
  <2> QED BY <2>1, <1>0, <1>1, BecomesPending
<1>2. CASE s.pend # "none" /\ n > 0 /\ n > s.end["R"].reject
  <2>1. ~(n <= s.end["R"].reject)
    <3> HIDE DEF n
    <3> QED BY <1>2, <1>7
  <2>2. readFrom(s) = onCopyDone(resetAndNotifyPending(s, "DROPPED"), "R", "DROPPED")
    <3> HIDE DEF n, m
    <3> QED BY <2>1, <1>2 DEF readFrom, n, m
  <2> QED BY <2>2, <1>0, <1>2, BothRefused
<1>3. CASE s.pend # "none" /\ n > 0 /\ n <= s.end["R"].reject /\ m > 0
  <2>1. readFrom(s) = onCopyDone(onCopy(move(s, k), "W"), "R", "COMPLETED")
    <3>1. ~(n > s.end["R"].reject) /\ m # 0
      <4> HIDE DEF n, m
      <4> QED BY <1>3, <1>7
    <3> HIDE DEF n, m
    <3> QED BY <3>1, <1>3 DEF readFrom, n, m
  <2>2. k \in Nat /\ k <= n /\ k <= m
    BY <1>0, RemainingIsNat, SmallerFits DEF Ready
  <2> HIDE DEF k
  <2> QED BY <2>1, <2>2, <1>0, <1>3, ElementsCopied
<1>4. CASE s.pend # "none" /\ n > 0 /\ n <= s.end["R"].reject /\ m = 0
  <2>1. readFrom(s) = onCopyDone(s, "R", "COMPLETED")
    <3>1. ~(n > s.end["R"].reject) /\ ~(m > 0)
      <4> HIDE DEF n, m
      <4> QED BY <1>4, <1>7
    <3> HIDE DEF n, m
    <3> QED BY <3>1, <1>4 DEF readFrom, n, m
  <2> QED BY <2>1, <1>0, AnswersItself
<1>5. CASE s.pend # "none" /\ n = 0
  <2>1. readFrom(s) = [resetAndNotifyPending(s, "COMPLETED") EXCEPT !.pend = "R"]
    <3>1. ~(n > 0)
      BY <1>5
    <3> HIDE DEF n
    <3> QED BY <3>1, <1>5 DEF readFrom, n
  <2> QED BY <2>1, <1>0, <1>5, TakesItsPlace
<1>8. (m = 0 \/ m > 0) /\ (n = 0 \/ n > 0)
      /\ (n > s.end["R"].reject \/ n <= s.end["R"].reject)
  <2> HIDE DEF n, m
  <2> QED BY <1>7, Bounds
<1> QED
  BY <1>1, <1>2, <1>3, <1>4, <1>5, <1>8

(* An operation that starts on an idle end of a live stream. *)
LEMMA OperationMeets ==
    ASSUME NEW s \in StreamType, NEW e \in Ends, Counted(s), Sound(s),
           ~s.dropped, s.end[e].copy = "IDLE",
           NEW n \in 0 .. MaxElem, NEW data \in Seq(1 .. MaxElem), GoodData(s, e, data, n),
           NEW reject \in 0 .. NoReject
    PROVE  Met(Copied(s, e, data, n, reject), e)
<1> DEFINE t == setupCopy(s, e, data, n, reject)
<1>1. Ready(t, e)
  BY SetupCopy
<1>2. Copied(s, e, data, n, reject) = IF e = "W" THEN writeTo(t) ELSE readFrom(t)
  BY DEF Copied
<1> HIDE DEF t
<1>3. CASE e = "W"
  BY <1>1, <1>2, <1>3, WriteMeets
<1>4. CASE e = "R"
  BY <1>1, <1>2, <1>4, ReadMeets
<1> QED BY <1>3, <1>4 DEF Ends

(* The operation blocks, or takes its own event. *)
LEMMA OperationLeaves ==
    ASSUME NEW s, NEW e \in Ends, Met(s, e), NEW k \in Blocking
    PROVE  Good(TakenOrBlocked(s, e, k))
<1>1. CASE s.end[e].ev = "none"
  <2> DEFINE t == [s EXCEPT !.end[e].copy = k]
  <2>1. TakenOrBlocked(s, e, k) = t
    BY <1>1 DEF TakenOrBlocked
  <2>2. k \in CopyStates /\ s \in StreamType
    BY DEF Met, CopyStates, Blocking
  <2>3. /\ Touched(s, t, e) /\ t.end[e].copy = k
        /\ t.end[e].ev = s.end[e].ev /\ t.end[e].reclaim = s.end[e].reclaim
    BY <2>2, SetCopy
  <2> HIDE DEF t
  <2>4. t \in StreamType /\ Counted(t) /\ t.pend = e /\ ~t.dropped
    BY <2>3, <1>1, CountedKept DEF Touched, Met
  <2>5. EndSound(t, e)
    BY <2>3, <2>4, <1>1 DEF EndSound, Copies, Met, Blocking
  <2>6. EndSound(t, Other(e))
    BY <2>3 DEF EndSound, Copies, Met, Touched
  <2>7. Sound(t)
    BY <2>4, <2>5, <2>6, TwoEnds DEF Sound
  <2> QED BY <2>1, <2>4, <2>7 DEF Good
<1>2. CASE s.end[e].ev # "none"
  <2>1. TakenOrBlocked(s, e, k) = getPendingEvent(s, e)
    BY <1>2 DEF TakenOrBlocked
  <2> QED BY <2>1, <1>2, EventTaken DEF Met, Good
<1> QED BY <1>1, <1>2

(* StreamEnd.drop: the pending operation is told, the others keep their      *)
(* events.                                                                   *)
LEMMA CutIsEvent ==
    ASSUME NEW s, NEW r \in Events \ {"none"}
    PROVE  CutResult(s, r) \in Events \ {"none"}
BY DEF CutResult, Events

(* drop() of a stream ends the pending operation. *)
LEMMA DroppedGood ==
    ASSUME NEW s, Good(s)
    PROVE  Good(Dropped(s))
<1>1. CASE s.dropped
  BY <1>1 DEF Dropped
<1>2. CASE ~s.dropped
  <2> DEFINE u == [s EXCEPT !.dropped = TRUE]
             r == CutResult(s, "DROPPED")
             t == resetAndNotifyPending(u, r)
  <2>0. r \in Events \ {"none"}
    BY CutIsEvent DEF Events
  <2>1. Dropped(s) = t
    BY <1>2 DEF Dropped
  <2>2. /\ u \in StreamType /\ u.pend = s.pend /\ u.got = s.got /\ u.end = s.end /\ u.dropped
    BY DEF Good, StreamType
  <2> HIDE DEF u, r
  <2>3. Counted(u)
    BY <2>2, CountedKept DEF Good, SameCopied, SameBuffer
  <2>4. \A e \in Ends : EndSound(u, e)
    BY <2>2 DEF Good, Sound, EndSound, Copies
  <2>5. CASE u.pend = "none"
    <3>1. t = u
      BY <2>5 DEF resetAndNotifyPending
    <3> QED BY <2>1, <2>2, <2>3, <2>4, <2>5, <3>1 DEF Good, Sound
  <2>6. CASE u.pend # "none"
    <3> DEFINE o == u.pend
    <3>0. o \in Ends
      BY <2>2, <2>6, StreamFields
    <3>1. /\ t \in StreamType /\ t.pend = "none"
          /\ t.end[Other(o)] = u.end[Other(o)]
          /\ t.dropped = u.dropped
          /\ SameCopied(u, t) /\ EndSound(t, o)
      BY <2>0, <2>2, <2>4, <2>6, <3>0, PendingNotified
    <3> HIDE DEF t
    <3>2. Counted(t)
      BY <3>1, <2>3, CountedKept
    <3>3. EndSound(t, Other(o))
      <4>1. EndSound(u, Other(o)) /\ Other(o) # o /\ Other(o) # "none"
        BY <2>4, <3>0, TwoEnds
      <4> QED BY <4>1, <3>1, <2>2 DEF EndSound, Copies
    <3>4. \A e \in Ends : EndSound(t, e)
      <4> HIDE DEF o
      <4> QED BY <3>0, <3>1, <3>3, TwoEnds
    <3> QED BY <2>1, <3>1, <3>2, <3>4 DEF Good, Sound
  <2> QED BY <2>5, <2>6
<1> QED BY <1>1, <1>2

-----------------------------------------------------------------------------
(* The actions: every one of them leaves the stream as it should be. *)

(* A read or write, from setupCopy to its first return, keeps the invariant. *)
LEMMA StartKeeps ==
    ASSUME NEW s, Good(s), NEW e \in Ends, ~s.dropped, s.end[e].copy = "IDLE",
           NEW n \in 0 .. MaxElem, NEW data \in Seq(1 .. MaxElem), GoodData(s, e, data, n),
           NEW reject \in 0 .. NoReject, NEW k \in Blocking
    PROVE  Good(TakenOrBlocked(Copied(s, e, data, n, reject), e, k))
<1> DEFINE t == Copied(s, e, data, n, reject)
<1>1. Met(t, e)
  BY OperationMeets DEF Good
<1> HIDE DEF t
<1>2. Good(TakenOrBlocked(t, e, k))
  BY <1>1, OperationLeaves
<1> QED BY <1>2 DEF t

(* The writer offers the elements that follow those it was told of. *)
LEMMA OfferIsGood ==
    ASSUME Good(c), NEW n \in 0 .. MaxElem, HasOffer(n)
    PROVE  Offer(n) \in Seq(1 .. MaxElem) /\ GoodData(c, "W", Offer(n), n)
<1> DEFINE k == c.end["W"].told
<1>1. k \in 0 .. MaxElem /\ k + n <= MaxElem
  BY StreamFields, EndFields DEF Good, Ends, HasOffer
<1>2. Offer(n) = [i \in 1 .. n |-> k + i]
  BY DEF Offer
<1> HIDE DEF k
<1>3. k \in Nat /\ n \in Nat
  BY <1>1, Bounds
<1>4. \A i \in 1 .. n : k + i \in 1 .. MaxElem
  BY <1>1, <1>3, Bounds
<1>5. [i \in 1 .. n |-> k + i] \in Seq(1 .. MaxElem) /\ Len([i \in 1 .. n |-> k + i]) = n
  BY <1>3, <1>4
<1> QED
  BY <1>1, <1>2, <1>5 DEF GoodData, k

(* A reader offers an empty buffer. *)
LEMMA ReadIsGood ==
    ASSUME NEW s, NEW n
    PROVE  <<>> \in Seq(1 .. MaxElem) /\ GoodData(s, "R", <<>>, n)
BY DEF GoodData

(* Taking an event, with its reclaiming of the buffer, keeps the invariant. *)
LEMMA TakeKeeps ==
    ASSUME NEW s, Good(s), NEW e \in Ends, s.end[e].ev # "none"
    PROVE  Good(getPendingEvent(s, e))
<1>1. EndSound(s, Other(e)) /\ EndSound(s, e) /\ (s.dropped => s.pend = "none")
  BY TwoEnds DEF Good, Sound
<1>2. s.end[e].reclaim <=> s.pend = e
  BY <1>1 DEF EndSound
<1> QED
  BY <1>1, <1>2, EventTaken DEF Good

(* The end is marked DONE on a dropped stream. *)
LEMMA DoneKeeps ==
    ASSUME NEW s, Good(s), NEW e \in Ends, s.dropped, s.end[e].ev = "none" \/ e = "R"
    PROVE  Good([s EXCEPT !.end[e].copy = "DONE"])
<1> DEFINE t == [s EXCEPT !.end[e].copy = "DONE"]
<1>1. "DONE" \in CopyStates /\ s \in StreamType
  BY DEF CopyStates, Good
<1>2. /\ Touched(s, t, e) /\ t.end[e].copy = "DONE"
      /\ t.end[e].ev = s.end[e].ev /\ t.end[e].reclaim = s.end[e].reclaim
  BY <1>1, SetCopy
<1> HIDE DEF t
<1>3. t \in StreamType /\ Counted(t) /\ t.pend = s.pend /\ t.dropped = s.dropped
  BY <1>2, CountedKept DEF Touched, Good
<1>4. EndSound(s, Other(e)) /\ EndSound(s, e) /\ s.pend = "none"
  BY TwoEnds DEF Good, Sound
<1>5. EndSound(t, Other(e))
  BY <1>2, <1>3, <1>4 DEF Touched, EndSound, Copies
<1>6. t.end[e].cap = s.end[e].cap /\ t.end[e].done = s.end[e].done
  BY <1>2 DEF Touched, SameCopied, SameBuffer
<1>7. EndSound(t, e)
  BY <1>2, <1>3, <1>4, <1>6, TwoEnds DEF EndSound, Copies
<1>8. Good(t)
  BY <1>3, <1>4, <1>5, <1>7, TwoEnds DEF Good, Sound
<1> QED BY <1>8 DEF t

(* Dropping an end keeps the invariant. *)
LEMMA DropKeeps ==
    ASSUME NEW s, Good(s), NEW e \in Ends
    PROVE  Good(Dropped([s EXCEPT !.end[e].alive = FALSE]))
<1> DEFINE t == [s EXCEPT !.end[e].alive = FALSE]
<1>1. /\ Touched(s, t, e) /\ t.end[e].copy = s.end[e].copy
      /\ t.end[e].ev = s.end[e].ev /\ t.end[e].reclaim = s.end[e].reclaim
  BY SetDead DEF Good
<1> HIDE DEF t
<1>2. t \in StreamType /\ Counted(t) /\ t.pend = s.pend /\ t.dropped = s.dropped
  BY <1>1, CountedKept DEF Touched, Good
<1>3. t.end[e].cap = s.end[e].cap /\ t.end[e].done = s.end[e].done
  BY <1>1 DEF Touched, SameCopied, SameBuffer
<1>4. EndSound(t, e) /\ EndSound(t, Other(e))
  BY <1>1, <1>2, <1>3, TwoEnds DEF Good, Sound, Touched, EndSound, Copies
<1>5. Good(t)
  BY <1>2, <1>4, TwoEnds DEF Good, Sound
<1>6. Good(Dropped(t))
  BY <1>5, DroppedGood
<1> QED BY <1>6 DEF t

(* An operation that copies is marked as cancelled. *)
LEMMA CancellingGood ==
    ASSUME NEW s, Good(s), NEW e \in Ends, s.end[e].copy = "ASYNC_COPYING"
    PROVE  LET t == [s EXCEPT !.end[e].copy = "CANCELLING_COPY"]
           IN  /\ Good(t) /\ Touched(s, t, e) /\ t.end[e].copy = "CANCELLING_COPY"
               /\ t.end[e].ev = s.end[e].ev /\ t.end[e].reclaim = s.end[e].reclaim
               /\ t.end[e].reject = s.end[e].reject
<1> DEFINE t == [s EXCEPT !.end[e].copy = "CANCELLING_COPY"]
<1>1. "CANCELLING_COPY" \in CopyStates /\ s \in StreamType
  BY DEF CopyStates, Good
<1>2. /\ Touched(s, t, e) /\ t.end[e].copy = "CANCELLING_COPY"
      /\ t.end[e].ev = s.end[e].ev /\ t.end[e].reclaim = s.end[e].reclaim
      /\ t.end[e].reject = s.end[e].reject
  BY <1>1, SetCopy
<1> HIDE DEF t
<1>3. t \in StreamType /\ Counted(t) /\ t.pend = s.pend /\ t.dropped = s.dropped
  BY <1>2, CountedKept DEF Touched, Good
<1>4. EndSound(t, e) /\ EndSound(t, Other(e))
  BY <1>2, <1>3, TwoEnds DEF Good, Sound, Touched, EndSound, Copies
<1>5. Good(t)
  BY <1>3, <1>4, TwoEnds DEF Good, Sound
<1> QED BY <1>2, <1>5 DEF t

(* The cancellation of an operation that copies. *)
LEMMA CancelKeeps ==
    ASSUME NEW s, Good(s), NEW e \in Ends, s.end[e].copy = "ASYNC_COPYING"
    PROVE  LET t == [s EXCEPT !.end[e].copy = "CANCELLING_COPY"]
           IN  /\ t.end[e].ev # "none" => Good(getPendingEvent(t, e))
               /\ t.end[e].ev = "none" =>
                     Good(TakenOrBlocked(completeCancel(t), e, "CANCELLING_COPY"))
<1> DEFINE t == [s EXCEPT !.end[e].copy = "CANCELLING_COPY"]
<1>2. Good(t) /\ Touched(s, t, e) /\ t.end[e].copy = "CANCELLING_COPY"
  BY CancellingGood
<1> HIDE DEF t
<1>3. t \in StreamType /\ Counted(t) /\ t.pend = s.pend /\ t.dropped = s.dropped
  BY <1>2 DEF Touched, Good
<1>4. EndSound(t, e) /\ EndSound(t, Other(e))
  BY <1>2, TwoEnds DEF Good, Sound
<1>5. Good(t)
  BY <1>2
<1>6. t.end[e].ev # "none" => Good(getPendingEvent(t, e))
  BY <1>5, TakeKeeps
<1>7. ASSUME t.end[e].ev = "none"
      PROVE  Good(TakenOrBlocked(completeCancel(t), e, "CANCELLING_COPY"))
  <2> DEFINE r == CutResult(t, "CANCELLED")
             u == resetAndNotifyPending(t, r)
  <2>0. r \in Events \ {"none"}
    BY CutIsEvent DEF Events
  <2>1. Copies(t, e)
    BY <1>2 DEF Copies
  <2>2. t.pend = e /\ ~t.dropped /\ e # "none"
    BY <2>1, <1>4, <1>5, <1>7, TwoEnds DEF EndSound, Good, Sound
  <2>3. completeCancel(t) = u
    BY <2>2 DEF completeCancel
  <2> HIDE DEF r
  <2>4. /\ u \in StreamType /\ u.pend = "none" /\ u.dropped = t.dropped
        /\ u.end[Other(e)] = t.end[Other(e)]
        /\ u.end[e].ev = r /\ ~u.end[e].reclaim /\ SameCopied(t, u)
    BY <2>0, <2>2, <1>3, <1>4, PendingNotified
  <2> HIDE DEF u
  <2>5. Counted(u)
    BY <2>4, <1>3, CountedKept
  <2>6. EndSound(u, Other(e))
    BY <2>2, <2>4, <1>4, TwoEnds DEF EndSound, Copies
  <2>7. u.end[e].ev # "none"
    BY <2>0, <2>4
  <2>8. Good(getPendingEvent(u, e))
    BY <2>2, <2>4, <2>5, <2>6, <2>7, EventTaken DEF Good
  <2> QED BY <2>3, <2>7, <2>8 DEF TakenOrBlocked
<1>8. /\ t.end[e].ev # "none" => Good(getPendingEvent(t, e))
      /\ t.end[e].ev = "none" => Good(TakenOrBlocked(completeCancel(t), e, "CANCELLING_COPY"))
  BY <1>6, <1>7
<1> QED BY <1>8 DEF t

-----------------------------------------------------------------------------
(* A new stream is sound. *)
LEMMA NewIsGood == ASSUME Init PROVE Good(c)
<1>1. c.end = [e \in Ends |-> NewEnd] /\ ~c.dropped /\ c.pend = "none" /\ c.got = <<>>
  BY DEF Init
<1>2. NewEnd \in EndType
  <2>1. <<>> \in Seq(1 .. MaxElem) /\ NoReject \in 0 .. NoReject
    BY Bounds
  <2> QED BY <2>1, Bounds DEF NewEnd, EndType
<1>3. c \in StreamType
  <2>1. [e \in Ends |-> NewEnd] \in [Ends -> EndType]
    BY <1>2
  <2>2. <<>> \in Seq(1 .. MaxElem)
    OBVIOUS
  <2> QED BY <2>1, <2>2 DEF Init, StreamType
<1>4. \A e \in Ends : /\ c.end[e].copy = "IDLE" /\ c.end[e].ev = "none" /\ ~c.end[e].reclaim
                      /\ c.end[e].cap = 0 /\ c.end[e].done = 0 /\ c.end[e].told = 0
                      /\ c.end[e].data = <<>>
  BY <1>1 DEF NewEnd
<1>5. Counted(c)
  <2>1. Len(<<>>) = 0 /\ 0 + 0 = 0 /\ 1 .. 0 = {} /\ 0 <= 0 /\ 0 + 0 <= MaxElem
    BY Bounds
  <2>2. "W" \in Ends
    BY DEF Ends
  <2> QED BY <2>1, <2>2, <1>1, <1>4 DEF Counted
<1>6. Sound(c)
  BY <1>1, <1>4 DEF Sound, EndSound, Copies, Ends
<1> QED BY <1>3, <1>5, <1>6 DEF Good

(* So the invariant holds at first. *)
LEMMA InitGood == Init => StreamInv
BY NewIsGood DEF StreamInv, Init

(* The host's copy(): the stream is dropped, the end is busy, or the read    *)
(* meets the writer.                                                         *)
LEMMA HostCopyKeeps ==
    ASSUME Good(c), NEW h, NEW i, NEW n \in 0 .. MaxElem, NEW reject \in 0 .. NoReject,
           HostCopy(h, i, n, reject)
    PROVE  Good(c')
<1>0. "R" \in Ends /\ "ASYNC_COPYING" \in Blocking
  BY DEF Ends, Blocking
<1>1. CASE c.dropped
  <2>1. c' = [c EXCEPT !.end["R"].copy = "DONE"]
    BY <1>1 DEF HostCopy
  <2>2. Good([c EXCEPT !.end["R"].copy = "DONE"])
    BY <1>0, <1>1, DoneKeeps
  <2> QED BY <2>1, <2>2
<1>2. CASE ~c.dropped /\ c.end["R"].copy # "IDLE"
  BY <1>2 DEF HostCopy
<1>3. CASE ~c.dropped /\ c.end["R"].copy = "IDLE"
  <2>1. c' = TakenOrBlocked(Copied(c, "R", <<>>, n, reject), "R", "ASYNC_COPYING")
    BY <1>3 DEF HostCopy
  <2>2. Good(TakenOrBlocked(Copied(c, "R", <<>>, n, reject), "R", "ASYNC_COPYING"))
    BY <1>0, <1>3, ReadIsGood, StartKeeps
  <2> QED BY <2>1, <2>2
<1> QED BY <1>1, <1>2, <1>3

(* No step of a guest or of the host that reads disturbs the stream, and no  *)
(* injection starts.                                                         *)
LEMMA StepGood == StreamInv /\ [Next]_vars => StreamInv'
<1> SUFFICES ASSUME StreamInv, [Next]_vars, ~Injected'
             PROVE  Good(c') /\ inj' = <<>> /\ ~src'.reading /\ ~src'.error /\ timer' = 0
  BY DEF StreamInv
<1>0. mode' = mode
  BY DEF Next, vars, CopyDropped, TakeEvent, StreamCancel, StreamDrop, StreamWrite, StreamRead,
         StreamReadInjected, HostRead, HostReadChained, HostReadEnds, HostDrop, SourceYields,
         SourceThrows, InjectResumes, InjectFails, TakeError, CancelTimer
<1>1. ~Injected /\ Good(c) /\ inj = <<>> /\ ~src.reading /\ ~src.error /\ timer = 0
  BY <1>0 DEF Injected, StreamInv
<1>2. CASE UNCHANGED vars
  BY <1>1, <1>2 DEF vars
<1>3. ASSUME NEW e \in Ends, CopyDropped(e)
      PROVE  Good(c') /\ UNCHANGED <<inj, src, timer>>
  BY <1>1, <1>3, DoneKeeps DEF CopyDropped
<1>4. ASSUME NEW e \in Ends, TakeEvent(e)
      PROVE  Good(c') /\ UNCHANGED <<inj, src, timer>>
  BY <1>1, <1>4, TakeKeeps DEF TakeEvent
<1>5. ASSUME NEW e \in Ends, StreamDrop(e)
      PROVE  Good(c') /\ UNCHANGED <<inj, src, timer>>
  BY <1>1, <1>5, DropKeeps DEF StreamDrop
<1>6. ASSUME NEW e \in Ends, StreamCancel(e)
      PROVE  Good(c') /\ UNCHANGED <<inj, src, timer>>
  <2> DEFINE s == [c EXCEPT !.end[e].copy = "CANCELLING_COPY"]
  <2>1. /\ s.end[e].ev # "none" => Good(getPendingEvent(s, e))
        /\ s.end[e].ev = "none" => Good(TakenOrBlocked(completeCancel(s), e, "CANCELLING_COPY"))
    BY <1>1, <1>6, CancelKeeps DEF StreamCancel
  <2>2. /\ c' = IF s.end[e].ev # "none" THEN getPendingEvent(s, e)
                ELSE TakenOrBlocked(completeCancel(s), e, "CANCELLING_COPY")
        /\ UNCHANGED <<inj, src, timer>>
    <3> HIDE DEF s
    <3> QED BY <1>1, <1>6 DEF StreamCancel, s
  <2> HIDE DEF s
  <2> QED BY <2>1, <2>2
<1>7. ASSUME NEW n \in Counts, NEW state \in Blocking, StreamWrite(n, state)
      PROVE  Good(c') /\ UNCHANGED <<inj, src, timer>>
  <2>1. n \in 0 .. MaxElem /\ NoReject \in 0 .. NoReject /\ "W" \in Ends
    BY Bounds DEF Ends
  <2>2. Offer(n) \in Seq(1 .. MaxElem) /\ GoodData(c, "W", Offer(n), n)
    BY <2>1, <1>1, <1>7, OfferIsGood DEF StreamWrite
  <2>3. Good(TakenOrBlocked(Copied(c, "W", Offer(n), n, NoReject), "W", state))
    BY <2>1, <2>2, <1>1, <1>7, StartKeeps DEF StreamWrite
  <2> QED BY <2>3, <1>7 DEF StreamWrite
<1>8. ASSUME NEW n \in Counts, NEW state \in Blocking, StreamRead(n, state)
      PROVE  Good(c') /\ UNCHANGED <<inj, src, timer>>
  <2>1. n \in 0 .. MaxElem /\ NoReject \in 0 .. NoReject /\ "R" \in Ends
    BY Bounds DEF Ends
  <2>2. Good(TakenOrBlocked(Copied(c, "R", <<>>, n, NoReject), "R", state))
    BY <2>1, <1>1, <1>8, ReadIsGood, StartKeeps DEF StreamRead
  <2> QED BY <2>2, <1>8 DEF StreamRead
<1>9. ASSUME NEW i, NEW o \in ReadOpts,
             HostRead(i, o[1], o[2]) \/ HostReadChained(i, o[1], o[2])
      PROVE  Good(c') /\ UNCHANGED <<inj, src, timer>>
  <2>1. o[1] \in 0 .. MaxElem /\ o[2] \in 0 .. NoReject
    BY Bounds DEF ReadOpts
  <2>2. PICK h : c' = c \/ HostCopy(h, i, o[1], o[2])
    BY <1>9 DEF HostRead, HostReadChained
  <2>3. Good(c')
    BY <2>1, <2>2, <1>1, HostCopyKeeps
  <2> QED BY <2>3, <1>9 DEF HostRead, HostReadChained
<1>10. ASSUME NEW i, HostReadEnds(i)
       PROVE  Good(c') /\ UNCHANGED <<inj, src, timer>>
  <2>1. "R" \in Ends
    BY DEF Ends
  <2> QED BY <2>1, <1>1, <1>10, TakeKeeps DEF HostReadEnds
<1>11. ASSUME HostDrop
       PROVE  Good(c') /\ UNCHANGED <<inj, src, timer>>
  <2>1. "R" \in Ends
    BY DEF Ends
  <2> QED BY <2>1, <1>1, <1>11, DropKeeps DEF HostDrop
<1>12. /\ \A n, state : ~StreamReadInjected(n, state)
       /\ \A k, done : ~SourceYields(k, done)
       /\ ~SourceThrows /\ ~InjectResumes /\ ~InjectFails /\ ~TakeError /\ ~CancelTimer
  <2>1. \A n, state : ~StreamReadInjected(n, state)
    BY <1>1 DEF StreamReadInjected
  <2>2. (\A k, done : ~SourceYields(k, done)) /\ ~SourceThrows
    BY <1>1 DEF SourceYields, SourceThrows, MaySettle
  <2>3. ~InjectResumes /\ ~InjectFails
    BY <1>1 DEF InjectResumes, InjectFails
  <2>4. ~CancelTimer /\ ~TakeError
    BY <1>1 DEF CancelTimer, TakeError
  <2> QED BY <2>1, <2>2, <2>3, <2>4
<1>13. CASE Next
  <2>1. Good(c') /\ UNCHANGED <<inj, src, timer>>
    BY <1>3, <1>4, <1>5, <1>6, <1>7, <1>8, <1>9, <1>10, <1>11, <1>12, <1>13 DEF Next
  <2> QED BY <2>1, <1>1
<1> QED BY <1>2, <1>13

-----------------------------------------------------------------------------
(* A stream that the host writes: what the injections rely on. *)

(* The elements that were handed to the writable end so far. *)
Base(s) == s.end["W"].told + s.end["W"].cap

(* The writable end of the host has nothing under way. *)
WriterIdle(s) ==
    /\ s.end["W"].copy = "IDLE" /\ s.end["W"].ev = "none" /\ ~s.end["W"].reclaim
    /\ s.end["W"].cap = 0 /\ s.end["W"].done = 0

(* A read waits for the host's values; whether its copy state is set yet     *)
(* does not matter.                                                          *)
Asks(s) ==
    /\ s \in StreamType /\ Counted(s) /\ ~s.dropped
    /\ s.pend = "R" /\ s.end["R"].ev = "none" /\ ~s.end["R"].reclaim
    /\ s.end["R"].reject = NoReject
    /\ WriterIdle(s)

(* The host's end is idle, or waits with one element that answered a read of *)
(* nothing.                                                                  *)
WriterPart(s) ==
    /\ EndSound(s, "W")
    /\ ~s.dropped => /\ s.end["W"].ev = "none"
                     /\ s.end["W"].copy = "IDLE" \/ s.pend = "W"
                     /\ s.pend = "W" => s.end["W"].cap = 1 /\ s.end["W"].done = 0

WriterRests(s) == Good(s) /\ s.end["R"].reject = NoReject /\ WriterPart(s)

(* The read that asked has its event. *)
Answered(s, t) ==
    /\ t \in StreamType /\ Counted(t) /\ (t.dropped => t.pend = "none")
    /\ t.end["R"].copy = s.end["R"].copy /\ t.end["R"].reject = NoReject
    /\ t.end["R"].ev # "none" /\ (t.end["R"].reclaim <=> t.pend = "R")
    /\ WriterPart(t)


(* An end that does not copy and has no event keeps no buffer. *)
LEMMA RestingWriterIdle ==
    ASSUME NEW s, WriterRests(s), ~s.dropped, s.pend # "W"
    PROVE  WriterIdle(s)
<1>1. s \in StreamType /\ Counted(s) /\ EndSound(s, "W") /\ s.end["W"].copy = "IDLE"
  BY DEF WriterRests, WriterPart, Good
<1> QED BY <1>1, IdleHasNothing, TwoEnds DEF WriterIdle, Ends

(* A read that waits asks for the host's values. *)
LEMMA WaitingAsks ==
    ASSUME NEW s, WriterRests(s), s.pend = "R", s.end["R"].ev = "none"
    PROVE  Asks(s) /\ Copies(s, "R")
<1>1. s \in StreamType /\ Counted(s) /\ ~s.dropped /\ EndSound(s, "R") /\ s.pend # "W"
  BY DEF WriterRests, Good, Sound, Ends
<1>2. WriterIdle(s)
  BY <1>1, RestingWriterIdle
<1>3. Copies(s, "R") /\ ~s.end["R"].reclaim
  BY <1>1 DEF EndSound
<1> QED BY <1>1, <1>2, <1>3 DEF Asks, WriterRests

(* A read of an idle end that finds nothing pending asks. *)
LEMMA ReadAsks ==
    ASSUME NEW s, WriterRests(s), ~s.dropped, s.end["R"].copy = "IDLE", s.pend = "none",
           NEW n \in 0 .. MaxElem
    PROVE  LET t == Copied(s, "R", <<>>, n, NoReject)
           IN  /\ Asks(t) /\ t.end["R"].cap = n /\ t.end["R"].done = 0
               /\ t.end["R"].copy = "IDLE" /\ Base(t) = Base(s)
<1> DEFINE u == setupCopy(s, "R", <<>>, n, NoReject)
           x == [s.end["R"] EXCEPT !.cap = n, !.done = 0, !.data = <<>>, !.reject = NoReject]
           t == [u EXCEPT !.pend = "R"]
<1>0. "R" \in Ends /\ "W" \in Ends /\ Other("R") = "W" /\ NoReject \in 0 .. NoReject
  BY Bounds DEF Ends, Other
<1>1. s \in StreamType /\ Counted(s) /\ Sound(s) /\ EndSound(s, "R")
  BY <1>0 DEF WriterRests, Good, Sound
<1>2. Ready(u, "R")
  BY <1>0, <1>1, SetupCopy, ReadIsGood
<1>3. s.end["R"] \in EndType /\ s.end["R"].ev = "none" /\ ~s.end["R"].reclaim
  BY <1>0, <1>1, StreamFields, IdleHasNothing
<1>4. /\ x \in EndType /\ x.cap = n /\ x.done = 0 /\ x.reject = NoReject
      /\ x.copy = "IDLE" /\ x.ev = "none" /\ ~x.reclaim
  <2>1. <<>> \in Seq(1 .. MaxElem)
    OBVIOUS
  <2> QED BY <2>1, <1>0, <1>3, Bounds DEF EndType
<1>5. u = [s EXCEPT !.end["R"] = x]
  BY DEF setupCopy
<1> HIDE DEF x, u
<1>6. /\ u \in StreamType /\ u.pend = "none" /\ ~u.dropped
      /\ u.end["R"] = x /\ u.end["W"] = s.end["W"]
  BY <1>0, <1>1, <1>4, <1>5, SetEnd
<1>7. Counted(u)
  BY <1>2 DEF Ready
<1>8. readFrom(u) = t
  BY <1>6 DEF readFrom
<1>9. t \in StreamType /\ t.pend = "R" /\ t.got = u.got /\ t.dropped = u.dropped /\ t.end = u.end
  BY <1>0, <1>6, SetPend
<1> HIDE DEF t
<1>10. Counted(t)
  BY <1>7, <1>9, CountedKept DEF SameCopied, SameBuffer
<1>11. WriterIdle(s)
  BY RestingWriterIdle
<1>12. Asks(t)
  BY <1>4, <1>6, <1>9, <1>10, <1>11 DEF Asks, WriterIdle
<1>13. Copied(s, "R", <<>>, n, NoReject) = t
  BY <1>8 DEF Copied, u
<1> QED BY <1>4, <1>6, <1>9, <1>12, <1>13 DEF Base

(* What the host writes next: k elements that follow those handed over. *)
Follows(s, values) ==
    /\ values \in Seq(1 .. MaxElem) /\ CountsFrom(values, Base(s))
    /\ Base(s) + Len(values) <= MaxElem

(* setupCopy of the host's write. *)
LEMMA WriteStarts ==
    ASSUME NEW s, Asks(s), NEW values, Follows(s, values)
    PROVE  LET t == setupCopy(s, "W", values, Len(values), NoReject)
           IN  /\ t \in StreamType /\ Counted(t) /\ ~t.dropped /\ t.pend = "R"
               /\ t.end["R"] = s.end["R"]
               /\ t.end["W"].copy = "IDLE" /\ t.end["W"].ev = "none" /\ ~t.end["W"].reclaim
               /\ t.end["W"].cap = Len(values) /\ t.end["W"].done = 0
               /\ t.end["W"].told = s.end["W"].told /\ Base(s) = s.end["W"].told
<1> DEFINE n == Len(values)
           x == [s.end["W"] EXCEPT !.cap = n, !.done = 0, !.data = values, !.reject = NoReject]
           t == [s EXCEPT !.end["W"] = x]
<1>0. "R" \in Ends /\ "W" \in Ends /\ Other("W") = "R" /\ NoReject \in 0 .. NoReject
  BY Bounds DEF Ends, Other
<1>1. s \in StreamType /\ Counted(s) /\ s.end["W"] \in EndType /\ Len(s.got) \in Nat
  BY <1>0, StreamFields DEF Asks
<1>2. s.end["W"].told \in Nat
  BY <1>1, EndFields
<1>3. Base(s) = s.end["W"].told /\ Len(s.got) = s.end["W"].told
  <2>1. s.end["W"].cap = 0 /\ s.end["W"].done = 0
    BY DEF Asks, WriterIdle
  <2>2. s.end["W"].told + s.end["W"].done = Len(s.got)
    BY <1>0, <1>1 DEF Counted
  <2> QED BY <2>1, <2>2, <1>2 DEF Base
<1>4. n \in Nat /\ n \in 0 .. MaxElem /\ values \in Seq(1 .. MaxElem)
  <2>1. values \in Seq(1 .. MaxElem) /\ Base(s) + n <= MaxElem
    BY DEF Follows
  <2>2. n \in Nat
    BY <2>1
  <2> HIDE DEF n
  <2>3. n <= MaxElem
    BY <2>1, <2>2, <1>2, <1>3, Bounds
  <2> QED BY <2>1, <2>2, <2>3, Bounds
<1>5. /\ x \in EndType /\ x.copy = "IDLE" /\ x.ev = "none" /\ ~x.reclaim
      /\ x.cap = n /\ x.done = 0 /\ x.data = values /\ x.told = s.end["W"].told
  <2> HIDE DEF n
  <2> QED BY <1>0, <1>1, <1>4, Bounds DEF EndType, Asks, WriterIdle
<1>6. setupCopy(s, "W", values, n, NoReject) = t
  BY DEF setupCopy
<1> HIDE DEF x
<1>7. /\ t \in StreamType /\ t.pend = s.pend /\ t.got = s.got /\ t.dropped = s.dropped
      /\ t.end["W"] = x /\ t.end["R"] = s.end["R"]
  BY <1>0, <1>1, <1>5, SetEnd
<1> HIDE DEF t
<1>8. Counted(t)
  <2> HIDE DEF n
  <2>1. x.done <= x.cap /\ x.told + x.done = Len(t.got)
    BY <1>2, <1>3, <1>4, <1>5, <1>7
  <2>2. s.end["R"].done <= s.end["R"].cap /\ s.end["R"].told + s.end["R"].done = Len(t.got)
    BY <1>0, <1>1, <1>7 DEF Counted
  <2>3. \A d \in Ends : t.end[d].done <= t.end[d].cap /\ t.end[d].told + t.end[d].done = Len(t.got)
    BY <2>1, <2>2, <1>7 DEF Ends
  <2>4. \A i \in 1 .. Len(t.got) : t.got[i] = i
    BY <1>1, <1>7 DEF Counted
  <2>5. /\ Len(t.end["W"].data) = t.end["W"].cap
        /\ \A i \in 1 .. t.end["W"].cap : t.end["W"].data[i] = t.end["W"].told + i
        /\ t.end["W"].told + t.end["W"].cap <= MaxElem
    BY <1>3, <1>5, <1>7 DEF Follows, CountsFrom, n
  <2> QED BY <2>3, <2>4, <2>5 DEF Counted
<1>9. ~s.dropped /\ s.pend = "R"
  BY DEF Asks
<1> QED BY <1>3, <1>5, <1>6, <1>7, <1>8, <1>9

(* An end that is out of its table's way stays sound: idle without an event. *)
LEMMA IdleIsSound ==
    ASSUME NEW t, NEW e, t.end[e].copy = "IDLE", t.end[e].ev = "none", ~t.end[e].reclaim,
           t.end[e].cap = 0, t.end[e].done = 0, t.pend # e
    PROVE  EndSound(t, e)
BY DEF EndSound, Copies

(* The host's write fills the read that asks: both agree, and the write has  *)
(* taken its own event.                                                      *)
LEMMA HostCopies ==
    ASSUME NEW s, Asks(s), NEW values, Follows(s, values), Len(values) > 0,
           Len(values) <= remaining(s, "R")
    PROVE  LET t == writeMany(s, values)
           IN  /\ Answered(s, t) /\ Base(t) = Base(s) + Len(values)
               /\ t.pend = "R" /\ ~t.dropped
               /\ t.end["R"].cap = s.end["R"].cap
               /\ t.end["R"].done = s.end["R"].done + Len(values)
<1> DEFINE n == Len(values)
           u == setupCopy(s, "W", values, n, NoReject)
           m == move(u, n)
           p == onCopy(m, "R")
           q == onCopyDone(p, "W", "COMPLETED")
           t == getPendingEvent(q, "W")
<1>0. "R" \in Ends /\ "W" \in Ends /\ Other("W") = "R" /\ Other("R") = "W"
  BY DEF Ends, Other
<1>1. /\ u \in StreamType /\ Counted(u) /\ ~u.dropped /\ u.pend = "R"
      /\ u.end["R"] = s.end["R"]
      /\ u.end["W"].copy = "IDLE" /\ u.end["W"].ev = "none" /\ ~u.end["W"].reclaim
      /\ u.end["W"].cap = n /\ u.end["W"].done = 0
      /\ u.end["W"].told = s.end["W"].told /\ Base(s) = s.end["W"].told
  BY WriteStarts
<1>2. /\ n \in Nat /\ n > 0 /\ n <= remaining(u, "R") /\ remaining(u, "R") \in Nat
      /\ s.end["W"].told \in Nat /\ n <= MaxElem
  <2>1. n \in Nat
    BY DEF Follows
  <2>2. remaining(u, "R") = remaining(s, "R")
    BY <1>1 DEF remaining
  <2>3. remaining(u, "R") \in Nat
    BY <1>0, <1>1, RemainingIsNat
  <2>4. u.end["W"].told \in Nat /\ u.end["W"].cap \in 0 .. MaxElem
    BY <1>0, <1>1, StreamFields, EndFields
  <2>5. n <= MaxElem
    BY <2>4, <1>1, Bounds
  <2> QED BY <2>1, <2>2, <2>3, <2>4, <2>5, <1>1
<1>3. remaining(u, "W") = n
  <2> HIDE DEF n, u
  <2> QED BY <1>1, <1>2 DEF remaining
<1>4. ~(n > u.end["R"].reject) /\ n <= u.end["R"].reject
  <2>1. u.end["R"].reject = NoReject /\ NoReject \in Nat /\ MaxElem \in Nat /\ NoReject > MaxElem
    BY <1>1, StreamsAssumption DEF Asks
  <2> HIDE DEF n, u
  <2> QED BY <2>1, <1>2
<1>5. remaining(u, "R") > 0 /\ remaining(u, "R") # 0 /\ Smaller(n, remaining(u, "R")) = n
  <2> DEFINE k == remaining(u, "R")
  <2>1. n \in Nat /\ n > 0 /\ n <= k /\ k \in Nat
    BY <1>2
  <2> HIDE DEF k, n
  <2>2. k > 0 /\ k # 0 /\ Smaller(n, k) = n
    BY <2>1 DEF Smaller
  <2> QED BY <2>2 DEF k
<1>6. u.end["W"].cap # 0
  BY <1>1, <1>2
<1> HIDE DEF n, u
<1>7. writeTo(u) = q
  BY <1>1, <1>2, <1>3, <1>4, <1>5, <1>6 DEF writeTo
<1>8. /\ m \in StreamType /\ Counted(m) /\ m.pend = "R" /\ ~m.dropped
      /\ m.end["R"].copy = s.end["R"].copy /\ m.end["R"].reject = NoReject
      /\ m.end["R"].cap = s.end["R"].cap /\ m.end["R"].done = s.end["R"].done + n
      /\ m.end["W"].copy = "IDLE" /\ ~m.end["W"].reclaim
      /\ m.end["W"].cap = n /\ m.end["W"].told = s.end["W"].told /\ m.end["W"].done = n
  <2>1. n <= remaining(u, "W")
    BY <1>2, <1>3
  <2>2. /\ m \in StreamType /\ Counted(m) /\ m.pend = u.pend /\ m.dropped = u.dropped
        /\ \A e \in Ends : /\ m.end[e].copy = u.end[e].copy
                           /\ m.end[e].reclaim = u.end[e].reclaim
                           /\ m.end[e].reject = u.end[e].reject
                           /\ m.end[e].cap = u.end[e].cap
                           /\ m.end[e].told = u.end[e].told
                           /\ m.end[e].done = u.end[e].done + n
    BY <2>1, <1>1, <1>2, Move
  <2>3. 0 + n = n /\ s.end["R"].reject = NoReject
    BY <1>2 DEF Asks
  <2> HIDE DEF m
  <2> QED BY <2>2, <2>3, <1>0, <1>1
<1> HIDE DEF m
<1>9. /\ p \in StreamType /\ p.pend = "R" /\ ~p.dropped /\ p.end["W"] = m.end["W"]
      /\ SameCopied(m, p)
      /\ p.end["R"].ev = "COMPLETED" /\ p.end["R"].reclaim
      /\ p.end["R"].copy = m.end["R"].copy /\ p.end["R"].reject = NoReject
  BY <1>0, <1>8, OnCopy DEF Touched
<1> HIDE DEF p
<1>10. Counted(p)
  BY <1>8, <1>9, CountedKept
<1>11. /\ q \in StreamType /\ q.pend = "R" /\ ~q.dropped /\ q.end["R"] = p.end["R"]
       /\ SameCopied(p, q)
       /\ q.end["W"].ev = "COMPLETED" /\ ~q.end["W"].reclaim
  <2>1. "COMPLETED" \in Events
    BY DEF Events
  <2>2. Touched(p, q, "W") /\ q.end["W"].ev = "COMPLETED" /\ ~q.end["W"].reclaim
    BY <2>1, <1>0, <1>9, OnCopyDone
  <2> HIDE DEF q
  <2> QED BY <2>2, <1>0, <1>9 DEF Touched
<1> HIDE DEF q
<1>12. Counted(q)
  BY <1>10, <1>11, CountedKept
<1>13. /\ q.end["W"].cap = n /\ q.end["W"].told = s.end["W"].told /\ q.end["W"].done = n
       /\ p.end["R"].cap = s.end["R"].cap /\ p.end["R"].done = s.end["R"].done + n
  BY <1>0, <1>8, <1>9, <1>11 DEF SameCopied, SameBuffer
<1>14. /\ t \in StreamType /\ Counted(t) /\ t.pend = "R" /\ ~t.dropped /\ t.end["R"] = p.end["R"]
       /\ t.end["W"].copy = "IDLE" /\ t.end["W"].ev = "none" /\ ~t.end["W"].reclaim
       /\ t.end["W"].told = s.end["W"].told + n /\ t.end["W"].cap = 0 /\ t.end["W"].done = 0
  BY <1>0, <1>11, <1>12, <1>13, TakenFields
<1>15. writeMany(s, values) = t
  <2>1. ~s.dropped /\ s.end["W"].copy = "IDLE"
    BY DEF Asks, WriterIdle
  <2>2. Copied(s, "W", values, Len(values), NoReject) = q
    BY <1>7 DEF Copied, u, n
  <2>3. TakenOrBlocked(q, "W", "ASYNC_COPYING") = t
    BY <1>11 DEF TakenOrBlocked
  <2> HIDE DEF t
  <2>4. resetWriteEndToIdle(t) = t
    BY <1>14 DEF resetWriteEndToIdle
  <2> QED BY <2>1, <2>2, <2>3, <2>4 DEF writeMany
<1> HIDE DEF t
<1>16. Base(t) = Base(s) + n
  BY <1>1, <1>2, <1>14 DEF Base
<1>17. EndSound(t, "W")
  BY <1>14, IdleIsSound
<1>18. Answered(s, t)
  BY <1>8, <1>9, <1>14, <1>17 DEF Answered, WriterPart
<1> QED BY <1>13, <1>14, <1>15, <1>16, <1>18 DEF n

(* The host's write answers a read of nothing: the read has its event, and   *)
(* the element waits in the writable end.                                    *)
LEMMA HostParks ==
    ASSUME NEW s, Asks(s), NEW values, Follows(s, values), Len(values) = 1,
           s.end["R"].cap = 0
    PROVE  LET t == writeMany(s, values)
           IN  Answered(s, t) /\ Base(t) = Base(s) + 1 /\ t.pend = "W" /\ ~t.dropped
<1> DEFINE u == setupCopy(s, "W", values, Len(values), NoReject)
           v == [u EXCEPT !.pend = "none"]
           p == onCopyDone(v, "R", "COMPLETED")
           q == [p EXCEPT !.pend = "W"]
           t == [q EXCEPT !.end["W"].copy = "ASYNC_COPYING"]
<1>0. /\ "R" \in Ends /\ "W" \in Ends /\ Other("W") = "R" /\ Other("R") = "W"
      /\ "none" \in Ends \cup {"none"} /\ "W" \in Ends \cup {"none"}
      /\ "COMPLETED" \in Events /\ "ASYNC_COPYING" \in CopyStates
  BY DEF Ends, Other, Events, CopyStates
<1>1. /\ u \in StreamType /\ Counted(u) /\ ~u.dropped /\ u.pend = "R"
      /\ u.end["R"] = s.end["R"]
      /\ u.end["W"].copy = "IDLE" /\ u.end["W"].ev = "none" /\ ~u.end["W"].reclaim
      /\ u.end["W"].cap = 1 /\ u.end["W"].done = 0
      /\ u.end["W"].told = s.end["W"].told /\ Base(s) = s.end["W"].told
  BY WriteStarts
<1>2. remaining(u, "R") = 0 /\ ~(remaining(u, "R") > 0)
  BY <1>0, <1>1, NothingLeft
<1> HIDE DEF u
<1>3. writeTo(u) = q
  <2>1. resetAndNotifyPending(u, "COMPLETED") = p
    BY <1>1 DEF resetAndNotifyPending
  <2> HIDE DEF p
  <2>2. u.pend # "none" /\ u.end["W"].cap # 0
    BY <1>1
  <2> QED BY <2>1, <2>2, <1>2 DEF writeTo
<1>4. v \in StreamType /\ v.pend = "none" /\ v.got = u.got /\ ~v.dropped /\ v.end = u.end
  BY <1>0, <1>1, SetPend
<1>5. Counted(v)
  <2> HIDE DEF v
  <2> QED BY <1>1, <1>4, CountedKept DEF SameCopied, SameBuffer
<1> HIDE DEF v
<1>6. /\ Touched(v, p, "R") /\ p.end["R"].ev = "COMPLETED" /\ ~p.end["R"].reclaim
      /\ p.end["R"].copy = v.end["R"].copy /\ p.end["R"].reject = v.end["R"].reject
  BY <1>0, <1>4, OnCopyDone
<1> HIDE DEF p
<1>7. p \in StreamType /\ Counted(p) /\ ~p.dropped /\ p.end["W"] = u.end["W"]
  BY <1>0, <1>4, <1>5, <1>6, CountedKept DEF Touched
<1>8. q \in StreamType /\ q.pend = "W" /\ q.got = p.got /\ ~q.dropped /\ q.end = p.end
  BY <1>0, <1>7, SetPend
<1> HIDE DEF q
<1>9. Counted(q)
  BY <1>7, <1>8, CountedKept DEF SameCopied, SameBuffer
<1>10. /\ Touched(q, t, "W") /\ t.end["W"].copy = "ASYNC_COPYING"
       /\ t.end["W"].ev = q.end["W"].ev /\ t.end["W"].reclaim = q.end["W"].reclaim
  BY <1>0, <1>8, SetCopy
<1>11. writeMany(s, values) = t
  <2>1. ~s.dropped /\ s.end["W"].copy = "IDLE"
    BY DEF Asks, WriterIdle
  <2>2. Copied(s, "W", values, Len(values), NoReject) = q
    BY <1>3 DEF Copied, u
  <2>3. q.end["W"].ev = "none"
    BY <1>1, <1>7, <1>8
  <2>4. TakenOrBlocked(q, "W", "ASYNC_COPYING") = t
    BY <2>3 DEF TakenOrBlocked
  <2> HIDE DEF t
  <2>5. resetWriteEndToIdle(t) = t
    BY <2>3, <1>10 DEF resetWriteEndToIdle
  <2> QED BY <2>1, <2>2, <2>4, <2>5 DEF writeMany
<1> HIDE DEF t
<1>12. /\ t \in StreamType /\ Counted(t) /\ t.pend = "W" /\ ~t.dropped
       /\ t.end["R"] = p.end["R"]
  BY <1>0, <1>8, <1>9, <1>10, CountedKept DEF Touched
<1>13. /\ t.end["W"].cap = 1 /\ t.end["W"].done = 0 /\ t.end["W"].told = s.end["W"].told
       /\ t.end["W"].ev = "none" /\ ~t.end["W"].reclaim
  BY <1>0, <1>1, <1>7, <1>8, <1>10 DEF Touched, SameCopied, SameBuffer
<1>14. EndSound(t, "W")
  BY <1>10, <1>12, <1>13 DEF EndSound, Copies
<1>15. s.end["R"].reject = NoReject
  BY DEF Asks
<1>16. Answered(s, t)
  BY <1>1, <1>4, <1>6, <1>12, <1>13, <1>14, <1>15 DEF Answered, WriterPart
<1>17. Base(t) = Base(s) + 1
  BY <1>1, <1>13 DEF Base
<1> QED BY <1>11, <1>12, <1>16, <1>17

(* The iterator is done and nothing is left: the stream is dropped, and the  *)
(* read that asks is told.                                                   *)
LEMMA HostEnds ==
    ASSUME NEW s, Asks(s)
    PROVE  LET t == Dropped(resetWriteEndToIdle(s))
           IN  Answered(s, t) /\ Base(t) = Base(s) /\ t.pend = "none" /\ t.dropped
<1> DEFINE u == [s EXCEPT !.dropped = TRUE]
           r == CutResult(s, "DROPPED")
           v == [u EXCEPT !.pend = "none"]
           t == onCopyDone(v, "R", r)
<1>0. /\ "R" \in Ends /\ Other("R") = "W" /\ "none" \in Ends \cup {"none"}
      /\ "DROPPED" \in Events \ {"none"}
  BY DEF Ends, Other, Events
<1>1. r \in Events \ {"none"}
  BY <1>0, CutIsEvent
<1>2. s \in StreamType /\ Counted(s) /\ ~s.dropped /\ s.pend = "R" /\ s.end["W"].ev = "none"
  BY DEF Asks, WriterIdle
<1> HIDE DEF r
<1>3. u \in StreamType /\ u.pend = "R" /\ u.got = s.got /\ u.end = s.end /\ u.dropped
  BY <1>2 DEF StreamType
<1>4. Dropped(resetWriteEndToIdle(s)) = t
  <2>1. resetWriteEndToIdle(s) = s
    BY <1>2 DEF resetWriteEndToIdle
  <2>2. Dropped(s) = resetAndNotifyPending(u, r)
    BY <1>2 DEF Dropped, r
  <2>3. resetAndNotifyPending(u, r) = t
    <3> HIDE DEF u
    <3> QED BY <1>3 DEF resetAndNotifyPending, v
  <2> QED BY <2>1, <2>2, <2>3
<1> HIDE DEF u
<1>5. v \in StreamType /\ v.pend = "none" /\ v.got = s.got /\ v.dropped /\ v.end = s.end
  BY <1>0, <1>3, SetPend
<1> HIDE DEF v
<1>6. /\ Touched(v, t, "R") /\ t.end["R"].ev = r /\ ~t.end["R"].reclaim
      /\ t.end["R"].copy = v.end["R"].copy /\ t.end["R"].reject = v.end["R"].reject
  BY <1>0, <1>1, <1>5, OnCopyDone
<1> HIDE DEF t
<1>7. t \in StreamType /\ t.dropped /\ t.pend = "none" /\ t.end["W"] = s.end["W"]
  BY <1>0, <1>5, <1>6 DEF Touched
<1>8. Counted(v)
  BY <1>2, <1>5, CountedKept DEF SameCopied, SameBuffer
<1>9. Counted(t)
  BY <1>6, <1>8, CountedKept DEF Touched
<1>10. EndSound(t, "W")
  BY <1>7, IdleIsSound DEF Asks, WriterIdle
<1>11. s.end["R"].reject = NoReject
  BY DEF Asks
<1>12. Answered(s, t)
  BY <1>1, <1>5, <1>6, <1>7, <1>9, <1>10, <1>11 DEF Answered, WriterPart
<1> QED BY <1>4, <1>7, <1>12 DEF Base

(* An answered read whose state is set leaves the stream sound. *)
LEMMA AnsweredRests ==
    ASSUME NEW s, NEW t, Answered(s, t), Copies(s, "R")
    PROVE  WriterRests(t)
<1>1. Copies(t, "R")
  BY DEF Answered, Copies
<1>2. EndSound(t, "R")
  BY <1>1 DEF Answered, EndSound
<1>3. Good(t)
  BY <1>2 DEF Answered, WriterPart, Good, Sound, Ends
<1> QED BY <1>3 DEF WriterRests, Answered

(* So does one that takes its event at once. *)
LEMMA AnsweredTaken ==
    ASSUME NEW s, NEW t, Answered(s, t)
    PROVE  LET u == getPendingEvent(t, "R")
           IN  WriterRests(u) /\ Base(u) = Base(t) /\ u.pend \in {"none", "W"} \cap {"none", t.pend}
<1> DEFINE u == getPendingEvent(t, "R")
<1>0. "R" \in Ends /\ Other("R") = "W"
  BY DEF Ends, Other
<1>1. t \in StreamType /\ Counted(t) /\ EndSound(t, "W")
  BY DEF Answered, WriterPart
<1>2. Good(u)
  BY <1>0, <1>1, EventTaken DEF Answered, Good
<1>3. /\ u.dropped = t.dropped /\ u.end["W"] = t.end["W"]
      /\ u.end["R"].reject = t.end["R"].reject
      /\ u.pend = IF t.end["R"].reclaim THEN "none" ELSE t.pend
  BY <1>0, <1>1, TakenFields
<1> HIDE DEF u
<1>4. t.pend \in {"R", "W", "none"} /\ (t.end["R"].reclaim <=> t.pend = "R")
  BY <1>1, StreamFields DEF Answered, Ends
<1>5. u.pend \in {"none", "W"} \cap {"none", t.pend} /\ (u.pend = "W" <=> t.pend = "W")
  BY <1>3, <1>4
<1>6. EndSound(u, "W")
  BY <1>2 DEF Good, Sound, Ends
<1>7. WriterPart(u)
  BY <1>3, <1>5, <1>6 DEF Answered, WriterPart
<1>8. WriterRests(u)
  BY <1>2, <1>3, <1>7 DEF WriterRests, Answered
<1>9. Base(u) = Base(t)
  BY <1>3 DEF Base
<1> QED BY <1>5, <1>8, <1>9 DEF u

(* A read that finds the parked element takes it, or, if it is a read of     *)
(* nothing, leaves it; the host's end is idle or parked as before.           *)
LEMMA ReadMeetsParked ==
    ASSUME NEW s, WriterRests(s), ~s.dropped, s.end["R"].copy = "IDLE", s.pend = "W",
           NEW n \in 0 .. MaxElem
    PROVE  LET t == Copied(s, "R", <<>>, n, NoReject)
               v == resetWriteEndToIdle(t)
           IN  t.end["R"].ev # "none" /\ Answered(s, v) /\ Base(v) = Base(s)
<1> DEFINE u == setupCopy(s, "R", <<>>, n, NoReject)
           x == [s.end["R"] EXCEPT !.cap = n, !.done = 0, !.data = <<>>, !.reject = NoReject]
           t == Copied(s, "R", <<>>, n, NoReject)
           v == resetWriteEndToIdle(t)
<1>0. /\ "R" \in Ends /\ "W" \in Ends /\ Other("R") = "W" /\ Other("W") = "R"
      /\ NoReject \in 0 .. NoReject /\ "COMPLETED" \in Events
  BY Bounds DEF Ends, Other, Events
<1>1. s \in StreamType /\ Counted(s) /\ Sound(s) /\ EndSound(s, "R") /\ EndSound(s, "W")
  BY <1>0 DEF WriterRests, Good, Sound
<1>2. /\ s.end["W"].ev = "none" /\ s.end["W"].cap = 1 /\ s.end["W"].done = 0
      /\ ~s.end["W"].reclaim
  BY <1>1 DEF WriterRests, WriterPart, EndSound
<1>3. Ready(u, "R")
  BY <1>0, <1>1, SetupCopy, ReadIsGood
<1>4. s.end["R"] \in EndType
  BY <1>0, <1>1, StreamFields
<1>5. x \in EndType /\ x.cap = n /\ x.done = 0 /\ x.reject = NoReject /\ x.copy = "IDLE"
  <2>1. <<>> \in Seq(1 .. MaxElem)
    OBVIOUS
  <2> QED BY <2>1, <1>0, <1>4, Bounds DEF EndType
<1>6. u = [s EXCEPT !.end["R"] = x]
  BY DEF setupCopy
<1> HIDE DEF x, u
<1>7. /\ u \in StreamType /\ u.pend = "W" /\ ~u.dropped
      /\ u.end["R"] = x /\ u.end["W"] = s.end["W"]
  BY <1>0, <1>1, <1>5, <1>6, SetEnd
<1>8. Counted(u) /\ u.end["R"].ev = "none" /\ ~u.end["R"].reclaim
  BY <1>3 DEF Ready
<1>9. remaining(u, "W") = 1 /\ remaining(u, "R") = n /\ n \in Nat
  <2>1. n \in Nat
    BY Bounds
  <2> QED BY <2>1, <1>2, <1>5, <1>7 DEF remaining
<1>10. ~(1 > u.end["R"].reject) /\ 1 <= u.end["R"].reject
  <2>1. 1 <= NoReject /\ ~(1 > NoReject)
    BY StreamsAssumption
  <2> QED BY <2>1, <1>5, <1>7
<1>11. t = readFrom(u)
  BY DEF Copied, u
<1>12. CASE n = 0
  <2> DEFINE a == onCopyDone(u, "R", "COMPLETED")
  <2>1. readFrom(u) = a
    <3>1. ~(n > 0) /\ 1 > 0
      BY <1>12
    <3> QED BY <3>1, <1>7, <1>9, <1>10, <1>12 DEF readFrom
  <2>2. /\ Touched(u, a, "R") /\ a.end["R"].ev = "COMPLETED" /\ ~a.end["R"].reclaim
        /\ a.end["R"].copy = u.end["R"].copy /\ a.end["R"].reject = u.end["R"].reject
    BY <1>0, <1>7, OnCopyDone
  <2> HIDE DEF a
  <2>3. a \in StreamType /\ Counted(a) /\ a.pend = "W" /\ ~a.dropped /\ a.end["W"] = s.end["W"]
    BY <2>2, <1>0, <1>7, <1>8, CountedKept DEF Touched
  <2>4. resetWriteEndToIdle(a) = a
    BY <2>3, <1>2 DEF resetWriteEndToIdle
  <2>5. EndSound(a, "W")
    BY <2>3, <1>1, <1>2 DEF EndSound, Copies
  <2>6. Answered(s, a)
    BY <2>2, <2>3, <2>5, <1>2, <1>5, <1>7 DEF Answered, WriterPart
  <2>7. Base(a) = Base(s)
    BY <2>3 DEF Base
  <2>8. t = a /\ v = a
    BY <2>1, <2>4, <1>11
  <2> HIDE DEF t, v
  <2>9. t.end["R"].ev # "none" /\ Answered(s, v) /\ Base(v) = Base(s)
    BY <2>2, <2>6, <2>7, <2>8
  <2> QED BY <2>9 DEF t, v
<1>13. CASE n > 0
  <2> DEFINE m == move(u, 1)
             p == onCopy(m, "W")
             q == onCopyDone(p, "R", "COMPLETED")
             w == getPendingEvent(q, "W")
  <2>1. readFrom(u) = q
    <3>1. Smaller(1, n) = 1 /\ 1 > 0
      BY <1>9, <1>13 DEF Smaller
    <3> QED BY <3>1, <1>7, <1>9, <1>10, <1>13 DEF readFrom
  <2>2. /\ m \in StreamType /\ Counted(m) /\ m.pend = "W" /\ ~m.dropped
        /\ m.end["R"].copy = "IDLE" /\ m.end["R"].reject = NoReject
        /\ m.end["W"].cap = 1 /\ m.end["W"].told = s.end["W"].told /\ m.end["W"].done = 1
    <3>1. 1 <= remaining(u, "W") /\ 1 <= remaining(u, "R") /\ 1 \in Nat
      BY <1>9, <1>13
    <3>2. /\ m \in StreamType /\ Counted(m) /\ m.pend = u.pend /\ m.dropped = u.dropped
          /\ \A e \in Ends : /\ m.end[e].copy = u.end[e].copy
                             /\ m.end[e].reject = u.end[e].reject
                             /\ m.end[e].cap = u.end[e].cap
                             /\ m.end[e].told = u.end[e].told
                             /\ m.end[e].done = u.end[e].done + 1
      BY <3>1, <1>7, <1>8, Move
    <3> HIDE DEF m
    <3>3. 0 + 1 = 1
      OBVIOUS
    <3> QED BY <3>2, <3>3, <1>0, <1>2, <1>5, <1>7
  <2> HIDE DEF m
  <2>3. /\ Touched(m, p, "W") /\ p.end["W"].ev = "COMPLETED" /\ p.end["W"].reclaim
        /\ p.end["W"].copy = m.end["W"].copy
    BY <2>2, <1>0, OnCopy
  <2> HIDE DEF p
  <2>4. p \in StreamType /\ Counted(p) /\ p.pend = "W" /\ ~p.dropped /\ p.end["R"] = m.end["R"]
        /\ p.end["W"].cap = 1 /\ p.end["W"].told = s.end["W"].told /\ p.end["W"].done = 1
    <3>1. SameCopied(m, p)
      BY <2>3 DEF Touched
    <3>2. Counted(p)
      BY <3>1, <2>2, CountedKept
    <3> QED BY <3>1, <3>2, <2>2, <2>3, <1>0 DEF Touched, SameCopied, SameBuffer
  <2>5. /\ Touched(p, q, "R") /\ q.end["R"].ev = "COMPLETED" /\ ~q.end["R"].reclaim
        /\ q.end["R"].copy = p.end["R"].copy /\ q.end["R"].reject = p.end["R"].reject
    BY <2>4, <1>0, OnCopyDone
  <2> HIDE DEF q
  <2>6. q \in StreamType /\ Counted(q) /\ q.pend = "W" /\ ~q.dropped /\ q.end["W"] = p.end["W"]
    BY <2>4, <2>5, <1>0, CountedKept DEF Touched
  <2>7. /\ w \in StreamType /\ Counted(w) /\ ~w.dropped /\ w.pend = "none"
        /\ w.end["R"] = q.end["R"]
        /\ w.end["W"].copy = "IDLE" /\ w.end["W"].ev = "none" /\ ~w.end["W"].reclaim
        /\ w.end["W"].told = s.end["W"].told + 1 /\ w.end["W"].cap = 0 /\ w.end["W"].done = 0
    BY <2>3, <2>4, <2>6, <1>0, TakenFields
  <2>8. resetWriteEndToIdle(q) = w
    BY <2>3, <2>6 DEF resetWriteEndToIdle
  <2> HIDE DEF w
  <2>9. EndSound(w, "W")
    BY <2>7, IdleIsSound
  <2>10. Answered(s, w)
    BY <2>2, <2>4, <2>5, <2>7, <2>9 DEF Answered, WriterPart
  <2>11. Base(w) = Base(s)
    <3>1. s.end["W"].told \in Nat
      BY <1>0, <1>1, StreamFields, EndFields
    <3> QED BY <3>1, <2>7, <1>2 DEF Base
  <2>12. t = q /\ v = w
    BY <2>1, <2>8, <1>11
  <2> HIDE DEF t, v
  <2>13. t.end["R"].ev # "none" /\ Answered(s, v) /\ Base(v) = Base(s)
    BY <2>5, <2>10, <2>11, <2>12
  <2> QED BY <2>13 DEF t, v
<1> QED BY <1>9, <1>12, <1>13

-----------------------------------------------------------------------------
(* The values of the host on their way: what the injection holds and the     *)
(* queue go on where the writable end stands, up to what was yielded.        *)
Chain(b, held, q, m) ==
    /\ b \in Nat /\ held \in Seq(1 .. MaxElem) /\ q \in Seq(1 .. MaxElem)
    /\ CountsFrom(held, b) /\ CountsFrom(q, b + Len(held))
    /\ b + Len(held) + Len(q) = m

(* drainInto takes the first elements of a queue and leaves the others. *)
LEMMA Drained ==
    ASSUME NEW q \in Seq(1 .. MaxElem), NEW n \in Nat, NEW b \in Nat, CountsFrom(q, b)
    PROVE  LET d == drainInto(q, n)
               r == Rest(q, n)
           IN  /\ d \in Seq(1 .. MaxElem) /\ r \in Seq(1 .. MaxElem)
               /\ Len(d) = Smaller(n, Len(q)) /\ Len(r) = Len(q) - Len(d)
               /\ CountsFrom(d, b) /\ CountsFrom(r, b + Len(d))
<1> DEFINE k == Smaller(n, Len(q))
           d == SubSeq(q, 1, k)
           r == SubSeq(q, k + 1, Len(q))
<1>1. Len(q) \in Nat
  OBVIOUS
<1>2. k \in Nat /\ k <= Len(q)
  BY <1>1, SmallerFits
<1>3. drainInto(q, n) = d /\ Rest(q, n) = r
  BY DEF drainInto, Rest
<1> HIDE DEF k
<1>0. k \in Int /\ k + 1 \in Int /\ Len(q) \in Int /\ 1 \in Int
      /\ \A i \in 1 .. Len(q) : q[i] \in 1 .. MaxElem
  <2>1. \A i \in 1 .. Len(q) : q[i] \in 1 .. MaxElem
    BY ElementOfSeq
  <2>2. k \in Int /\ k + 1 \in Int /\ Len(q) \in Int /\ 1 \in Int
    BY <1>1, <1>2
  <2> QED BY <2>1, <2>2
<1>4. d \in Seq(1 .. MaxElem) /\ Len(d) = k /\ \A i \in 1 .. k : d[i] = q[i]
  <2>1. \A i \in 1 .. k : q[i] \in 1 .. MaxElem
    BY <1>0, <1>1, <1>2
  <2>2. /\ d \in Seq(1 .. MaxElem) /\ Len(d) = (IF 1 <= k THEN k - 1 + 1 ELSE 0)
        /\ \A i \in 1 .. k - 1 + 1 : d[i] = q[1 + i - 1]
    BY <2>1, <1>0, SubSeqProperties
  <2> HIDE DEF d
  <2> QED BY <2>2, <1>2
<1>5. r \in Seq(1 .. MaxElem) /\ Len(r) = Len(q) - k /\ \A i \in 1 .. Len(q) - k : r[i] = q[k + i]
  <2>1. \A i \in k + 1 .. Len(q) : q[i] \in 1 .. MaxElem
    BY <1>0, <1>1, <1>2
  <2>2. /\ r \in Seq(1 .. MaxElem)
        /\ Len(r) = (IF k + 1 <= Len(q) THEN Len(q) - (k + 1) + 1 ELSE 0)
        /\ \A i \in 1 .. Len(q) - (k + 1) + 1 : r[i] = q[k + 1 + i - 1]
    BY <2>1, <1>0, SubSeqProperties
  <2> HIDE DEF r
  <2>3. Len(q) - (k + 1) + 1 = Len(q) - k /\ (~(k + 1 <= Len(q)) => Len(q) - k = 0)
    BY <1>1, <1>2
  <2>4. \A i \in 1 .. Len(q) - k : k + 1 + i - 1 = k + i
    BY <1>1, <1>2
  <2> QED BY <2>2, <2>3, <2>4
<1> HIDE DEF d, r
<1>6. CountsFrom(d, b)
  BY <1>1, <1>2, <1>4 DEF CountsFrom
<1>7. CountsFrom(r, b + k)
  <2> SUFFICES ASSUME NEW i \in 1 .. Len(r) PROVE r[i] = b + k + i
    BY DEF CountsFrom
  <2>1. r[i] = q[k + i] /\ k + i \in 1 .. Len(q)
    BY <1>1, <1>2, <1>5
  <2>2. q[k + i] = b + (k + i)
    BY <2>1 DEF CountsFrom
  <2> QED BY <2>1, <2>2, <1>1, <1>2, <1>5
<1> QED BY <1>3, <1>4, <1>5, <1>6, <1>7 DEF k

(* Two runs of elements that follow each other are one. *)
LEMMA Joined ==
    ASSUME NEW p \in Seq(1 .. MaxElem), NEW q \in Seq(1 .. MaxElem), NEW b \in Nat,
           CountsFrom(p, b), CountsFrom(q, b + Len(p))
    PROVE  /\ p \o q \in Seq(1 .. MaxElem) /\ Len(p \o q) = Len(p) + Len(q)
           /\ CountsFrom(p \o q, b)
<1>1. Len(p) \in Nat /\ Len(q) \in Nat
  OBVIOUS
<1>2. p \o q \in Seq(1 .. MaxElem) /\ Len(p \o q) = Len(p) + Len(q)
  OBVIOUS
<1>3. CountsFrom(p \o q, b)
  <2> SUFFICES ASSUME NEW i \in 1 .. Len(p \o q) PROVE (p \o q)[i] = b + i
    BY DEF CountsFrom
  <2>1. CASE i <= Len(p)
    <3>1. (p \o q)[i] = p[i] /\ i \in 1 .. Len(p)
      BY <2>1, <1>1, <1>2
    <3> QED BY <3>1 DEF CountsFrom
  <2>2. CASE i > Len(p)
    <3>1. (p \o q)[i] = q[i - Len(p)] /\ i - Len(p) \in 1 .. Len(q)
      BY <2>2, <1>1, <1>2
    <3>2. q[i - Len(p)] = b + Len(p) + (i - Len(p))
      BY <3>1 DEF CountsFrom
    <3>3. b + Len(p) + (i - Len(p)) = b + i
      BY <1>1, <1>2
    <3> QED BY <3>1, <3>2, <3>3
  <2> QED BY <2>1, <2>2, <1>1, <1>2
<1> QED BY <1>2, <1>3

(* What an injection takes from the queue it holds on top of what it held. *)
LEMMA Taken ==
    ASSUME NEW b, NEW held, NEW q, NEW m, Chain(b, held, q, m), NEW n \in Nat
    PROVE  /\ Chain(b, held \o drainInto(q, n), Rest(q, n), m)
           /\ Len(held \o drainInto(q, n)) = Len(held) + Smaller(n, Len(q))
           /\ Len(Rest(q, n)) = Len(q) - Smaller(n, Len(q))
<1> DEFINE d == drainInto(q, n)
           r == Rest(q, n)
           k == b + Len(held)
<1>1. /\ b \in Nat /\ held \in Seq(1 .. MaxElem) /\ q \in Seq(1 .. MaxElem)
      /\ CountsFrom(held, b) /\ CountsFrom(q, k) /\ b + Len(held) + Len(q) = m
  BY DEF Chain
<1>2. Len(held) \in Nat /\ Len(q) \in Nat
  BY <1>1
<1>3. k \in Nat
  BY <1>1, <1>2
<1>4. /\ d \in Seq(1 .. MaxElem) /\ r \in Seq(1 .. MaxElem)
      /\ Len(d) = Smaller(n, Len(q)) /\ Len(r) = Len(q) - Len(d)
      /\ CountsFrom(d, k) /\ CountsFrom(r, k + Len(d))
  <2> HIDE DEF k
  <2> QED BY <1>1, <1>3, Drained
<1> HIDE DEF d, r
<1>5. Len(d) \in Nat /\ Len(r) \in Nat
  BY <1>4
<1>6. /\ held \o d \in Seq(1 .. MaxElem) /\ Len(held \o d) = Len(held) + Len(d)
      /\ CountsFrom(held \o d, b)
  BY <1>1, <1>4, Joined
<1>7. b + Len(held \o d) = k + Len(d) /\ b + Len(held \o d) + Len(r) = m
  BY <1>1, <1>2, <1>4, <1>5, <1>6
<1>8. Chain(b, held \o d, r, m)
  BY <1>1, <1>4, <1>6, <1>7 DEF Chain
<1> QED BY <1>4, <1>6, <1>8 DEF d, r

(* If it then has nothing, it held nothing and there was nothing to take.    *)
LEMMA TookNothing ==
    ASSUME NEW b, NEW held, NEW q, NEW m, Chain(b, held, q, m), NEW n \in Nat
    PROVE  held \o drainInto(q, n) = <<>> => held = <<>> /\ Smaller(n, Len(q)) = 0
<1> DEFINE k == Smaller(n, Len(q))
           d == drainInto(q, n)
<1>1. Len(held \o d) = Len(held) + k
  BY Taken
<1>2. held \in Seq(1 .. MaxElem) /\ q \in Seq(1 .. MaxElem)
  BY DEF Chain
<1>3. Len(held) \in Nat /\ Len(q) \in Nat
  BY <1>2
<1>4. k \in Nat
  BY <1>3, SmallerFits
<1> HIDE DEF k, d
<1>5. held \o d = <<>> => Len(held) = 0 /\ k = 0
  <2>1. held \o d = <<>> => Len(held \o d) = 0
    OBVIOUS
  <2> QED BY <2>1, <1>1, <1>3, <1>4
<1> QED BY <1>2, <1>5, EmptySeq DEF k, d

(* So does one that held nothing. *)
LEMMA TakenFirst ==
    ASSUME NEW b, NEW q, NEW m, Chain(b, <<>>, q, m), NEW n \in Nat
    PROVE  /\ Chain(b, drainInto(q, n), Rest(q, n), m)
           /\ Len(drainInto(q, n)) = Smaller(n, Len(q))
           /\ Len(Rest(q, n)) = Len(q) - Smaller(n, Len(q))
<1> DEFINE d == drainInto(q, n)
           r == Rest(q, n)
<1>1. PICK h : h = <<>>
  OBVIOUS
<1>2. Chain(b, h, q, m)
  BY <1>1
<1>3. Chain(b, h \o d, r, m) /\ Len(r) = Len(q) - Smaller(n, Len(q))
      /\ Len(h \o d) = Len(h) + Smaller(n, Len(q))
  BY <1>2, Taken
<1>4. q \in Seq(1 .. MaxElem) /\ CountsFrom(q, b + Len(h)) /\ b \in Nat /\ Len(h) = 0
  BY <1>1, <1>2 DEF Chain
<1>5. b + Len(h) \in Nat
  BY <1>4
<1>6. d \in Seq(1 .. MaxElem)
  BY <1>4, <1>5, Drained
<1> HIDE DEF d, r
<1>7. h \o d = d
  BY <1>1, <1>6
<1>8. Chain(b, d, r, m)
  BY <1>3, <1>7
<1>9. Len(d) = Smaller(n, Len(q))
  <2>0. Len(q) \in Nat
    BY <1>4
  <2>1. Smaller(n, Len(q)) \in Nat
    BY <2>0, SmallerFits
  <2> QED BY <2>1, <1>3, <1>4, <1>7
<1> QED BY <1>3, <1>8, <1>9 DEF d, r

(* One element of a queue that has some. *)
LEMMA SmallerOne ==
    ASSUME NEW q \in Seq(1 .. MaxElem), q # <<>>
    PROVE  Smaller(1, Len(q)) = 1
<1> DEFINE n == Len(q)
<1>1. n \in Nat \ {0}
  BY EmptySeq
<1> HIDE DEF n
<1>2. Smaller(1, n) = 1
  BY <1>1 DEF Smaller
<1> QED BY <1>2 DEF n

(* bail puts the values back in front of the queue. *)
LEMMA PutBack ==
    ASSUME NEW b, NEW held, NEW q, NEW m, Chain(b, held, q, m)
    PROVE  Chain(b, <<>>, bail(held, q), m)
<1>1. /\ b \in Nat /\ held \in Seq(1 .. MaxElem) /\ q \in Seq(1 .. MaxElem)
      /\ CountsFrom(held, b) /\ CountsFrom(q, b + Len(held)) /\ b + Len(held) + Len(q) = m
  BY DEF Chain
<1>2. Len(held) \in Nat /\ Len(q) \in Nat
  BY <1>1
<1>3. /\ held \o q \in Seq(1 .. MaxElem) /\ Len(held \o q) = Len(held) + Len(q)
      /\ CountsFrom(held \o q, b)
  BY <1>1, Joined
<1>4. <<>> \in Seq(1 .. MaxElem) /\ Len(<<>>) = 0 /\ CountsFrom(<<>>, b)
  BY DEF CountsFrom
<1>5. b + Len(<<>>) = b /\ b + Len(<<>>) + Len(held \o q) = m
  BY <1>1, <1>2, <1>3, <1>4
<1> QED BY <1>1, <1>3, <1>4, <1>5 DEF Chain, bail

(* What was held goes to the writable end. *)
LEMMA HandedOver ==
    ASSUME NEW b, NEW held, NEW q, NEW m, Chain(b, held, q, m)
    PROVE  Chain(b + Len(held), <<>>, q, m)
<1>1. /\ b \in Nat /\ held \in Seq(1 .. MaxElem) /\ q \in Seq(1 .. MaxElem)
      /\ CountsFrom(q, b + Len(held)) /\ b + Len(held) + Len(q) = m
  BY DEF Chain
<1>2. Len(held) \in Nat /\ Len(q) \in Nat
  BY <1>1
<1>3. <<>> \in Seq(1 .. MaxElem) /\ Len(<<>>) = 0 /\ CountsFrom(<<>>, b + Len(held))
  BY DEF CountsFrom
<1>4. b + Len(held) \in Nat /\ b + Len(held) + Len(<<>>) = b + Len(held)
  BY <1>1, <1>2, <1>3
<1> QED BY <1>1, <1>3, <1>4 DEF Chain

(* A chain up to what was yielded is what the host may write. *)
LEMMA ChainFollows ==
    ASSUME NEW s, NEW held, NEW q, NEW m \in Nat, m <= MaxElem, Chain(Base(s), held, q, m)
    PROVE  Follows(s, held)
<1> DEFINE b == Base(s)
<1>1. /\ b \in Nat /\ held \in Seq(1 .. MaxElem) /\ q \in Seq(1 .. MaxElem)
      /\ CountsFrom(held, b) /\ b + Len(held) + Len(q) = m
  BY DEF Chain
<1>2. Len(held) \in Nat /\ Len(q) \in Nat
  BY <1>1
<1>3. b + Len(held) <= MaxElem
  <2> HIDE DEF b
  <2> QED BY <1>1, <1>2, Bounds
<1> QED BY <1>1, <1>3 DEF Follows

(* The values of an injection that stops waiting are written, or the stream  *)
(* ends: the read has its answer and no value is lost.                       *)
LEMMA FinishAnswers ==
    ASSUME NEW s, Asks(s), NEW values, NEW q, NEW m \in Nat, m <= MaxElem,
           Chain(Base(s), values, q, m), values = <<>> => src.done,
           Len(values) <= remaining(s, "R")
    PROVE  LET r == Finish(s, q, values)
           IN  /\ Answered(s, r.c) /\ Chain(Base(r.c), <<>>, r.q, m)
               /\ r.q = q /\ r.c.pend \in {"none", "R"}
               /\ r.c.pend = "R" => /\ values # <<>> /\ r.c.end["R"].cap = s.end["R"].cap
                                    /\ r.c.end["R"].done = s.end["R"].done + Len(values)
<1>0. s.pend = "R"
  BY DEF Asks
<1>1. CASE values = <<>>
  <2> DEFINE t == Dropped(resetWriteEndToIdle(s))
  <2>1. Finish(s, q, values) = [c |-> t, q |-> q]
    BY <1>1 DEF Finish
  <2>2. Answered(s, t) /\ Base(t) = Base(s) /\ t.pend = "none" /\ t.dropped
    BY HostEnds
  <2> HIDE DEF t
  <2> QED BY <2>1, <2>2, <1>1
<1>2. CASE values # <<>>
  <2> DEFINE t == writeMany(s, values)
  <2>1. Finish(s, q, values) = [c |-> t, q |-> q]
    BY <1>0, <1>2 DEF Finish
  <2>2. Follows(s, values)
    BY ChainFollows
  <2>3. Len(values) > 0
    BY <2>2, <1>2 DEF Follows
  <2>4. /\ Answered(s, t) /\ Base(t) = Base(s) + Len(values)
        /\ t.pend = "R" /\ ~t.dropped
        /\ t.end["R"].cap = s.end["R"].cap
        /\ t.end["R"].done = s.end["R"].done + Len(values)
    BY <2>2, <2>3, HostCopies
  <2> HIDE DEF t
  <2>5. Chain(Base(t), <<>>, q, m)
    BY <2>4, HandedOver
  <2> QED BY <2>1, <2>4, <2>5, <1>2
<1> QED BY <1>1, <1>2

(* The injection of a read of nothing parks one element, or ends the stream. *)
LEMMA FinishZeroAnswers ==
    ASSUME NEW s, Asks(s), s.end["R"].cap = 0, NEW q, NEW m \in Nat, m <= MaxElem,
           Chain(Base(s), <<>>, q, m), q = <<>> => src.done
    PROVE  LET r == FinishZero(s, q)
           IN  /\ Answered(s, r.c) /\ Chain(Base(r.c), <<>>, r.q, m)
               /\ r.c.pend \in {"none", "W"}
<1>1. CASE q = <<>>
  <2> DEFINE t == Dropped(resetWriteEndToIdle(s))
  <2>1. FinishZero(s, q) = [c |-> t, q |-> q]
    BY <1>1 DEF FinishZero
  <2>2. Answered(s, t) /\ Base(t) = Base(s) /\ t.pend = "none" /\ t.dropped
    BY HostEnds
  <2> HIDE DEF t
  <2> QED BY <2>1, <2>2
<1>2. CASE q # <<>>
  <2> DEFINE d == drainInto(q, 1)
             t == writeMany(s, d)
  <2>1. FinishZero(s, q) = [c |-> t, q |-> Rest(q, 1)]
    BY <1>2 DEF FinishZero
  <2>2. q \in Seq(1 .. MaxElem)
    BY DEF Chain
  <2>3. Smaller(1, Len(q)) = 1
    BY <2>2, <1>2, SmallerOne
  <2>4. 1 \in Nat
    OBVIOUS
  <2>5. Chain(Base(s), d, Rest(q, 1), m) /\ Len(d) = Smaller(1, Len(q))
    BY <2>4, TakenFirst
  <2> HIDE DEF d
  <2>6. Chain(Base(s), d, Rest(q, 1), m) /\ Len(d) = 1
    BY <2>3, <2>5
  <2>7. Follows(s, d)
    BY <2>6, ChainFollows
  <2>8. Answered(s, t) /\ Base(t) = Base(s) + 1 /\ t.pend = "W" /\ ~t.dropped
    BY <2>6, <2>7, HostParks
  <2> HIDE DEF t
  <2>9. Chain(Base(t), <<>>, Rest(q, 1), m)
    BY <2>6, <2>8, HandedOver
  <2> QED BY <2>1, <2>8, <2>9
<1> QED BY <1>1, <1>2

(* A write of nothing answers itself and leaves the read that asks waiting. *)
LEMMA WriteNothing ==
    ASSUME NEW s, WriterRests(s), Asks(s), s.end["R"].done = 0
    PROVE  LET t == writeMany(s, <<>>)
           IN  WriterRests(t) /\ Base(t) = Base(s) /\ t.pend = "R" /\ t.end["R"] = s.end["R"]
<1> DEFINE u == setupCopy(s, "W", <<>>, 0, NoReject)
           q == onCopyDone(u, "W", "COMPLETED")
           t == getPendingEvent(q, "W")
<1>0. "R" \in Ends /\ "W" \in Ends /\ Other("W") = "R" /\ Len(<<>>) = 0
  BY DEF Ends, Other
<1>1. /\ u \in StreamType /\ Counted(u) /\ ~u.dropped /\ u.pend = "R"
      /\ u.end["R"] = s.end["R"]
      /\ u.end["W"].copy = "IDLE" /\ u.end["W"].ev = "none" /\ ~u.end["W"].reclaim
      /\ u.end["W"].cap = 0 /\ u.end["W"].done = 0
      /\ u.end["W"].told = s.end["W"].told /\ Base(s) = s.end["W"].told
  <2>1. PICK e : e = <<>>
    OBVIOUS
  <2>2. Base(s) \in Nat /\ Base(s) <= MaxElem
    <3>1. s \in StreamType /\ Counted(s) /\ s.end["W"].cap = 0
      BY DEF Asks, WriterIdle
    <3>2. s.end["W"].told \in 0 .. MaxElem
      BY <3>1, <1>0, StreamFields, EndFields
    <3> QED BY <3>1, <3>2, Bounds DEF Base
  <2>3. Follows(s, e)
    <3>1. e \in Seq(1 .. MaxElem) /\ Len(e) = 0
      BY <2>1
    <3>2. \A i \in 1 .. Len(e) : e[i] = Base(s) + i
      BY <3>1
    <3>3. Base(s) + Len(e) <= MaxElem
      BY <3>1, <2>2
    <3> QED BY <3>1, <3>2, <3>3 DEF Follows, CountsFrom
  <2>4. u = setupCopy(s, "W", e, Len(e), NoReject)
    BY <2>1, <1>0
  <2> HIDE DEF u
  <2>5. Len(e) = 0
    BY <2>1
  <2> QED BY <2>3, <2>4, <2>5, WriteStarts
<1> HIDE DEF u
<1>2. writeTo(u) = q
  <2>1. remaining(u, "W") = 0
    BY <1>1 DEF remaining
  <2>2. /\ u.end["R"].done = 0 /\ u.end["R"].cap \in Nat
        /\ u.end["R"].reject \in Nat
    <3>1. u.end["R"].cap \in 0 .. MaxElem /\ u.end["R"].reject \in 0 .. NoReject
      BY <1>0, <1>1, StreamFields, EndFields DEF EndType
    <3> QED BY <3>1, <1>1, Bounds
  <2>3. remaining(u, "R") = u.end["R"].cap
    BY <2>2 DEF remaining
  <2>4. CASE u.end["R"].cap = 0
    <3>1. ~(remaining(u, "R") > 0)
      BY <2>3, <2>4
    <3> QED BY <3>1, <2>4, <1>1 DEF writeTo
  <2>5. CASE u.end["R"].cap # 0
    <3>1. remaining(u, "R") > 0 /\ remaining(u, "R") # 0 /\ ~(0 > u.end["R"].reject) /\ ~(0 > 0)
      BY <2>2, <2>3, <2>5
    <3> QED BY <3>1, <2>1, <2>5, <1>1 DEF writeTo
  <2> QED BY <2>4, <2>5
<1>3. Touched(u, q, "W") /\ q.end["W"].ev = "COMPLETED" /\ ~q.end["W"].reclaim
  <2>1. "COMPLETED" \in Events
    BY DEF Events
  <2> QED BY <2>1, <1>0, <1>1, OnCopyDone
<1> HIDE DEF q
<1>4. /\ q \in StreamType /\ Counted(q) /\ ~q.dropped /\ q.pend = "R"
      /\ q.end["R"] = s.end["R"] /\ q.end["W"].told = s.end["W"].told
      /\ q.end["W"].cap = 0 /\ q.end["W"].done = 0
  BY <1>0, <1>1, <1>3, CountedKept DEF Touched, SameCopied, SameBuffer
<1>5. /\ t \in StreamType /\ Counted(t) /\ t.pend = "R" /\ ~t.dropped
      /\ t.end["R"] = s.end["R"]
      /\ t.end["W"].copy = "IDLE" /\ t.end["W"].ev = "none" /\ ~t.end["W"].reclaim
      /\ t.end["W"].told = s.end["W"].told + 0 /\ t.end["W"].cap = 0 /\ t.end["W"].done = 0
  BY <1>0, <1>3, <1>4, TakenFields
<1>6. writeMany(s, <<>>) = t
  <2>1. ~s.dropped /\ s.end["W"].copy = "IDLE"
    BY DEF Asks, WriterIdle
  <2>2. Copied(s, "W", <<>>, Len(<<>>), NoReject) = q
    BY <1>0, <1>2 DEF Copied, u
  <2>3. TakenOrBlocked(q, "W", "ASYNC_COPYING") = t
    BY <1>3 DEF TakenOrBlocked
  <2> HIDE DEF t
  <2>4. resetWriteEndToIdle(t) = t
    BY <1>5 DEF resetWriteEndToIdle
  <2> QED BY <2>1, <2>2, <2>3, <2>4 DEF writeMany
<1> HIDE DEF t
<1>7. Base(t) = Base(s)
  <2>1. s.end["W"].told \in Nat /\ s.end["W"].cap = 0
    BY <1>0, <1>1, StreamFields, EndFields, Bounds DEF Asks, WriterIdle
  <2> QED BY <2>1, <1>5 DEF Base
<1>8. EndSound(t, "W")
  BY <1>5, IdleIsSound
<1>9. EndSound(t, "R")
  <2>1. EndSound(s, "R") /\ s.pend = "R"
    BY <1>0 DEF WriterRests, Good, Sound, Asks
  <2> QED BY <2>1, <1>5 DEF EndSound, Copies, Asks
<1>10. WriterRests(t)
  BY <1>5, <1>8, <1>9 DEF WriterRests, WriterPart, Good, Sound, Ends, Asks
<1> QED BY <1>5, <1>6, <1>7, <1>10 DEF t

-----------------------------------------------------------------------------
(* The invariant of a stream that the host writes. *)

(* The lengths of reads that may be cancelled without losing elements.       *)
SingleCancels == mode = "hostWriterCancel" => CancelCounts \subseteq {1}

InjectionType == [zero : BOOLEAN, want : Nat, values : Seq(1 .. MaxElem), woken : BOOLEAN]

(* What the injections hold: only the oldest has values. *)
HeldBy(j) == IF j = <<>> THEN <<>> ELSE j[1].values

SourceType ==
    [queue : Seq(1 .. MaxElem), next : Nat, reading : BOOLEAN, done : BOOLEAN,
     last : {"none", "values", "nothing", "thrown"}, error : BOOLEAN]

Flow ==
    /\ src \in SourceType
    /\ src.next >= 1 /\ src.next - 1 <= MaxElem
    /\ Chain(Base(c), HeldBy(inj), src.queue, src.next - 1)

(* The read an injection was started for still waits for it, with room for   *)
(* all it may get.                                                           *)
ServesRead(s, i) ==
    /\ s.pend = "R" /\ s.end["R"].ev = "none" /\ s.end["R"].done = 0
    /\ s.end["R"].cap >= i.want + Len(i.values)
    /\ i.zero => s.end["R"].cap = 0

(* Without cancellation there is one injection, for the read that waits, and *)
(* the iterator is read only for it.                                         *)
Lone ==
    /\ timer = 0 /\ Len(inj) <= 1
    /\ inj # <<>> => ServesRead(c, inj[1])
    /\ src.reading => inj # <<>> /\ ~inj[1].woken

(* A read of one element that waits, or was answered and not told. *)
OneRead(s) ==
    s.pend = "R" => /\ s.end["R"].cap = 1
                    /\ s.end["R"].ev = "none" => s.end["R"].done = 0
                    /\ s.end["R"].ev # "none" => s.end["R"].done = 1

(* With cancellation, an injection waits with empty hands, and a value that  *)
(* came while a read waits finds an injection that was woken and takes it.   *)
Singly ==
    /\ \A i \in 1 .. Len(inj) : ~inj[i].zero /\ inj[i].values = <<>> /\ inj[i].want = 1
    /\ c.pend # "W" /\ OneRead(c) /\ Len(src.queue) <= 1
    /\ src.queue # <<>> /\ c.pend = "R" /\ c.end["R"].ev = "none" =>
          \E i \in 1 .. Len(inj) : inj[i].woken
    /\ src.reading => src.queue = <<>> /\ \E i \in 1 .. Len(inj) : ~inj[i].woken
    /\ inj # <<>> => 1 <= MaxElem
    /\ src.last # "thrown"

HostState ==
    /\ WriterRests(c) /\ Flow /\ inj \in Seq(InjectionType)
    /\ \A i \in 1 .. HostReads : host.st[i] = "new"
    /\ mode = "hostWriter" => Lone
    /\ mode = "hostWriterCancel" => Singly

(* The iterator threw and its injection is gone: the read waits for good. *)
HostStopped ==
    /\ mode = "hostWriter" /\ src.last = "thrown" /\ ~src.reading /\ inj = <<>> /\ timer = 0
    /\ src \in SourceType /\ src.next >= 1 /\ src.next - 1 <= MaxElem
    /\ \A i \in 1 .. HostReads : host.st[i] = "new"
    /\ WriterRests(c) /\ c.pend = "R" /\ c.end["R"].ev = "none"

HostInv == Injected /\ SingleCancels => HostState \/ HostStopped

(* Injections that hold nothing. *)
LEMMA HoldNothing ==
    ASSUME NEW j \in Seq(InjectionType), \A i \in 1 .. Len(j) : j[i].values = <<>>
    PROVE  HeldBy(j) = <<>>
<1>1. j # <<>> => 1 \in 1 .. Len(j)
  BY EmptySeq
<1> QED BY <1>1 DEF HeldBy

(* A step of the reader that leaves the host's end and the elements alone. *)
ReaderMoves(s, t) ==
    /\ WriterRests(t) /\ Base(t) = Base(s)
    /\ \/ t.pend = "none"
       \/ /\ t.pend = s.pend
          /\ s.pend = "R" => /\ t.end["R"].ev = s.end["R"].ev
                             /\ t.end["R"].cap = s.end["R"].cap
                             /\ t.end["R"].done = s.end["R"].done

(* Such a step keeps the invariant. *)
LEMMA ReaderStep ==
    ASSUME HostState, ReaderMoves(c, c'), UNCHANGED <<mode, host, src, inj>>,
           mode = "hostWriter" => inj = <<>> /\ timer' = 0
    PROVE  HostState'
<1>1. WriterRests(c') /\ Base(c') = Base(c)
  BY DEF ReaderMoves
<1>2. Flow'
  BY <1>1 DEF HostState, Flow
<1>3. inj' \in Seq(InjectionType) /\ \A i \in 1 .. HostReads : host'.st[i] = "new"
  BY DEF HostState
<1>4. (mode = "hostWriter" => Lone)'
  <2>1. mode = "hostWriter" => Len(<<>>) <= 1
    OBVIOUS
  <2>2. mode = "hostWriter" => ~src.reading
    BY DEF HostState, Lone
  <2> QED BY <2>1, <2>2 DEF Lone
<1>5. (mode = "hostWriterCancel" => Singly)'
  <2> SUFFICES ASSUME mode = "hostWriterCancel" PROVE Singly'
    OBVIOUS
  <2>1. Singly
    BY DEF HostState
  <2>2. c'.pend # "W" /\ OneRead(c)'
    BY <2>1, TwoEnds DEF Singly, ReaderMoves, OneRead
  <2>3. c'.pend = "R" /\ c'.end["R"].ev = "none" => c.pend = "R" /\ c.end["R"].ev = "none"
    BY DEF ReaderMoves
  <2> QED BY <2>1, <2>2, <2>3 DEF Singly
<1> QED BY <1>1, <1>2, <1>3, <1>4, <1>5 DEF HostState

(* The host's end is as it was. *)
LEMMA WriterKept ==
    ASSUME NEW s, NEW t, WriterRests(s), Good(t), t.end["W"] = s.end["W"],
           t.dropped = s.dropped, t.pend = "W" <=> s.pend = "W",
           t.end["R"].reject = s.end["R"].reject
    PROVE  WriterRests(t) /\ Base(t) = Base(s)
<1>1. EndSound(t, "W")
  BY DEF Good, Sound, Ends
<1>2. WriterPart(t)
  BY <1>1 DEF WriterRests, WriterPart
<1> QED BY <1>2 DEF WriterRests, Base

(* The guest takes the event of its read. *)
LEMMA TakeMoves ==
    ASSUME NEW s, WriterRests(s), s.end["R"].ev # "none"
    PROVE  ReaderMoves(s, getPendingEvent(s, "R"))
<1> DEFINE t == getPendingEvent(s, "R")
<1>0. "R" \in Ends /\ Other("R") = "W" /\ "W" # "none"
  BY DEF Ends, Other
<1>1. Good(s) /\ s \in StreamType /\ Counted(s) /\ EndSound(s, "R")
  BY <1>0 DEF WriterRests, Good, Sound
<1>2. Good(t)
  BY <1>0, <1>1, TakeKeeps
<1>3. /\ t.dropped = s.dropped /\ t.end["W"] = s.end["W"]
      /\ t.end["R"].reject = s.end["R"].reject
      /\ t.pend = IF s.end["R"].reclaim THEN "none" ELSE s.pend
  BY <1>0, <1>1, TakenFields
<1>4. s.end["R"].reclaim <=> s.pend = "R"
  BY <1>1 DEF EndSound
<1> HIDE DEF t
<1>5. WriterRests(t) /\ Base(t) = Base(s)
  BY <1>2, <1>3, <1>4, WriterKept
<1>6. t.pend = "none" \/ (t.pend = s.pend /\ s.pend # "R")
  BY <1>3, <1>4
<1>7. ReaderMoves(s, t)
  BY <1>5, <1>6 DEF ReaderMoves
<1> QED BY <1>7 DEF t

(* The guest reads a dropped stream. *)
LEMMA DoneMoves ==
    ASSUME NEW s, WriterRests(s), s.dropped
    PROVE  ReaderMoves(s, [s EXCEPT !.end["R"].copy = "DONE"])
<1> DEFINE t == [s EXCEPT !.end["R"].copy = "DONE"]
<1>0. "R" \in Ends /\ Other("R") = "W" /\ "DONE" \in CopyStates
  BY DEF Ends, Other, CopyStates
<1>1. Good(s) /\ s \in StreamType /\ s.pend = "none"
  BY DEF WriterRests, Good, Sound
<1>2. Good(t)
  BY <1>0, <1>1, DoneKeeps
<1>3. Touched(s, t, "R") /\ t.end["R"].reject = s.end["R"].reject
  BY <1>0, <1>1, SetCopy
<1> HIDE DEF t
<1>4. t.pend = "none" /\ t.dropped = s.dropped /\ t.end["W"] = s.end["W"]
  BY <1>0, <1>1, <1>3 DEF Touched
<1>5. WriterRests(t) /\ Base(t) = Base(s)
  BY <1>1, <1>2, <1>3, <1>4, WriterKept
<1>6. ReaderMoves(s, t)
  BY <1>4, <1>5 DEF ReaderMoves
<1> QED BY <1>6 DEF t

(* The guest cancels its read: it takes its event, or is marked.             *)
LEMMA CancelMoves ==
    ASSUME NEW s, WriterRests(s), s.end["R"].copy = "ASYNC_COPYING"
    PROVE  LET t == [s EXCEPT !.end["R"].copy = "CANCELLING_COPY"]
           IN  /\ t.end["R"].ev # "none" => ReaderMoves(s, getPendingEvent(t, "R"))
               /\ t.end["R"].ev = "none" => ReaderMoves(s, t)
<1> DEFINE t == [s EXCEPT !.end["R"].copy = "CANCELLING_COPY"]
<1>0. "R" \in Ends /\ Other("R") = "W"
  BY DEF Ends, Other
<1>1. /\ Good(t) /\ Touched(s, t, "R") /\ t.end["R"].copy = "CANCELLING_COPY"
      /\ t.end["R"].ev = s.end["R"].ev /\ t.end["R"].reclaim = s.end["R"].reclaim
      /\ t.end["R"].reject = s.end["R"].reject
  BY <1>0, CancellingGood DEF WriterRests
<1> HIDE DEF t
<1>2. t.pend = s.pend /\ t.dropped = s.dropped /\ t.end["W"] = s.end["W"]
  BY <1>0, <1>1 DEF Touched
<1>3. t.end["R"].cap = s.end["R"].cap /\ t.end["R"].done = s.end["R"].done
  BY <1>0, <1>1 DEF Touched, SameCopied, SameBuffer
<1>4. WriterRests(t) /\ Base(t) = Base(s)
  BY <1>1, <1>2, WriterKept
<1>5. ReaderMoves(s, t)
  BY <1>1, <1>2, <1>3, <1>4 DEF ReaderMoves
<1>6. t.end["R"].ev # "none" => ReaderMoves(s, getPendingEvent(t, "R"))
  <2> SUFFICES ASSUME t.end["R"].ev # "none" PROVE ReaderMoves(s, getPendingEvent(t, "R"))
    OBVIOUS
  <2>1. PICK u : u = getPendingEvent(t, "R")
    OBVIOUS
  <2>2. ReaderMoves(t, u)
    BY <2>1, <1>4, TakeMoves
  <2>3. EndSound(t, "R") /\ Good(t)
    BY <1>0, <1>1 DEF Good, Sound
  <2>4. u.pend = (IF t.end["R"].reclaim THEN "none" ELSE t.pend)
    BY <2>1, <2>3, <1>0, TakenFields DEF Good
  <2>5. u.pend = "none" \/ (u.pend = s.pend /\ s.pend # "R")
    BY <2>3, <2>4, <1>2 DEF EndSound
  <2>6. ReaderMoves(s, u)
    BY <2>2, <2>5, <1>4 DEF ReaderMoves
  <2> QED BY <2>1, <2>6
<1> QED BY <1>5, <1>6 DEF t

(* The owner of the pending buffer is told that the operation ended. *)
LEMMA NotifiedKeeps ==
    ASSUME NEW s \in StreamType, NEW r \in Events \ {"none"}, \A e \in Ends : EndSound(s, e)
    PROVE  LET t == resetAndNotifyPending(s, r)
           IN  /\ t \in StreamType /\ t.pend = "none" /\ t.dropped = s.dropped
               /\ SameCopied(s, t) /\ (s.pend # "W" => t.end["W"] = s.end["W"])
               /\ t.end["R"].reject = s.end["R"].reject
               /\ \A e \in Ends : EndSound(t, e)
<1> DEFINE t == resetAndNotifyPending(s, r)
<1>1. CASE s.pend = "none"
  <2>1. t = s
    BY <1>1 DEF resetAndNotifyPending
  <2> QED BY <2>1, <1>1 DEF SameCopied, SameBuffer
<1>2. CASE s.pend # "none"
  <2>0. PICK o : o = s.pend
    OBVIOUS
  <2>1. o \in Ends /\ EndSound(s, o) /\ EndSound(s, Other(o)) /\ o # "none"
        /\ Other(o) # o /\ Other(o) # "none" /\ Ends = {o, Other(o)}
    BY <2>0, <1>2, StreamFields, TwoEnds
  <2>2. /\ t \in StreamType /\ t.pend = "none" /\ t.dropped = s.dropped
        /\ t.end[Other(o)] = s.end[Other(o)] /\ t.end[o].reject = s.end[o].reject
        /\ SameCopied(s, t) /\ EndSound(t, o)
    BY <2>0, <2>1, <1>2, PendingNotified
  <2> HIDE DEF t
  <2>3. EndSound(t, Other(o))
    BY <2>0, <2>1, <2>2 DEF EndSound, Copies
  <2>4. s.pend # "W" => t.end["W"] = s.end["W"]
    BY <2>0, <2>1, <2>2 DEF Ends, Other
  <2>5. t.end["R"].reject = s.end["R"].reject
    BY <2>1, <2>2 DEF Ends, Other
  <2>6. \A e \in Ends : EndSound(t, e)
    BY <2>1, <2>2, <2>3
  <2> QED BY <2>2, <2>4, <2>5, <2>6 DEF t
<1> QED BY <1>1, <1>2

(* The guest drops its end: the host's write, if any is parked, is told. *)
LEMMA DropMoves ==
    ASSUME NEW s, WriterRests(s)
    PROVE  ReaderMoves(s, Dropped([s EXCEPT !.end["R"].alive = FALSE]))
<1> DEFINE u == [s EXCEPT !.end["R"].alive = FALSE]
           t == Dropped(u)
<1>0. "R" \in Ends /\ "W" \in Ends /\ Other("R") = "W"
  BY DEF Ends, Other
<1>1. Good(s) /\ s \in StreamType /\ s.end["R"].reject = NoReject
  BY DEF WriterRests, Good
<1>2. Good(t)
  BY <1>0, <1>1, DropKeeps
<1>3. /\ Touched(s, u, "R") /\ u.end["R"].copy = s.end["R"].copy
      /\ u.end["R"].ev = s.end["R"].ev /\ u.end["R"].reclaim = s.end["R"].reclaim
      /\ u.end["R"].reject = s.end["R"].reject
  BY <1>0, <1>1, SetDead
<1> HIDE DEF u
<1>4. /\ u \in StreamType /\ u.pend = s.pend /\ u.dropped = s.dropped
      /\ u.end["W"] = s.end["W"] /\ SameCopied(s, u)
  BY <1>0, <1>3 DEF Touched
<1>5. t.dropped /\ SameCopied(u, t) /\ t.end["R"].reject = u.end["R"].reject
  <2>1. CASE u.dropped
    <3>1. t = u
      BY <2>1 DEF Dropped
    <3> QED BY <3>1, <2>1 DEF SameCopied, SameBuffer
  <2>2. CASE ~u.dropped
    <3> DEFINE v == [u EXCEPT !.dropped = TRUE]
               r == CutResult(u, "DROPPED")
    <3>1. t = resetAndNotifyPending(v, r)
      BY <2>2 DEF Dropped
    <3>2. r \in Events \ {"none"}
      BY CutIsEvent DEF Events
    <3> HIDE DEF r
    <3>3. v \in StreamType /\ v.pend = s.pend /\ v.got = u.got /\ v.end = u.end /\ v.dropped
      BY <1>4 DEF StreamType
    <3> HIDE DEF v
    <3>4. EndSound(v, "R")
      <4>1. EndSound(s, "R")
        BY <1>0, <1>1 DEF Good, Sound
      <4>2. SameBuffer(s.end["R"], u.end["R"])
        BY <1>0, <1>4 DEF SameCopied
      <4>3. v.end["R"] = u.end["R"] /\ v.pend = s.pend /\ v.dropped
        BY <3>3
      <4> QED BY <4>1, <4>2, <4>3, <1>3 DEF EndSound, Copies, SameBuffer
    <3>5. EndSound(v, "W")
      <4>1. EndSound(s, "W")
        BY <1>0, <1>1 DEF Good, Sound
      <4> QED BY <4>1, <3>3, <1>4 DEF EndSound, Copies
    <3>6. \A e \in Ends : EndSound(v, e)
      BY <3>4, <3>5 DEF Ends
    <3> HIDE DEF t
    <3>7. /\ t.dropped = v.dropped /\ SameCopied(v, t)
          /\ t.end["R"].reject = v.end["R"].reject
      BY <3>1, <3>2, <3>3, <3>6, NotifiedKeeps
    <3> QED BY <3>3, <3>7 DEF SameCopied, SameBuffer
  <2> QED BY <2>1, <2>2
<1> HIDE DEF t
<1>6. Base(t) = Base(s)
  BY <1>0, <1>4, <1>5 DEF SameCopied, SameBuffer, Base
<1>7. t.pend = "none" /\ EndSound(t, "W")
  BY <1>0, <1>2, <1>5 DEF Good, Sound
<1>8. WriterRests(t)
  BY <1>1, <1>2, <1>3, <1>5, <1>7 DEF WriterRests, WriterPart
<1>9. ReaderMoves(s, t)
  BY <1>6, <1>7, <1>8 DEF ReaderMoves
<1> QED BY <1>9 DEF t, u

(* The timer of a cancellation tells the read that waits, whichever it is. *)
LEMMA CompleteCancelMoves ==
    ASSUME NEW s, WriterRests(s), s.pend # "W"
    PROVE  ReaderMoves(s, completeCancel(s))
<1>0. "R" \in Ends /\ "W" \in Ends /\ "CANCELLED" \in Events \ {"none"} /\ "W" # "none"
  BY DEF Ends, Events
<1>1. Good(s) /\ s \in StreamType /\ Counted(s) /\ \A e \in Ends : EndSound(s, e)
  BY DEF WriterRests, Good, Sound
<1>2. CASE s.dropped
  <2>1. completeCancel(s) = s
    BY <1>2 DEF completeCancel
  <2> QED BY <2>1 DEF ReaderMoves
<1>3. CASE ~s.dropped
  <2> DEFINE r == CutResult(s, "CANCELLED")
             t == resetAndNotifyPending(s, r)
  <2>1. completeCancel(s) = t
    BY <1>3 DEF completeCancel
  <2>2. r \in Events \ {"none"}
    BY <1>0, CutIsEvent
  <2> HIDE DEF r
  <2>3. /\ t \in StreamType /\ t.pend = "none" /\ t.dropped = s.dropped
        /\ SameCopied(s, t) /\ t.end["W"] = s.end["W"]
        /\ t.end["R"].reject = s.end["R"].reject
        /\ \A e \in Ends : EndSound(t, e)
    BY <2>2, <1>1, NotifiedKeeps
  <2> HIDE DEF t
  <2>4. Counted(t)
    BY <2>3, <1>1, CountedKept
  <2>5. Good(t)
    BY <2>3, <2>4 DEF Good, Sound
  <2>6. WriterRests(t) /\ Base(t) = Base(s)
    BY <2>3, <2>5, <1>0, WriterKept
  <2> QED BY <2>1, <2>3, <2>6 DEF ReaderMoves
<1> QED BY <1>2, <1>3

(* A read that asks and blocks. *)
LEMMA BlockedRests ==
    ASSUME NEW s, Asks(s), NEW k \in Blocking
    PROVE  LET t == [s EXCEPT !.end["R"].copy = k]
           IN  /\ WriterRests(t) /\ Base(t) = Base(s) /\ t.pend = "R"
               /\ t.end["R"].ev = "none" /\ t.end["R"].cap = s.end["R"].cap
               /\ t.end["R"].done = s.end["R"].done
<1> DEFINE t == [s EXCEPT !.end["R"].copy = k]
<1>0. "R" \in Ends /\ "W" \in Ends /\ Other("R") = "W" /\ k \in CopyStates
  BY DEF Ends, Other, CopyStates, Blocking
<1>1. s \in StreamType /\ Counted(s)
  BY DEF Asks
<1>2. /\ Touched(s, t, "R") /\ t.end["R"].copy = k
      /\ t.end["R"].ev = s.end["R"].ev /\ t.end["R"].reclaim = s.end["R"].reclaim
      /\ t.end["R"].reject = s.end["R"].reject
  BY <1>0, <1>1, SetCopy
<1> HIDE DEF t
<1>3. /\ t \in StreamType /\ Counted(t) /\ t.pend = "R" /\ ~t.dropped
      /\ t.end["W"] = s.end["W"] /\ t.end["R"].ev = "none" /\ ~t.end["R"].reclaim
      /\ t.end["R"].reject = NoReject
  BY <1>0, <1>1, <1>2, CountedKept DEF Touched, Asks
<1>4. t.end["R"].cap = s.end["R"].cap /\ t.end["R"].done = s.end["R"].done
  BY <1>0, <1>2 DEF Touched, SameCopied, SameBuffer
<1>5. EndSound(t, "R")
  BY <1>2, <1>3 DEF EndSound, Copies, Blocking
<1>6. EndSound(t, "W")
  BY <1>3, IdleIsSound DEF Asks, WriterIdle
<1>7. WriterRests(t)
  BY <1>3, <1>5, <1>6 DEF WriterRests, WriterPart, Good, Sound, Ends, Asks, WriterIdle
<1> QED BY <1>3, <1>4, <1>7 DEF Base, t

-----------------------------------------------------------------------------
(* The actions of a stream that the host writes. *)

(* The actions of the guest other than reads, and the timer. *)
LEMMA GuestStep ==
    ASSUME Injected, HostState,
           CopyDropped("R") \/ TakeEvent("R") \/ StreamDrop("R") \/ StreamCancel("R")
    PROVE  HostState'
<1>0. WriterRests(c) /\ mode \in {"hostWriter", "hostWriterCancel"}
  BY DEF HostState, Injected
<1>1. mode = "hostWriter" => timer = 0 /\ (inj # <<>> => ServesRead(c, inj[1]))
  BY DEF HostState, Lone
<1>2. c.pend = "R" => Copies(c, "R") /\ ~c.dropped
  BY DEF HostState, WriterRests, Good, Sound, EndSound, Ends
<1>3. CASE CopyDropped("R")
  <2>1. ReaderMoves(c, c') /\ UNCHANGED <<mode, host, src, inj, timer>>
    BY <1>0, <1>3, DoneMoves DEF CopyDropped
  <2>2. c.pend # "R"
    BY <1>2, <1>3 DEF CopyDropped
  <2> QED BY <2>1, <2>2, <1>1, ReaderStep DEF ServesRead
<1>4. CASE TakeEvent("R")
  <2>1. ReaderMoves(c, c') /\ UNCHANGED <<mode, host, src, inj, timer>>
    BY <1>0, <1>4, TakeMoves DEF TakeEvent
  <2>2. c.end["R"].ev # "none"
    BY <1>4 DEF TakeEvent
  <2> QED BY <2>1, <2>2, <1>1, ReaderStep DEF ServesRead
<1>5. CASE StreamDrop("R")
  <2>1. ReaderMoves(c, c') /\ UNCHANGED <<mode, host, src, inj, timer>>
    BY <1>0, <1>5, DropMoves DEF StreamDrop
  <2>2. c.pend # "R"
    BY <1>2, <1>5 DEF StreamDrop, Copies
  <2> QED BY <2>1, <2>2, <1>1, ReaderStep DEF ServesRead
<1>6. CASE StreamCancel("R")
  <2> DEFINE s == [c EXCEPT !.end["R"].copy = "CANCELLING_COPY"]
  <2>0. mode # "hostWriter" /\ c.end["R"].copy = "ASYNC_COPYING"
    BY <1>6 DEF StreamCancel
  <2>1. /\ s.end["R"].ev # "none" => ReaderMoves(c, getPendingEvent(s, "R"))
        /\ s.end["R"].ev = "none" => ReaderMoves(c, s)
    BY <2>0, <1>0, CancelMoves
  <2>2. /\ c' = IF s.end["R"].ev # "none" THEN getPendingEvent(s, "R") ELSE s
        /\ UNCHANGED <<mode, host, src, inj>>
    <3> HIDE DEF s
    <3> QED BY <1>6 DEF StreamCancel, s
  <2> HIDE DEF s
  <2>3. ReaderMoves(c, c')
    BY <2>1, <2>2
  <2> QED BY <2>0, <2>2, <2>3, ReaderStep
<1> QED BY <1>3, <1>4, <1>5, <1>6

(* The timer: nothing waits in the queue while a read does, so hostCancelFn  *)
(* writes nothing.                                                           *)
LEMMA TimerStep ==
    ASSUME Injected, HostState, CancelTimer
    PROVE  HostState'
<1>0. WriterRests(c) /\ timer > 0 /\ AllResumed /\ UNCHANGED <<mode, host, src, inj>>
      /\ c' = IF c.dropped THEN c ELSE completeCancel(hostCancelFn(c))
  BY DEF HostState, CancelTimer
<1>1. mode # "hostWriter"
  BY <1>0 DEF HostState, Lone
<1>2. Singly
  BY <1>1 DEF HostState, Injected
<1>3. c \in StreamType /\ c.pend \in {"none", "R"}
  BY <1>0, <1>2, StreamFields DEF WriterRests, Good, Singly, Ends
<1>4. hostCancelFn(c) = c
  <2> SUFFICES ASSUME c.pend # "none", src.queue # <<>>, remaining(c, c.pend) > 0
               PROVE  FALSE
    BY DEF hostCancelFn
  <2>1. c.pend = "R" /\ remaining(c, "R") > 0
    BY <1>3
  <2>2. c.end["R"].ev # "none" => c.end["R"].cap = 1 /\ c.end["R"].done = 1
    BY <2>1, <1>2 DEF Singly, OneRead
  <2>3. c.end["R"].ev = "none"
    BY <2>1, <2>2 DEF remaining
  <2>4. PICK i \in 1 .. Len(inj) : inj[i].woken
    BY <2>1, <2>3, <1>2 DEF Singly
  <2>5. DOMAIN inj = 1 .. Len(inj)
    BY DEF HostState
  <2> QED BY <2>4, <2>5, <1>0 DEF AllResumed
<1>5. ReaderMoves(c, c')
  <2>1. c.pend # "W"
    BY <1>3
  <2>2. ReaderMoves(c, completeCancel(c))
    BY <2>1, <1>0, CompleteCancelMoves
  <2>3. c.dropped => completeCancel(c) = c
    BY DEF completeCancel
  <2> QED BY <2>2, <2>3, <1>0, <1>4
<1> QED BY <1>0, <1>1, <1>5, ReaderStep

(* Waking the injections changes nothing else about them. *)
LEMMA WokenKept ==
    ASSUME inj \in Seq(InjectionType)
    PROVE  /\ Woken \in Seq(InjectionType) /\ Len(Woken) = Len(inj)
           /\ \A i \in 1 .. Len(inj) : /\ Woken[i].woken /\ Woken[i].values = inj[i].values
                                       /\ Woken[i].want = inj[i].want
                                       /\ Woken[i].zero <=> inj[i].zero
           /\ HeldBy(Woken) = HeldBy(inj) /\ (Woken = <<>> <=> inj = <<>>)
<1> DEFINE n == Len(inj)
           f(i) == [inj[i] EXCEPT !.woken = TRUE]
           w == [i \in 1 .. n |-> f(i)]
<1>1. n \in Nat /\ DOMAIN inj = 1 .. n /\ \A i \in 1 .. n : inj[i] \in InjectionType
  BY ElementOfSeq
<1>2. Woken = w
  BY <1>1 DEF Woken
<1>3. \A i \in 1 .. n : /\ f(i) \in InjectionType /\ f(i).woken /\ f(i).values = inj[i].values
                        /\ f(i).want = inj[i].want /\ (f(i).zero <=> inj[i].zero)
  BY <1>1 DEF InjectionType
<1> HIDE DEF f
<1>4. w \in Seq(InjectionType) /\ Len(w) = n /\ \A i \in 1 .. n : w[i] = f(i)
  BY <1>1, <1>3
<1> HIDE DEF w
<1>5. w = <<>> <=> inj = <<>>
  <2>1. w = <<>> <=> Len(w) = 0
    BY <1>4, EmptySeq
  <2>2. inj = <<>> <=> n = 0
    BY EmptySeq
  <2> QED BY <2>1, <2>2, <1>4
<1>6. HeldBy(w) = HeldBy(inj)
  <2>1. inj # <<>> => 1 \in 1 .. n
    BY EmptySeq
  <2> QED BY <2>1, <1>3, <1>4, <1>5 DEF HeldBy
<1> QED BY <1>2, <1>3, <1>4, <1>5, <1>6 DEF n

(* The iterator settled: every injection is woken. *)
LEMMA WakeStep ==
    ASSUME HostState, UNCHANGED <<mode, c, host, timer>>, inj' = Woken,
           src' \in SourceType,
           src'.next >= 1, src'.next - 1 <= MaxElem, ~src'.reading,
           Chain(Base(c), HeldBy(inj), src'.queue, src'.next - 1),
           mode = "hostWriterCancel" => /\ Len(src'.queue) <= 1 /\ src'.last # "thrown"
                                        /\ \E i \in 1 .. Len(inj) : TRUE
    PROVE  HostState'
<1>1. inj \in Seq(InjectionType)
  BY DEF HostState
<1>2. /\ inj' \in Seq(InjectionType) /\ Len(inj') = Len(inj)
      /\ \A i \in 1 .. Len(inj) : /\ inj'[i].woken /\ inj'[i].values = inj[i].values
                                  /\ inj'[i].want = inj[i].want
                                  /\ inj'[i].zero <=> inj[i].zero
      /\ HeldBy(inj') = HeldBy(inj) /\ (inj' = <<>> <=> inj = <<>>)
  BY <1>1, WokenKept
<1>3. WriterRests(c)' /\ (\A i \in 1 .. HostReads : host.st[i] = "new")'
  BY DEF HostState
<1>4. Flow'
  BY <1>2 DEF Flow
<1>5. (mode = "hostWriter" => Lone)'
  <2> SUFFICES ASSUME mode = "hostWriter" PROVE Lone'
    OBVIOUS
  <2>1. Lone
    BY DEF HostState
  <2>2. inj # <<>> => 1 \in 1 .. Len(inj)
    BY <1>1, EmptySeq
  <2>3. inj' # <<>> => ServesRead(c', inj'[1])
    BY <2>1, <2>2, <1>2 DEF Lone, ServesRead
  <2> QED BY <2>1, <2>3, <1>2 DEF Lone
<1>6. (mode = "hostWriterCancel" => Singly)'
  <2> SUFFICES ASSUME mode = "hostWriterCancel" PROVE Singly'
    OBVIOUS
  <2>1. Singly
    BY DEF HostState
  <2>2. \A i \in 1 .. Len(inj') : ~inj'[i].zero /\ inj'[i].values = <<>> /\ inj'[i].want = 1
    <3>1. \A i \in 1 .. Len(inj) : ~inj[i].zero /\ inj[i].values = <<>> /\ inj[i].want = 1
      BY <2>1 DEF Singly
    <3>2. \A i \in 1 .. Len(inj) : inj'[i].values = <<>> /\ inj'[i].want = 1
      BY <3>1, <1>2
    <3>3. \A i \in 1 .. Len(inj) : ~inj'[i].zero
      BY <3>1, <1>2, Zenon
    <3> QED BY <3>2, <3>3, <1>2
  <2>3. \E i \in 1 .. Len(inj') : inj'[i].woken
    BY <1>2
  <2>4. c'.pend # "W" /\ OneRead(c)' /\ (inj' # <<>> => 1 <= MaxElem)
    BY <2>1, <1>2 DEF Singly
  <2> QED BY <2>2, <2>3, <2>4 DEF Singly
<1> QED BY <1>2, <1>3, <1>4, <1>5, <1>6 DEF HostState

(* A chunk of the iterator goes on where the queue ends. *)
LEMMA ChunkJoins ==
    ASSUME NEW b, NEW held, NEW q, NEW m \in Nat, Chain(b, held, q, m),
           NEW k \in Nat, m + k <= MaxElem
    PROVE  LET more == [i \in 1 .. k |-> m + 1 + i - 1]
           IN  Chain(b, held, q \o more, m + k) /\ Len(q \o more) = Len(q) + k
<1> DEFINE more == [i \in 1 .. k |-> m + 1 + i - 1]
<1>1. \A i \in 1 .. k : m + 1 + i - 1 = m + i /\ m + i \in 1 .. MaxElem
  BY Bounds
<1>2. more \in Seq(1 .. MaxElem) /\ Len(more) = k /\ \A i \in 1 .. k : more[i] = m + i
  BY <1>1
<1> HIDE DEF more
<1>3. /\ b \in Nat /\ held \in Seq(1 .. MaxElem) /\ q \in Seq(1 .. MaxElem)
      /\ CountsFrom(held, b) /\ CountsFrom(q, b + Len(held)) /\ b + Len(held) + Len(q) = m
  BY DEF Chain
<1>4. Len(held) \in Nat /\ Len(q) \in Nat
  BY <1>3
<1>5. b + Len(held) \in Nat
  BY <1>3, <1>4
<1>6. CountsFrom(more, b + Len(held) + Len(q))
  BY <1>2, <1>3 DEF CountsFrom
<1>7. /\ q \o more \in Seq(1 .. MaxElem) /\ Len(q \o more) = Len(q) + Len(more)
      /\ CountsFrom(q \o more, b + Len(held))
  BY <1>2, <1>3, <1>5, <1>6, Joined
<1>8. b + Len(held) + Len(q \o more) = m + k
  BY <1>2, <1>3, <1>4, <1>7
<1>9. Chain(b, held, q \o more, m + k) /\ Len(q \o more) = Len(q) + k
  BY <1>2, <1>3, <1>7, <1>8 DEF Chain
<1> QED BY <1>9 DEF more

(* The iterator yields, perhaps nothing, or throws. *)
LEMMA SourceStep ==
    ASSUME Injected, HostState,
           SourceThrows \/ \E k \in Chunks, done \in BOOLEAN : SourceYields(k, done)
    PROVE  HostState'
<1>0. /\ src \in SourceType
      /\ src.next >= 1 /\ src.next - 1 <= MaxElem
      /\ Chain(Base(c), HeldBy(inj), src.queue, src.next - 1)
  BY DEF HostState, Flow
<1>1. src.reading /\ UNCHANGED <<mode, c, host, timer>> /\ inj' = Woken
  BY DEF SourceThrows, SourceYields, MaySettle
<1>2. mode = "hostWriterCancel" => src.queue = <<>> /\ \E i \in 1 .. Len(inj) : TRUE
  BY <1>1 DEF HostState, Singly
<1>3. CASE SourceThrows
  <2>1. src' = [src EXCEPT !.reading = FALSE, !.last = "thrown"] /\ mode # "hostWriterCancel"
    BY <1>3 DEF SourceThrows
  <2>2. /\ src' \in SourceType
        /\ src'.queue = src.queue /\ src'.next = src.next /\ ~src'.reading
    BY <2>1, <1>0 DEF SourceType
  <2> QED BY <2>1, <2>2, <1>0, <1>1, WakeStep
<1>4. ASSUME NEW k \in Chunks, NEW done \in BOOLEAN, SourceYields(k, done)
      PROVE  HostState'
  <2> DEFINE m == src.next - 1
             more == [i \in 1 .. k |-> src.next + i - 1]
             last == IF k = 0 THEN "nothing" ELSE "values"
  <2>0. k \in Nat
    BY StreamsAssumption
  <2>1. /\ src' = [src EXCEPT !.queue = src.queue \o more, !.next = src.next + k,
                              !.reading = FALSE, !.done = done, !.last = last]
        /\ src.next + k - 1 <= MaxElem /\ (mode = "hostWriterCancel" => k <= 1)
    BY <1>4 DEF SourceYields
  <2>2. src.next \in Nat /\ src.queue \in Seq(1 .. MaxElem)
    BY <1>0 DEF SourceType
  <2>3. m \in Nat /\ m + k <= MaxElem /\ src.next = m + 1 /\ src.next + k - 1 = m + k
    BY <2>0, <2>1, <2>2, <1>0, Bounds
  <2>4. more = [i \in 1 .. k |-> m + 1 + i - 1]
    BY <2>3
  <2>5. Chain(Base(c), HeldBy(inj), src.queue \o more, m + k)
        /\ Len(src.queue \o more) = Len(src.queue) + k
    <3>1. Chain(Base(c), HeldBy(inj), src.queue, m)
      BY <1>0
    <3> HIDE DEF m, more
    <3> QED BY <3>1, <2>0, <2>3, <2>4, ChunkJoins
  <2> HIDE DEF more
  <2>6. src.queue \o more \in Seq(1 .. MaxElem) /\ src.next + k \in Nat /\ src.next + k >= 1
    <3>1. src.queue \o more \in Seq(1 .. MaxElem)
      BY <2>5 DEF Chain
    <3>2. src.next + k \in Nat /\ src.next + k >= 1
      <4>1. src.next >= 1
        BY <1>0
      <4> QED BY <4>1, <2>0, <2>2
    <3> QED BY <3>1, <3>2
  <2>7. /\ src' \in SourceType
        /\ src'.queue = src.queue \o more /\ src'.next = src.next + k /\ ~src'.reading
        /\ src'.last # "thrown"
    <3>1. last \in {"values", "nothing"}
      OBVIOUS
    <3> HIDE DEF last
    <3> QED BY <3>1, <2>1, <2>6, <1>0 DEF SourceType
  <2>8. mode = "hostWriterCancel" => Len(src'.queue) <= 1
    <3> SUFFICES ASSUME mode = "hostWriterCancel" PROVE Len(src'.queue) <= 1
      OBVIOUS
    <3>1. k <= 1 /\ src.queue = <<>>
      BY <2>1, <1>2
    <3>2. Len(src.queue) = 0
      BY <3>1
    <3>3. Len(src'.queue) = Len(src.queue) + k
      BY <2>5, <2>7
    <3>4. PICK l : l = Len(src'.queue)
      OBVIOUS
    <3>5. l = k
      BY <3>2, <3>3, <3>4, <2>0
    <3> QED BY <3>1, <3>4, <3>5
  <2>9. Chain(Base(c), HeldBy(inj), src'.queue, src'.next - 1) /\ src'.next - 1 <= MaxElem
    <3>0. src'.next = src.next + k /\ src'.queue = src.queue \o more
      BY <2>7
    <3>1. src'.next - 1 = m + k
      BY <3>0, <2>0, <2>2
    <3> HIDE DEF m
    <3> QED BY <3>0, <3>1, <2>3, <2>5
  <2> QED BY <2>6, <2>7, <2>8, <2>9, <1>1, <1>2, WakeStep
<1> QED BY <1>3, <1>4

(* The injections behind the oldest hold nothing. *)
LEMMA OthersWait ==
    ASSUME Injected, HostState, inj # <<>>
    PROVE  /\ inj[1] \in InjectionType /\ Head(inj) = inj[1] /\ HeldBy(inj) = inj[1].values
           /\ Tail(inj) \in Seq(InjectionType) /\ HeldBy(Tail(inj)) = <<>>
           /\ \A j \in 1 .. Len(Tail(inj)) : Tail(inj)[j].values = <<>>
           /\ mode = "hostWriter" => Tail(inj) = <<>>
           /\ mode = "hostWriterCancel" =>
                 \A j \in 1 .. Len(Tail(inj)) : ~Tail(inj)[j].zero /\ Tail(inj)[j].want = 1
           /\ inj[1].woken /\ (\E j \in 1 .. Len(inj) : ~inj[j].woken) =>
                 \E j \in 1 .. Len(Tail(inj)) : ~Tail(inj)[j].woken
<1> DEFINE t == Tail(inj)
           n == Len(inj)
<1>0. inj \in Seq(InjectionType) /\ mode \in {"hostWriter", "hostWriterCancel"}
  BY DEF HostState, Injected
<1>1. n \in Nat \ {0} /\ 1 \in 1 .. n
  <2>1. n \in Nat \ {0}
    BY <1>0, EmptySeq
  <2> QED BY <2>1
<1>2. inj[1] \in InjectionType /\ Head(inj) = inj[1] /\ HeldBy(inj) = inj[1].values
  <2>1. inj[1] \in InjectionType
    BY <1>0, <1>1, ElementOfSeq
  <2>2. Head(inj) = inj[1]
    BY <1>0, <1>1
  <2> QED BY <2>1, <2>2 DEF HeldBy
<1>3. t \in Seq(InjectionType) /\ Len(t) = n - 1 /\ \A j \in 1 .. Len(t) : t[j] = inj[j + 1]
  BY <1>0, HeadTailProperties
<1> HIDE DEF t, n
<1>4. \A j \in 1 .. Len(t) : j \in 1 .. n - 1 /\ j + 1 \in 1 .. n
  BY <1>1, <1>3
<1>5. mode = "hostWriter" => t = <<>>
  <2> SUFFICES ASSUME mode = "hostWriter" PROVE Len(t) = 0
    BY <1>3, EmptySeq
  <2>1. n <= 1
    BY DEF HostState, Lone, n
  <2> QED BY <2>1, <1>1, <1>3
<1>6. mode = "hostWriterCancel" =>
         \A j \in 1 .. Len(t) : ~t[j].zero /\ t[j].want = 1 /\ t[j].values = <<>>
  <2> SUFFICES ASSUME mode = "hostWriterCancel", NEW j \in 1 .. Len(t)
               PROVE  ~t[j].zero /\ t[j].want = 1 /\ t[j].values = <<>>
    OBVIOUS
  <2>1. \A i \in 1 .. n : ~inj[i].zero /\ inj[i].values = <<>> /\ inj[i].want = 1
    BY DEF HostState, Singly, n
  <2>2. t[j] = inj[j + 1] /\ j + 1 \in 1 .. n
    BY <1>3, <1>4
  <2> QED BY <2>1, <2>2
<1>7. \A j \in 1 .. Len(t) : t[j].values = <<>>
  <2>1. mode = "hostWriter" => Len(t) = 0
    BY <1>5
  <2> QED BY <2>1, <1>0, <1>6
<1>8. HeldBy(t) = <<>>
  BY <1>3, <1>7, HoldNothing
<1>9. ASSUME inj[1].woken, NEW j \in 1 .. n, ~inj[j].woken
      PROVE  \E i \in 1 .. Len(t) : ~t[i].woken
  <2>1. j # 1
    BY <1>9
  <2>2. j - 1 \in 1 .. Len(t) /\ (j - 1) + 1 = j
    BY <2>1, <1>1, <1>3
  <2>3. t[j - 1] = inj[j]
    BY <2>2, <1>3
  <2> QED BY <2>2, <2>3, <1>9
<1> QED BY <1>2, <1>3, <1>5, <1>6, <1>7, <1>8, <1>9 DEF t, n

(* The oldest injection is through: its values are handed over or put back,  *)
(* and the others go on waiting.                                             *)
LEMMA OldestLeaves ==
    ASSUME Injected, HostState, inj # <<>>, inj[1].woken, NEW q,
           UNCHANGED <<mode, host, timer>>, src' = [src EXCEPT !.queue = q],
           inj' = Tail(inj), WriterRests(c'), Chain(Base(c'), <<>>, q, src.next - 1),
           mode = "hostWriterCancel" =>
              /\ c'.pend # "W" /\ OneRead(c') /\ Len(q) <= 1
              /\ q # <<>> => ~src.reading /\ ~(c'.pend = "R" /\ c'.end["R"].ev = "none")
    PROVE  HostState'
<1>0. /\ src \in SourceType
      /\ src.next >= 1 /\ src.next - 1 <= MaxElem
  BY DEF HostState, Flow
<1>1. /\ inj' \in Seq(InjectionType) /\ HeldBy(inj') = <<>>
      /\ \A j \in 1 .. Len(inj') : inj'[j].values = <<>>
      /\ mode = "hostWriter" => inj' = <<>>
      /\ mode = "hostWriterCancel" =>
            \A j \in 1 .. Len(inj') : ~inj'[j].zero /\ inj'[j].want = 1
      /\ (\E j \in 1 .. Len(inj) : ~inj[j].woken) => \E j \in 1 .. Len(inj') : ~inj'[j].woken
  BY OthersWait
<1>2. q \in Seq(1 .. MaxElem)
  BY DEF Chain
<1>3. /\ src' \in SourceType /\ src'.last = src.last
      /\ src'.queue = q /\ src'.next = src.next /\ src'.reading = src.reading
  BY <1>0, <1>2 DEF SourceType
<1>4. Flow'
  BY <1>0, <1>1, <1>3 DEF Flow
<1>5. (\A i \in 1 .. HostReads : host.st[i] = "new")'
  BY DEF HostState
<1>6. (mode = "hostWriter" => Lone)'
  <2> SUFFICES ASSUME mode = "hostWriter" PROVE Lone'
    OBVIOUS
  <2>1. timer = 0
    BY DEF HostState, Lone
  <2>2. inj' = <<>> /\ Len(<<>>) <= 1
    BY <1>1
  <2>3. ~src'.reading
    BY <1>3 DEF HostState, Lone
  <2> QED BY <2>1, <2>2, <2>3 DEF Lone
<1>7. (mode = "hostWriterCancel" => Singly)'
  <2> SUFFICES ASSUME mode = "hostWriterCancel" PROVE Singly'
    OBVIOUS
  <2>1. src.reading => \E j \in 1 .. Len(inj) : ~inj[j].woken
    BY DEF HostState, Singly
  <2>2. src'.reading => \E j \in 1 .. Len(inj') : ~inj'[j].woken
    BY <2>1, <1>1, <1>3
  <2>3. \A j \in 1 .. Len(inj') : ~inj'[j].zero /\ inj'[j].values = <<>> /\ inj'[j].want = 1
    BY <1>1
  <2>4. c'.pend # "W" /\ OneRead(c)' /\ Len(src'.queue) <= 1
    BY <1>3
  <2>5. /\ src'.reading => src'.queue = <<>>
        /\ ~(src'.queue # <<>> /\ c'.pend = "R" /\ c'.end["R"].ev = "none")
    BY <1>3
  <2>6. 1 <= MaxElem /\ src'.last # "thrown"
    BY <1>3 DEF HostState, Singly
  <2> QED BY <2>2, <2>3, <2>4, <2>5, <2>6 DEF Singly
<1> QED BY <1>1, <1>4, <1>5, <1>6, <1>7 DEF HostState

(* The read was answered or taken back: the injection puts its values back. *)
LEMMA GivesUp ==
    ASSUME Injected, HostState, inj # <<>>, inj[1].woken, ReadGone(c),
           UNCHANGED <<mode, host, timer, c>>, inj' = Tail(inj),
           src' = [src EXCEPT !.queue = bail(inj[1].values, src.queue)]
    PROVE  HostState'
<1> DEFINE i == inj[1]
           q == bail(i.values, src.queue)
<1>0. WriterRests(c) /\ Chain(Base(c), i.values, src.queue, src.next - 1)
  BY OthersWait DEF HostState, Flow
<1>1. Chain(Base(c), <<>>, q, src.next - 1)
  BY <1>0, PutBack
<1>2. ASSUME mode = "hostWriterCancel"
      PROVE  /\ c.pend # "W" /\ OneRead(c) /\ Len(q) <= 1
             /\ q # <<>> => ~src.reading /\ ~(c.pend = "R" /\ c.end["R"].ev = "none")
  <2>1. Singly /\ inj \in Seq(InjectionType)
    BY <1>2 DEF HostState
  <2>2. 1 \in 1 .. Len(inj)
    BY <2>1, EmptySeq
  <2>3. i.values = <<>>
    BY <2>1, <2>2 DEF Singly
  <2>4. src.queue \in Seq(1 .. MaxElem)
    BY <1>0 DEF Chain
  <2>5. q = src.queue
    BY <2>3, <2>4 DEF bail
  <2> HIDE DEF q
  <2>6. ~(c.pend = "R" /\ c.end["R"].ev = "none")
    BY DEF ReadGone
  <2> QED BY <2>1, <2>5, <2>6 DEF Singly
<1> HIDE DEF q
<1>3. src' = [src EXCEPT !.queue = q]
  BY DEF q
<1> QED BY <1>0, <1>1, <1>2, <1>3, OldestLeaves

(* Nothing came: the injection waits for the iterator again. *)
LEMMA WaitsAgain ==
    ASSUME Injected, HostState, inj # <<>>, ~inj[1].zero,
           inj[1].values \o drainInto(src.queue, inj[1].want) = <<>>, WantAfter(inj[1]) > 0,
           UNCHANGED <<mode, host, timer, c>>, src' = [src EXCEPT !.reading = TRUE],
           inj' = Append(Tail(inj), [inj[1] EXCEPT !.want = WantAfter(inj[1]), !.woken = FALSE])
    PROVE  HostState'
<1> DEFINE i == inj[1]
           left == WantAfter(i)
           x == [i EXCEPT !.want = left, !.woken = FALSE]
           t == Tail(inj)
           n == Len(t)
<1>0. /\ src \in SourceType
      /\ src.next >= 1 /\ src.next - 1 <= MaxElem
      /\ Chain(Base(c), i.values, src.queue, src.next - 1)
  BY OthersWait DEF HostState, Flow
<1> HIDE DEF left, x
<1>1. /\ i \in InjectionType /\ t \in Seq(InjectionType)
      /\ \A j \in 1 .. n : t[j].values = <<>>
      /\ mode = "hostWriter" => t = <<>>
      /\ mode = "hostWriterCancel" => \A j \in 1 .. n : ~t[j].zero /\ t[j].want = 1
  BY OthersWait
<1>2. i.want \in Nat /\ i.values \in Seq(1 .. MaxElem)
  BY <1>1 DEF InjectionType
<1>3. src.queue \in Seq(1 .. MaxElem)
  BY <1>0 DEF SourceType
<1>4. i.values = <<>> /\ Smaller(i.want, Len(src.queue)) = 0
  <2>1. Chain(Base(c), i.values, src.queue, src.next - 1) /\ i.want \in Nat
    BY <1>0, <1>2
  <2>2. i.values \o drainInto(src.queue, i.want) = <<>>
    OBVIOUS
  <2> HIDE DEF i
  <2> QED BY <2>1, <2>2, TookNothing, Zenon
<1>a. left \in Nat /\ left > 0 /\ left <= i.want
  BY <1>2 DEF WantAfter, left
<1>5. /\ x \in InjectionType /\ ~x.woken /\ x.values = <<>> /\ x.want = left
      /\ x.zero <=> i.zero
  BY <1>1, <1>4, <1>a DEF InjectionType, x
<1> HIDE DEF x, t, n
<1>6. /\ inj' \in Seq(InjectionType) /\ inj' # <<>> /\ Len(inj') = n + 1
      /\ (\A j \in 1 .. n : inj'[j] = t[j]) /\ inj'[n + 1] = x
  BY <1>1, <1>5, AppendProperties DEF x, t, n, left
<1>7. n \in Nat /\ \A j \in 1 .. Len(inj') : j \in 1 .. n \/ j = n + 1
  <2>1. n \in Nat
    BY <1>1 DEF n
  <2> QED BY <2>1, <1>6
<1>8. \A j \in 1 .. Len(inj') : inj'[j].values = <<>>
  BY <1>1, <1>5, <1>6, <1>7
<1>9. HeldBy(inj') = <<>>
  BY <1>6, <1>8, HoldNothing
<1>10. /\ src' \in SourceType /\ src'.last = src.last
       /\ src'.queue = src.queue /\ src'.next = src.next /\ src'.reading
  BY <1>0 DEF SourceType
<1>11. Flow'
  BY <1>0, <1>4, <1>9, <1>10 DEF Flow
<1>12. WriterRests(c)' /\ (\A j \in 1 .. HostReads : host.st[j] = "new")'
  BY DEF HostState
<1>13. (mode = "hostWriter" => Lone)'
  <2> SUFFICES ASSUME mode = "hostWriter" PROVE Lone'
    OBVIOUS
  <2>1. n = 0
    BY <1>1 DEF n
  <2>2. inj'[1] = x /\ Len(inj') = 1
    BY <2>1, <1>6
  <2>3. timer = 0 /\ ServesRead(c, i)
    BY DEF HostState, Lone
  <2>4. ServesRead(c, x)
    <3>1. c.end["R"].cap >= i.want + 0 /\ c.end["R"].cap \in Nat
      <4>1. Len(i.values) = 0
        BY <1>4
      <4>2. c.end["R"].cap \in 0 .. MaxElem
        BY StreamFields, EndFields DEF HostState, WriterRests, Good, Ends
      <4> QED BY <4>1, <4>2, <2>3, Bounds DEF ServesRead
    <3>2. PICK k, l : k = c.end["R"].cap /\ l = i.want
      OBVIOUS
    <3>3. k >= left + 0
      BY <3>1, <3>2, <1>2, <1>a
    <3>4. Len(x.values) = 0
      BY <1>5
    <3> QED BY <3>2, <3>3, <3>4, <2>3, <1>5 DEF ServesRead
  <2>5. ServesRead(c', inj'[1])
    BY <2>2, <2>4
  <2>6. timer' = 0
    BY <2>3
  <2>7. Len(inj') <= 1
    <3>1. PICK k : k = Len(inj')
      OBVIOUS
    <3>2. k = 1
      BY <3>1, <2>2
    <3>3. k <= 1
      BY <3>2
    <3> QED BY <3>1, <3>3, Zenon
  <2> QED BY <2>2, <2>5, <2>6, <2>7, <1>5, <1>6 DEF Lone
<1>14. (mode = "hostWriterCancel" => Singly)'
  <2> SUFFICES ASSUME mode = "hostWriterCancel" PROVE Singly'
    OBVIOUS
  <2>1. Singly /\ 1 \in 1 .. Len(inj)
    BY EmptySeq DEF HostState
  <2>2. i.want = 1 /\ c.pend # "W" /\ OneRead(c) /\ 1 <= MaxElem
    BY <2>1 DEF Singly
  <2>3. src.queue = <<>>
    <3>1. Smaller(1, Len(src.queue)) = 0
      BY <2>2, <1>4
    <3> QED BY <3>1, <1>3, SmallerOne
  <2>4. ~x.zero /\ x.want = 1
    <3>1. left = 1
      BY <2>2, <1>a
    <3> QED BY <3>1, <1>5
  <2>5. \A j \in 1 .. Len(inj') : ~inj'[j].zero /\ inj'[j].values = <<>> /\ inj'[j].want = 1
    BY <2>4, <1>1, <1>6, <1>7, <1>8
  <2>6. \E j \in 1 .. Len(inj') : ~inj'[j].woken
    <3>1. n + 1 \in 1 .. Len(inj')
      BY <1>6, <1>7
    <3> QED BY <3>1, <1>5, <1>6
  <2>7. src'.queue = <<>> /\ Len(src'.queue) <= 1 /\ src'.last # "thrown"
    BY <2>1, <2>3, <1>10 DEF Singly
  <2> QED BY <2>2, <2>5, <2>6, <2>7 DEF Singly
<1> QED BY <1>6, <1>11, <1>12, <1>13, <1>14 DEF HostState

(* The injection of a read of nothing goes on: only without cancellation. *)
LEMMA ZeroFinishes ==
    ASSUME Injected, HostState, inj # <<>>, inj[1].woken, inj[1].zero,
           UNCHANGED <<mode, host, timer>>, inj' = Tail(inj),
           c' = FinishZero(c, src.queue).c,
           src' = [src EXCEPT !.queue = FinishZero(c, src.queue).q]
    PROVE  HostState'
<1> DEFINE i == inj[1]
           r == FinishZero(c, src.queue)
<1>0. /\ WriterRests(c) /\ Chain(Base(c), i.values, src.queue, src.next - 1)
      /\ src.next - 1 \in Nat /\ src.next - 1 <= MaxElem
      /\ inj \in Seq(InjectionType) /\ i \in InjectionType
  <2>1. /\ WriterRests(c) /\ Chain(Base(c), i.values, src.queue, src.next - 1)
        /\ inj \in Seq(InjectionType) /\ i \in InjectionType
    BY OthersWait DEF HostState, Flow
  <2>2. src.next \in Nat /\ src.next >= 1 /\ src.next - 1 <= MaxElem
    BY DEF HostState, Flow, SourceType
  <2> QED BY <2>1, <2>2
<1>1. mode = "hostWriter"
  <2>1. mode = "hostWriterCancel" => ~inj[1].zero
    BY <1>0, EmptySeq DEF HostState, Singly
  <2> QED BY <2>1 DEF Injected
<1>2. ServesRead(c, i)
  BY <1>1 DEF HostState, Lone
<1>3. c.end["R"].cap = 0 /\ i.values = <<>>
  <2>1. i.values \in Seq(1 .. MaxElem) /\ i.want \in Nat
    BY <1>0 DEF InjectionType
  <2>2. c.end["R"].cap = 0 /\ 0 >= i.want + Len(i.values)
    BY <1>2 DEF ServesRead
  <2>3. Len(i.values) \in Nat
    BY <2>1
  <2>4. Len(i.values) = 0
    <3>1. PICK a, b : a = i.want /\ b = Len(i.values)
      OBVIOUS
    <3>2. a \in Nat /\ b \in Nat /\ 0 >= a + b
      BY <3>1, <2>1, <2>2, <2>3
    <3>3. b = 0
      BY <3>2
    <3> QED BY <3>1, <3>3
  <2> QED BY <2>1, <2>2, <2>4, EmptySeq
<1>4. Asks(c) /\ Copies(c, "R")
  BY <1>0, <1>2, WaitingAsks DEF ServesRead
<1>5. WriterRests(c') /\ Chain(Base(c'), <<>>, r.q, src.next - 1)
  <2>1. PICK q, m : q = src.queue /\ m = src.next - 1
    OBVIOUS
  <2>2. Chain(Base(c), <<>>, q, m) /\ m \in Nat /\ m <= MaxElem /\ r = FinishZero(c, q)
    BY <2>1, <1>0, <1>3
  <2> HIDE DEF r
  <2>3. CASE q = <<>> /\ ~src.done
    <3>1. r = [c |-> c, q |-> q]
      BY <2>2, <2>3 DEF FinishZero
    <3>2. c' = c /\ r.q = q
      BY <3>1 DEF r
    <3> QED BY <3>2, <2>1, <2>2, <1>0
  <2>4. CASE q = <<>> => src.done
    <3>1. Answered(c, r.c) /\ Chain(Base(r.c), <<>>, r.q, m)
      BY <2>2, <2>4, <1>3, <1>4, FinishZeroAnswers
    <3>2. WriterRests(r.c)
      BY <3>1, <1>4, AnsweredRests
    <3>3. c' = r.c
      BY DEF r
    <3> QED BY <3>1, <3>2, <3>3, <2>1
  <2> QED BY <2>3, <2>4
<1> HIDE DEF r
<1>6. src' = [src EXCEPT !.queue = r.q]
  BY DEF r
<1> QED BY <1>1, <1>5, <1>6, OldestLeaves

(* The injection goes on with what it holds, or the stream ends. *)
LEMMA ValuesFinish ==
    ASSUME Injected, HostState, inj # <<>>, inj[1].woken, ~inj[1].zero, ~ReadGone(c),
           NEW values, values = inj[1].values \o drainInto(src.queue, inj[1].want),
           NEW q, q = Rest(src.queue, inj[1].want),
           UNCHANGED <<mode, host, timer>>, inj' = Tail(inj),
           c' = Finish(c, q, values).c,
           src' = [src EXCEPT !.queue = Finish(c, q, values).q]
    PROVE  HostState'
<1> DEFINE i == inj[1]
           r == Finish(c, q, values)
<1>0. /\ WriterRests(c) /\ Chain(Base(c), i.values, src.queue, src.next - 1)
      /\ src.next - 1 \in Nat /\ src.next - 1 <= MaxElem
      /\ inj \in Seq(InjectionType) /\ i \in InjectionType
  <2>1. /\ WriterRests(c) /\ Chain(Base(c), i.values, src.queue, src.next - 1)
        /\ inj \in Seq(InjectionType) /\ i \in InjectionType
    BY OthersWait DEF HostState, Flow
  <2>2. src.next \in Nat /\ src.next >= 1 /\ src.next - 1 <= MaxElem
    BY DEF HostState, Flow, SourceType
  <2> QED BY <2>1, <2>2
<1>1. 1 \in 1 .. Len(inj) /\ i.want \in Nat /\ i.values \in Seq(1 .. MaxElem)
      /\ src.queue \in Seq(1 .. MaxElem)
  BY <1>0, EmptySeq DEF InjectionType, Chain
<1>2. PICK m, k, n : m = src.next - 1 /\ k = Smaller(i.want, Len(src.queue)) /\ n = Len(i.values)
  OBVIOUS
<1>3. /\ Chain(Base(c), values, q, m) /\ m \in Nat /\ m <= MaxElem
      /\ Len(values) = n + k /\ Len(q) = Len(src.queue) - k
  <2>1. PICK b, held, s, w : b = Base(c) /\ held = i.values /\ s = src.queue /\ w = i.want
    OBVIOUS
  <2>2. Chain(b, held, s, m) /\ w \in Nat
    BY <2>1, <1>0, <1>1, <1>2
  <2>3. /\ Chain(b, held \o drainInto(s, w), Rest(s, w), m)
        /\ Len(held \o drainInto(s, w)) = Len(held) + Smaller(w, Len(s))
        /\ Len(Rest(s, w)) = Len(s) - Smaller(w, Len(s))
    BY <2>2, Taken
  <2> QED BY <2>1, <2>3, <1>0, <1>2
<1>4. k \in Nat /\ k <= i.want /\ k <= Len(src.queue) /\ n \in Nat /\ Len(src.queue) \in Nat
  <2>1. Len(src.queue) \in Nat /\ n \in Nat
    BY <1>1, <1>2
  <2>2. PICK a, b : a = i.want /\ b = Len(src.queue)
    OBVIOUS
  <2>3. a \in Nat /\ b \in Nat /\ k = Smaller(a, b)
    BY <2>1, <2>2, <1>1, <1>2
  <2>4. k \in Nat /\ k <= a /\ k <= b
    BY <2>3 DEF Smaller
  <2> QED BY <2>1, <2>2, <2>4
<1>5. c.end["R"].ev = "none" /\ c.pend # "none"
  BY DEF ReadGone
<1>6. /\ c.pend = "R" /\ c.end["R"].done = 0 /\ c.end["R"].cap >= i.want + n
      /\ c.end["R"].cap \in Nat /\ (mode = "hostWriterCancel" => c.end["R"].cap = 1)
  <2>0. c.end["R"].cap \in Nat
    <3>1. c.end["R"].cap \in 0 .. MaxElem
      BY <1>0, StreamFields, EndFields DEF WriterRests, Good, Ends
    <3> QED BY <3>1, Bounds
  <2>1. CASE mode = "hostWriter"
    BY <2>0, <2>1, <1>2 DEF HostState, Lone, ServesRead
  <2>2. CASE mode = "hostWriterCancel"
    <3>1. Singly
      BY <2>2 DEF HostState
    <3>2. i.want = 1 /\ i.values = <<>> /\ c.pend # "W" /\ OneRead(c)
      BY <3>1, <1>1 DEF Singly
    <3>3. c.pend \in {"R", "W", "none"}
      BY <1>0, StreamFields DEF WriterRests, Good, Ends
    <3>4. c.pend = "R" /\ c.end["R"].done = 0 /\ c.end["R"].cap = 1
      BY <3>2, <3>3, <1>5 DEF OneRead
    <3>5. n = 0 /\ 1 >= 1 + 0
      BY <3>2, <1>2
    <3> QED BY <2>0, <3>2, <3>4, <3>5
  <2> QED BY <2>1, <2>2 DEF Injected
<1>7. Asks(c) /\ Copies(c, "R")
  BY <1>0, <1>5, <1>6, WaitingAsks
<1>8. Len(values) <= remaining(c, "R")
  <2>1. remaining(c, "R") = c.end["R"].cap
    BY <1>6 DEF remaining
  <2>2. PICK a, b : a = i.want /\ b = c.end["R"].cap
    OBVIOUS
  <2>3. n + k <= b
    BY <2>2, <1>1, <1>4, <1>6
  <2> QED BY <2>1, <2>2, <2>3, <1>3
<1>9. /\ WriterRests(r.c) /\ Chain(Base(r.c), <<>>, r.q, m)
      /\ r.q = q /\ r.c.pend \in {"none", "R"}
      /\ r.c.pend = "R" => /\ r.c.end["R"].cap = c.end["R"].cap
                           /\ r.c.end["R"].done = c.end["R"].done + Len(values)
                           /\ r.c.end["R"].ev = "none" <=> values = <<>>
  <2>1. PICK vs, p : vs = values /\ p = q
    OBVIOUS
  <2>0. PICK t : t = Finish(c, p, vs)
    OBVIOUS
  <2>2. /\ Chain(Base(c), vs, p, m) /\ m \in Nat /\ m <= MaxElem
        /\ Len(vs) <= remaining(c, "R")
    BY <2>1, <1>3, <1>8
  <2>3. /\ WriterRests(t.c) /\ Chain(Base(t.c), <<>>, t.q, m)
        /\ t.q = p /\ t.c.pend \in {"none", "R"}
        /\ t.c.pend = "R" => /\ t.c.end["R"].cap = c.end["R"].cap
                             /\ t.c.end["R"].done = c.end["R"].done + Len(vs)
                             /\ t.c.end["R"].ev = "none" <=> vs = <<>>
    <3>1. CASE vs = <<>> => src.done
      <4>1. /\ Answered(c, t.c) /\ Chain(Base(t.c), <<>>, t.q, m)
            /\ t.q = p /\ t.c.pend \in {"none", "R"}
            /\ t.c.pend = "R" => /\ vs # <<>> /\ t.c.end["R"].cap = c.end["R"].cap
                                 /\ t.c.end["R"].done = c.end["R"].done + Len(vs)
        BY <3>1, <2>0, <2>2, <1>7, FinishAnswers
      <4>2. WriterRests(t.c) /\ t.c.end["R"].ev # "none"
        BY <4>1, <1>7, AnsweredRests DEF Answered
      <4> QED BY <4>1, <4>2
    <3>2. CASE vs = <<>> /\ ~src.done
      <4>1. PICK u : u = writeMany(c, vs)
        OBVIOUS
      <4>2. t = [c |-> u, q |-> p]
        BY <3>2, <4>1, <2>0, <1>5 DEF Finish
      <4>3. u = writeMany(c, <<>>)
        BY <4>1, <3>2
      <4>4. WriterRests(u) /\ Base(u) = Base(c) /\ u.pend = "R" /\ u.end["R"] = c.end["R"]
        BY <4>3, <1>0, <1>6, <1>7, WriteNothing
      <4>5. c.end["R"].done + Len(vs) = c.end["R"].done
        <5>1. Len(vs) = 0
          BY <3>2
        <5> QED BY <5>1, <1>6
      <4>6. Chain(Base(u), <<>>, p, m)
        BY <4>4, <3>2, <2>2
      <4> QED BY <4>2, <4>4, <4>5, <4>6, <3>2, <1>5
    <3> QED BY <3>1, <3>2
  <2>4. r = t
    BY <2>0, <2>1
  <2> HIDE DEF r
  <2> QED BY <2>1, <2>3, <2>4
<1>10. c' = r.c /\ src' = [src EXCEPT !.queue = r.q]
  OBVIOUS
<1> HIDE DEF r
<1>11. WriterRests(c') /\ Chain(Base(c'), <<>>, r.q, src.next - 1)
  BY <1>2, <1>9, <1>10
<1>12. ASSUME mode = "hostWriterCancel"
       PROVE  /\ c'.pend # "W" /\ OneRead(c') /\ Len(r.q) <= 1
              /\ r.q # <<>> => ~src.reading /\ ~(c'.pend = "R" /\ c'.end["R"].ev = "none")
  <2>1. i.want = 1 /\ i.values = <<>> /\ Len(src.queue) <= 1
    BY <1>1, <1>12 DEF HostState, Singly
  <2>2. k = Len(src.queue) /\ n = 0
    <3>1. k = Smaller(1, Len(src.queue))
      BY <2>1, <1>2
    <3>2. PICK l : l = Len(src.queue)
      OBVIOUS
    <3>3. l \in Nat /\ l <= 1 /\ k = Smaller(1, l)
      BY <3>1, <3>2, <2>1, <1>4
    <3>4. k = l
      BY <3>3 DEF Smaller
    <3>5. n = 0
      BY <2>1, <1>2
    <3> QED BY <3>2, <3>4, <3>5
  <2>3. Len(q) = 0 /\ q \in Seq(1 .. MaxElem)
    BY <2>2, <1>3, <1>4 DEF Chain
  <2>4. r.q = <<>> /\ Len(r.q) <= 1
    BY <2>3, <1>9, EmptySeq
  <2>5. c'.pend = "R" /\ values # <<>> =>
           c'.end["R"].cap = 1 /\ c'.end["R"].done = 1 /\ c'.end["R"].ev # "none"
    <3> SUFFICES ASSUME c'.pend = "R", values # <<>>
                 PROVE  c'.end["R"].cap = 1 /\ c'.end["R"].done = 1 /\ c'.end["R"].ev # "none"
      OBVIOUS
    <3>1. values # <<>> /\ values \in Seq(1 .. MaxElem)
      BY <1>3 DEF Chain
    <3>2. Len(values) # 0
      BY <3>1, EmptySeq
    <3>3. Len(values) = 1
      <4>1. PICK l, u : l = Len(values) /\ u = Len(src.queue)
        OBVIOUS
      <4>2. l = n + k /\ n = 0 /\ k = u /\ u <= 1 /\ l # 0 /\ k \in Nat
        BY <4>1, <3>2, <2>1, <2>2, <1>3, <1>4
      <4>3. l = 1
        BY <4>2
      <4> QED BY <4>1, <4>3
    <3>4. c.end["R"].cap = 1 /\ c.end["R"].done + Len(values) = 1
      BY <3>3, <1>6, <1>12
    <3> QED BY <3>1, <3>4, <1>9, <1>10
  <2>6. c'.pend = "R" /\ values = <<>> =>
           c'.end["R"].cap = 1 /\ c'.end["R"].done = 0 /\ c'.end["R"].ev = "none"
    <3>1. values = <<>> => c.end["R"].done + Len(values) = 0
      <4>1. values = <<>> => Len(values) = 0
        OBVIOUS
      <4>2. 0 + 0 = 0
        OBVIOUS
      <4> QED BY <4>1, <4>2, <1>6
    <3> QED BY <3>1, <1>6, <1>9, <1>10, <1>12
  <2>7. OneRead(c')
    BY <2>5, <2>6 DEF OneRead
  <2> QED BY <2>4, <2>7, <1>9, <1>10
<1>13. PICK p : p = r.q
  OBVIOUS
<1>14. src' = [src EXCEPT !.queue = p]
  BY <1>10, <1>13
<1> QED BY <1>11, <1>12, <1>13, <1>14, OldestLeaves

(* The oldest injection goes on after its await. *)
LEMMA ResumeStep ==
    ASSUME Injected, HostState, InjectResumes
    PROVE  HostState'
<1> DEFINE i == inj[1]
           d == drainInto(src.queue, i.want)
           r == IF i.zero THEN FinishZero(c, src.queue)
                ELSE Finish(c, Rest(src.queue, i.want), i.values \o d)
<1>0. inj # <<>> /\ i.woken /\ Head(inj) = i /\ UNCHANGED <<mode, host, timer>>
  BY OthersWait DEF InjectResumes
<1>1. CASE ReadGone(c)
  <2>1. /\ src' = [src EXCEPT !.queue = bail(i.values, src.queue)]
        /\ inj' = Tail(inj) /\ UNCHANGED c
    BY <1>0, <1>1 DEF InjectResumes
  <2> QED BY <2>1, <1>0, <1>1, GivesUp
<1>2. CASE ~ReadGone(c) /\ ~i.zero /\ i.values \o d = <<>> /\ ~src.done /\ WantAfter(i) > 0
  <2>1. /\ inj' = Append(Tail(inj), [i EXCEPT !.want = WantAfter(i), !.woken = FALSE])
        /\ src' = [src EXCEPT !.reading = TRUE] /\ UNCHANGED c
    BY <1>0, <1>2 DEF InjectResumes
  <2> QED BY <2>1, <1>0, <1>2, WaitsAgain
<1>3. CASE ~ReadGone(c) /\ ~(~i.zero /\ i.values \o d = <<>> /\ ~src.done /\ WantAfter(i) > 0)
  <2>1. c' = r.c /\ src' = [src EXCEPT !.queue = r.q] /\ inj' = Tail(inj)
    <3> HIDE DEF d, i
    <3> QED BY <1>0, <1>3 DEF InjectResumes, d
  <2>2. CASE i.zero
    <3>1. r = FinishZero(c, src.queue)
      BY <2>2
    <3> HIDE DEF r
    <3> QED BY <3>1, <2>1, <2>2, <1>0, ZeroFinishes
  <2>3. CASE ~i.zero
    <3>1. PICK values, q : values = i.values \o d /\ q = Rest(src.queue, i.want)
      OBVIOUS
    <3>2. r = Finish(c, q, values)
      BY <3>1, <2>3
    <3> HIDE DEF r
    <3>3. values = inj[1].values \o drainInto(src.queue, inj[1].want)
      BY <3>1
    <3> QED BY <3>1, <3>2, <3>3, <2>1, <2>3, <1>0, <1>3, ValuesFinish
  <2> QED BY <2>2, <2>3
<1> QED BY <1>1, <1>2, <1>3

(* When a read may start, the injections hold nothing; without cancellation  *)
(* there is none.                                                            *)
LEMMA NothingHeld ==
    ASSUME Injected, HostState, ~c.dropped, c.end["R"].copy = "IDLE"
    PROVE  /\ c.pend \in {"none", "W"} /\ HeldBy(inj) = <<>>
           /\ mode = "hostWriter" => inj = <<>> /\ timer = 0
           /\ mode = "hostWriterCancel" => c.pend = "none"
<1>1. c \in StreamType /\ Counted(c) /\ EndSound(c, "R") /\ c.pend \in {"none", "R", "W"}
  BY StreamFields DEF HostState, WriterRests, Good, Sound, Ends
<1>2. c.pend # "R"
  BY <1>1, IdleHasNothing DEF Ends
<1>3. mode = "hostWriter" => inj = <<>> /\ timer = 0
  BY <1>2 DEF HostState, Lone, ServesRead
<1>4. mode = "hostWriterCancel" => HeldBy(inj) = <<>> /\ c.pend = "none"
  <2> SUFFICES ASSUME mode = "hostWriterCancel" PROVE HeldBy(inj) = <<>> /\ c.pend = "none"
    OBVIOUS
  <2>1. Singly /\ inj \in Seq(InjectionType)
    BY DEF HostState
  <2>2. \A i \in 1 .. Len(inj) : inj[i].values = <<>>
    BY <2>1 DEF Singly
  <2> QED BY <2>1, <2>2, <1>1, <1>2, HoldNothing DEF Singly
<1> QED BY <1>1, <1>2, <1>3, <1>4 DEF HeldBy, Injected

(* The read blocks and an injection starts that waits for the iterator. *)
LEMMA InjectionStarts ==
    ASSUME Injected, HostState, ~c.dropped, c.end["R"].copy = "IDLE", c.pend = "none",
           NEW n \in Nat, n <= MaxElem, mode = "hostWriterCancel" => n = 1,
           NEW values, NEW rest, Chain(Base(c), values, rest, src.next - 1),
           Len(values) = Len(src.queue), Len(rest) = 0,
           IF n = 0 THEN Len(values) = 0 ELSE Len(values) < n,
           WriterRests(c'), Base(c') = Base(c), c'.pend = "R", c'.end["R"].ev = "none",
           c'.end["R"].cap = n, c'.end["R"].done = 0,
           UNCHANGED <<mode, host, timer>>,
           NEW x, x = NewInjection(n = 0, n - Len(values), values),
           inj' = Append(inj, x), src' = [src EXCEPT !.queue = rest, !.reading = TRUE]
    PROVE  HostState'
<1> DEFINE k == Len(inj)
           l == Len(values)
<1>0. /\ src \in SourceType
      /\ src.next >= 1 /\ src.next - 1 <= MaxElem /\ inj \in Seq(InjectionType)
  BY DEF HostState, Flow
<1>1. values \in Seq(1 .. MaxElem) /\ rest \in Seq(1 .. MaxElem)
  BY DEF Chain
<1>2. rest = <<>>
  BY <1>1, EmptySeq
<1>3. l \in Nat /\ n - l \in Nat /\ (n - l) + l = n
  <2>1. l \in Nat
    BY <1>1
  <2> HIDE DEF l
  <2>2. IF n = 0 THEN l = 0 ELSE l < n
    BY DEF l
  <2> QED BY <2>1, <2>2
<1> HIDE DEF l, k
<1>4. /\ x \in InjectionType /\ (x.zero <=> n = 0) /\ x.want = n - l /\ x.values = values /\ ~x.woken
  BY <1>1, <1>3 DEF NewInjection, InjectionType, l
<1>5. /\ inj' \in Seq(InjectionType) /\ inj' # <<>> /\ Len(inj') = k + 1
      /\ (\A j \in 1 .. k : inj'[j] = inj[j]) /\ inj'[k + 1] = x
  BY <1>0, <1>4, AppendProperties DEF k
<1>6. k \in Nat /\ \A j \in 1 .. Len(inj') : j \in 1 .. k \/ j = k + 1
  <2>1. k \in Nat
    BY <1>0 DEF k
  <2> QED BY <2>1, <1>5
<1>7. mode = "hostWriter" => inj'[1] = x /\ Len(inj') = 1 /\ timer = 0
  <2> SUFFICES ASSUME mode = "hostWriter" PROVE inj'[1] = x /\ Len(inj') = 1 /\ timer = 0
    OBVIOUS
  <2>1. k = 0 /\ timer = 0
    BY NothingHeld DEF k
  <2>2. k + 1 = 1
    BY <2>1
  <2> QED BY <2>1, <2>2, <1>5
<1>8. mode = "hostWriterCancel" =>
         /\ values = <<>>
         /\ \A j \in 1 .. Len(inj') : ~inj'[j].zero /\ inj'[j].values = <<>> /\ inj'[j].want = 1
  <2> SUFFICES ASSUME mode = "hostWriterCancel"
               PROVE  /\ values = <<>>
                      /\ \A j \in 1 .. Len(inj') : /\ ~inj'[j].zero /\ inj'[j].values = <<>>
                                                   /\ inj'[j].want = 1
    OBVIOUS
  <2>1. n = 1 /\ l < n
    BY DEF l
  <2>2. l = 0
    BY <2>1, <1>3
  <2>3. values = <<>>
    BY <2>2, <1>1, EmptySeq DEF l
  <2>4. ~x.zero /\ x.values = <<>> /\ x.want = 1
    BY <2>1, <2>2, <2>3, <1>4
  <2>5. \A j \in 1 .. k : ~inj[j].zero /\ inj[j].values = <<>> /\ inj[j].want = 1
    BY DEF HostState, Singly, k
  <2>6. \A j \in 1 .. Len(inj') : ~inj'[j].zero /\ inj'[j].values = <<>> /\ inj'[j].want = 1
    BY <2>4, <2>5, <1>5, <1>6
  <2> QED BY <2>3, <2>6
<1>9. HeldBy(inj') = values
  <2>1. CASE mode = "hostWriter"
    BY <2>1, <1>4, <1>5, <1>7 DEF HeldBy
  <2>2. CASE mode = "hostWriterCancel"
    <3>1. values = <<>> /\ \A j \in 1 .. Len(inj') : inj'[j].values = <<>>
      BY <2>2, <1>8
    <3> QED BY <3>1, <1>5, HoldNothing
  <2> QED BY <2>1, <2>2 DEF Injected
<1>10. /\ src' \in SourceType /\ src'.last = src.last
       /\ src'.queue = rest /\ src'.next = src.next /\ src'.reading
  BY <1>0, <1>1 DEF SourceType
<1>11. Flow'
  BY <1>0, <1>9, <1>10 DEF Flow
<1>12. (\A j \in 1 .. HostReads : host.st[j] = "new")'
  BY DEF HostState
<1>13. (mode = "hostWriter" => Lone)'
  <2> SUFFICES ASSUME mode = "hostWriter" PROVE Lone'
    OBVIOUS
  <2>1. n >= x.want + Len(x.values)
    BY <1>3, <1>4 DEF l
  <2>2. ServesRead(c', x)
    BY <2>1, <1>4 DEF ServesRead
  <2>3. inj'[1] = x /\ timer' = 0
    BY <1>7
  <2>4. Len(inj') <= 1
    <3>1. PICK u : u = Len(inj')
      OBVIOUS
    <3>2. u = 1
      BY <3>1, <1>7
    <3>3. u <= 1
      BY <3>2
    <3> QED BY <3>1, <3>3, Zenon
  <2>5. ServesRead(c', inj'[1])
    BY <2>2, <2>3
  <2> QED BY <2>3, <2>4, <2>5, <1>4, <1>5 DEF Lone
<1>14. (mode = "hostWriterCancel" => Singly)'
  <2> SUFFICES ASSUME mode = "hostWriterCancel" PROVE Singly'
    OBVIOUS
  <2>1. OneRead(c)' /\ c'.pend # "W" /\ 1 <= MaxElem
    BY DEF OneRead
  <2>2. \E j \in 1 .. Len(inj') : ~inj'[j].woken
    <3>1. k + 1 \in 1 .. Len(inj')
      BY <1>5, <1>6
    <3> QED BY <3>1, <1>4, <1>5
  <2>3. src'.queue = <<>> /\ Len(src'.queue) <= 1 /\ src'.last # "thrown"
    BY <1>2, <1>10 DEF HostState, Singly
  <2> QED BY <2>1, <2>2, <2>3, <1>8 DEF Singly
<1> QED BY <1>5, <1>11, <1>12, <1>13, <1>14 DEF HostState

(* The read is answered at once: the injection does not wait. *)
LEMMA AnsweredAtOnce ==
    ASSUME Injected, HostState, ~c.dropped, c.end["R"].copy = "IDLE", c.pend = "none",
           WriterRests(c'), UNCHANGED <<mode, host, timer, inj>>, NEW q,
           src' = [src EXCEPT !.queue = q], Chain(Base(c'), <<>>, q, src.next - 1),
           mode = "hostWriterCancel" => c'.pend = "none" /\ Len(q) = 0
    PROVE  HostState'
<1>0. /\ src \in SourceType
      /\ src.next >= 1 /\ src.next - 1 <= MaxElem /\ inj \in Seq(InjectionType)
  BY DEF HostState, Flow
<1>1. HeldBy(inj) = <<>> /\ (mode = "hostWriter" => inj = <<>> /\ timer = 0)
  BY NothingHeld
<1>2. q \in Seq(1 .. MaxElem)
  BY DEF Chain
<1>3. /\ src' \in SourceType /\ src'.last = src.last
      /\ src'.queue = q /\ src'.next = src.next /\ src'.reading = src.reading
  BY <1>0, <1>2 DEF SourceType
<1>4. Flow'
  BY <1>0, <1>1, <1>3 DEF Flow
<1>5. inj' \in Seq(InjectionType) /\ (\A i \in 1 .. HostReads : host.st[i] = "new")'
  BY <1>0 DEF HostState
<1>6. (mode = "hostWriter" => Lone)'
  <2>1. Len(<<>>) <= 1
    OBVIOUS
  <2>2. mode = "hostWriter" => ~src'.reading
    BY <1>1, <1>3 DEF HostState, Lone
  <2> QED BY <2>1, <2>2, <1>1 DEF Lone
<1>7. (mode = "hostWriterCancel" => Singly)'
  <2> SUFFICES ASSUME mode = "hostWriterCancel" PROVE Singly'
    OBVIOUS
  <2>1. Singly
    BY DEF HostState
  <2>2. src'.queue = <<>> /\ Len(src'.queue) <= 1
    <3>1. q = <<>> /\ Len(<<>>) <= 1
      BY <1>2, EmptySeq
    <3> QED BY <3>1, <1>3
  <2>3. c'.pend # "W" /\ c'.pend # "R" /\ OneRead(c)'
    BY DEF OneRead
  <2>4. \A i \in 1 .. Len(inj') : ~inj'[i].zero /\ inj'[i].values = <<>> /\ inj'[i].want = 1
    BY <2>1 DEF Singly
  <2>5. src'.reading => \E i \in 1 .. Len(inj') : ~inj'[i].woken
    BY <2>1, <1>3 DEF Singly
  <2>6. (inj' # <<>> => 1 <= MaxElem) /\ src'.last # "thrown"
    BY <2>1, <1>3 DEF Singly
  <2> QED BY <2>2, <2>3, <2>4, <2>5, <2>6 DEF Singly
<1> QED BY <1>4, <1>5, <1>6, <1>7 DEF HostState

(* A read finds the element that answered an earlier read of nothing. *)
LEMMA ReadParked ==
    ASSUME Injected, HostState, ~c.dropped, c.end["R"].copy = "IDLE", c.pend = "W",
           NEW n \in 0 .. MaxElem, NEW state, StreamReadInjected(n, state)
    PROVE  HostState'
<1> DEFINE s == Copied(c, "R", <<>>, n, NoReject)
           v == resetWriteEndToIdle(s)
<1>0. WriterRests(c)
  BY DEF HostState
<1>1. s.end["R"].ev # "none" /\ Answered(c, v) /\ Base(v) = Base(c)
  BY <1>0, ReadMeetsParked
<1>2. c' = getPendingEvent(v, "R") /\ UNCHANGED <<mode, host, src, inj, timer>>
  <2> HIDE DEF s
  <2> QED BY <1>1 DEF StreamReadInjected, s
<1> HIDE DEF s, v
<1>3. WriterRests(c') /\ Base(c') = Base(v) /\ c'.pend \in {"none", "W"}
  BY <1>1, <1>2, AnsweredTaken
<1>4. ReaderMoves(c, c')
  BY <1>1, <1>3 DEF ReaderMoves
<1>5. mode = "hostWriter" => inj = <<>> /\ timer' = 0
  BY <1>2, NothingHeld
<1> QED BY <1>2, <1>4, <1>5, ReaderStep

(* A read of the guest, with its injection up to the first await. *)
LEMMA ReadStep ==
    ASSUME Injected, HostState, SingleCancels, NEW n \in Counts, NEW state \in Blocking,
           StreamReadInjected(n, state)
    PROVE  HostState'
<1> DEFINE s == Copied(c, "R", <<>>, n, NoReject)
           q == src.queue
           values == drainInto(q, n)
           rest == Rest(q, n)
           blocked == [s EXCEPT !.end["R"].copy = state]
           r == IF n = 0 THEN FinishZero(s, q) ELSE Finish(s, rest, values)
           waits == ~src.done /\ (IF n = 0 THEN q = <<>> ELSE Len(q) < n)
<1>0. n \in 0 .. MaxElem /\ n \in Nat /\ n <= MaxElem /\ (mode = "hostWriterCancel" => n = 1)
  BY Bounds DEF StreamReadInjected, SingleCancels
<1>1. /\ WriterRests(c) /\ ~c.dropped /\ c.end["R"].copy = "IDLE"
      /\ UNCHANGED <<mode, host, timer>>
  BY DEF HostState, StreamReadInjected
<1>2. CASE c.pend = "W"
  BY <1>0, <1>1, <1>2, ReadParked
<1>3. CASE c.pend = "none"
  <2>0. /\ Asks(s) /\ s.end["R"].cap = n /\ s.end["R"].done = 0 /\ Base(s) = Base(c)
        /\ s.end["R"].ev = "none"
    BY <1>0, <1>1, <1>3, ReadAsks DEF Asks
  <2>1. /\ waits => /\ c' = blocked
                    /\ Awaits(NewInjection(n = 0, n - Len(values), values), rest)
        /\ ~waits => /\ c' = TakenOrBlocked(r.c, "R", state)
                     /\ src' = [src EXCEPT !.queue = r.q] /\ UNCHANGED inj
    <3> HIDE DEF s, values, rest
    <3> QED BY <2>0 DEF StreamReadInjected, s, values, rest
  <2> HIDE DEF s
  <2>2. /\ Chain(Base(c), <<>>, q, src.next - 1) /\ q \in Seq(1 .. MaxElem) /\ Len(q) \in Nat
        /\ src.next - 1 \in Nat /\ src.next - 1 <= MaxElem
    <3>1. src.next \in Nat /\ src.next >= 1 /\ src.next - 1 <= MaxElem
      BY DEF HostState, Flow, SourceType
    <3>2. Chain(Base(c), <<>>, q, src.next - 1)
      BY <1>1, NothingHeld DEF HostState, Flow
    <3>3. q \in Seq(1 .. MaxElem)
      BY <3>2 DEF Chain
    <3> QED BY <3>1, <3>2, <3>3
  <2>3. PICK m, k : m = src.next - 1 /\ k = Smaller(n, Len(q))
    OBVIOUS
  <2>4. Chain(Base(c), values, rest, m) /\ Len(values) = k /\ Len(rest) = Len(q) - k
    BY <2>2, <2>3, <1>0, TakenFirst
  <2>5. k \in Nat /\ k <= n /\ k <= Len(q) /\ (Len(q) <= n => k = Len(q)) /\ (Len(q) >= n => k = n)
    <3>1. PICK l : l = Len(q)
      OBVIOUS
    <3>2. l \in Nat /\ k = Smaller(n, l)
      BY <3>1, <2>2, <2>3
    <3>3. k \in Nat /\ k <= n /\ k <= l /\ (l <= n => k = l) /\ (l >= n => k = n)
      BY <3>2, <1>0 DEF Smaller
    <3> QED BY <3>1, <3>3
  <2>6. values \in Seq(1 .. MaxElem) /\ m \in Nat /\ m <= MaxElem
    BY <2>2, <2>3, <2>4 DEF Chain
  <2>7. CASE waits
    <3> HIDE DEF values, rest, blocked, r
    <3>1. Len(q) <= n /\ (IF n = 0 THEN Len(q) = 0 ELSE Len(q) < n)
      <4>1. CASE n = 0
        BY <4>1, <2>7
      <4>2. CASE n # 0
        BY <4>2, <2>2, <2>7, <1>0
      <4> QED BY <4>1, <4>2
    <3>2. k = Len(q)
      BY <3>1, <2>5
    <3>3. Len(values) = Len(src.queue) /\ Len(rest) = 0
      BY <3>2, <2>2, <2>4
    <3>4. IF n = 0 THEN Len(values) = 0 ELSE Len(values) < n
      BY <3>1, <3>3
    <3>5. /\ WriterRests(c') /\ Base(c') = Base(c) /\ c'.pend = "R"
          /\ c'.end["R"].ev = "none" /\ c'.end["R"].cap = n /\ c'.end["R"].done = 0
      <4>1. /\ WriterRests(blocked) /\ Base(blocked) = Base(s) /\ blocked.pend = "R"
            /\ blocked.end["R"].ev = "none" /\ blocked.end["R"].cap = s.end["R"].cap
            /\ blocked.end["R"].done = s.end["R"].done
        BY <2>0, BlockedRests DEF blocked
      <4>2. c' = blocked
        BY <2>1, <2>7
      <4> QED BY <4>1, <4>2, <2>0
    <3>6. PICK x : x = NewInjection(n = 0, n - Len(values), values)
      OBVIOUS
    <3>7. inj' = Append(inj, x) /\ src' = [src EXCEPT !.queue = rest, !.reading = TRUE]
      BY <3>6, <2>1, <2>7 DEF Awaits
    <3>8. Chain(Base(c), values, rest, src.next - 1)
      BY <2>3, <2>4
    <3> QED BY <3>3, <3>4, <3>5, <3>6, <3>7, <3>8, <1>0, <1>1, <1>3, InjectionStarts
  <2>8. CASE ~waits
    <3>1. PICK p, vs, w : p = q /\ vs = values /\ w = rest
      OBVIOUS
    <3>2. /\ Answered(s, r.c) /\ Chain(Base(r.c), <<>>, r.q, m)
          /\ n # 0 => r.q = rest /\ r.c.pend \in {"none", "R"}
      <4>1. CASE n = 0
        <5>1. p = <<>> => src.done
          BY <4>1, <3>1, <2>8
        <5>2. Chain(Base(s), <<>>, p, m)
          BY <3>1, <2>0, <2>2, <2>3
        <5>3. PICK t : t = FinishZero(s, p)
          OBVIOUS
        <5>4. Answered(s, t.c) /\ Chain(Base(t.c), <<>>, t.q, m)
          BY <5>1, <5>2, <5>3, <4>1, <2>0, <2>6, FinishZeroAnswers
        <5>5. r = t
          BY <5>3, <4>1, <3>1
        <5> HIDE DEF r
        <5> QED BY <5>4, <5>5, <4>1
      <4>2. CASE n # 0
        <5>1. vs = <<>> => src.done
          <6> SUFFICES ASSUME ~src.done PROVE vs # <<>>
            OBVIOUS
          <6>1. ~(Len(q) < n)
            BY <4>2, <2>8
          <6>2. k = n
            BY <6>1, <2>2, <2>5, <1>0
          <6>3. Len(values) # 0
            BY <6>2, <4>2, <2>4
          <6> QED BY <6>3, <3>1
        <5>2. Chain(Base(s), vs, w, m)
          BY <3>1, <2>0, <2>4
        <5>3. Len(vs) <= remaining(s, "R")
          <6>1. remaining(s, "R") = n
            BY <2>0, <1>0 DEF remaining
          <6>2. Len(vs) = k
            BY <3>1, <2>4
          <6> QED BY <6>1, <6>2, <2>5
        <5>4. PICK t : t = Finish(s, w, vs)
          OBVIOUS
        <5>5. Answered(s, t.c) /\ Chain(Base(t.c), <<>>, t.q, m)
              /\ t.q = w /\ t.c.pend \in {"none", "R"}
          BY <5>1, <5>2, <5>3, <5>4, <2>0, <2>6, FinishAnswers
        <5>6. r = t
          BY <5>4, <4>2, <3>1
        <5> HIDE DEF r
        <5> QED BY <5>5, <5>6, <3>1
      <4> QED BY <4>1, <4>2
    <3> HIDE DEF r
    <3>3. c' = getPendingEvent(r.c, "R")
      <4>1. r.c.end["R"].ev # "none"
        BY <3>2 DEF Answered
      <4> QED BY <4>1, <2>1, <2>8 DEF TakenOrBlocked
    <3>4. PICK a : a = r.c
      OBVIOUS
    <3>5. WriterRests(c') /\ Base(c') = Base(a) /\ c'.pend \in {"none", "W"} \cap {"none", a.pend}
      BY <3>2, <3>3, <3>4, AnsweredTaken
    <3>6. ASSUME mode = "hostWriterCancel"
          PROVE  c'.pend = "none" /\ Len(r.q) = 0
      <4>1. n = 1 /\ n # 0
        BY <3>6, <1>0
      <4>2. c'.pend = "none"
        BY <4>1, <3>2, <3>4, <3>5
      <4>3. Len(q) <= n
        BY <4>1, <3>6 DEF HostState, Singly
      <4>4. Len(rest) = 0
        BY <4>3, <2>2, <2>4, <2>5
      <4> QED BY <4>1, <4>2, <4>4, <3>2
    <3>7. PICK e : e = r.q
      OBVIOUS
    <3>8. Chain(Base(c'), <<>>, e, src.next - 1) /\ src' = [src EXCEPT !.queue = e]
      BY <3>2, <3>4, <3>5, <3>7, <2>1, <2>3, <2>8
    <3> QED BY <3>5, <3>6, <3>7, <3>8, <2>1, <2>8, <1>1, <1>3, AnsweredAtOnce
  <2> QED BY <2>7, <2>8
<1> QED BY <1>1, <1>2, <1>3, NothingHeld

(* The iterator threw: the injection is gone and its read waits on. *)
LEMMA FailStep ==
    ASSUME Injected, HostState, InjectFails
    PROVE  HostStopped'
<1>0. /\ inj # <<>> /\ src.last = "thrown" /\ inj' = Tail(inj) /\ Head(inj).woken
      /\ src' = [src EXCEPT !.error = src.error \/ c.end["R"].copy = "ASYNC_COPYING"]
      /\ UNCHANGED <<mode, c, host, timer>>
  BY DEF InjectFails
<1>1. mode = "hostWriter"
  BY <1>0 DEF Injected, HostState, Singly
<1>2. Lone
  BY <1>1 DEF HostState
<1>3. inj' = <<>> /\ Head(inj) = inj[1]
  BY <1>0, <1>1, OthersWait
<1>4. src \in SourceType /\ src.next >= 1 /\ src.next - 1 <= MaxElem
  BY DEF HostState, Flow
<1>5. src' \in SourceType /\ src'.next = src.next /\ src'.last = "thrown" /\ src'.reading = src.reading
  <2>1. (src.error \/ c.end["R"].copy = "ASYNC_COPYING") \in BOOLEAN
    OBVIOUS
  <2> QED BY <2>1, <1>0, <1>4 DEF SourceType
<1>6. ~src.reading /\ timer = 0 /\ ServesRead(c, inj[1])
  BY <1>0, <1>2, <1>3 DEF Lone
<1>7. WriterRests(c) /\ \A i \in 1 .. HostReads : host.st[i] = "new"
  BY DEF HostState
<1> QED BY <1>0, <1>1, <1>3, <1>4, <1>5, <1>6, <1>7 DEF HostStopped, ServesRead

(* The guest takes the error of the iterator: the stream is as it was. *)
LEMMA ErrorStep ==
    ASSUME TakeError
    PROVE  (HostState => HostState') /\ (HostStopped => HostStopped')
<1>1. src' = [src EXCEPT !.error = FALSE] /\ UNCHANGED <<mode, c, host, inj, timer>>
  BY DEF TakeError
<1>2. ASSUME src \in SourceType
      PROVE  /\ src' \in SourceType /\ src'.queue = src.queue /\ src'.next = src.next
             /\ src'.reading = src.reading /\ src'.last = src.last
  BY <1>1, <1>2 DEF SourceType
<1>3. HostState => HostState'
  BY <1>1, <1>2 DEF HostState, Flow, Lone, Singly
<1>4. HostStopped => HostStopped'
  BY <1>1, <1>2 DEF HostStopped
<1> QED BY <1>3, <1>4

(* Once an injection failed nothing moves but the error. *)
LEMMA StoppedStep ==
    ASSUME HostStopped, Next
    PROVE  TakeError
<1>1. /\ mode = "hostWriter" /\ ~src.reading /\ inj = <<>> /\ timer = 0
      /\ c.end["R"].ev = "none" /\ c.end["R"].copy \notin {"IDLE", "DONE"} /\ ~c.dropped
      /\ \A i \in 1 .. HostReads : host.st[i] = "new"
  BY WaitingAsks DEF HostStopped, Asks, Copies
<1>2. Injected /\ ~HeldByGuest("W") /\ 0 \in Nat
  BY <1>1 DEF Injected, HeldByGuest
<1>3. \A e \in Ends : ~CopyDropped(e) /\ ~TakeEvent(e) /\ ~StreamCancel(e) /\ ~StreamDrop(e)
  BY <1>1, <1>2 DEF CopyDropped, TakeEvent, StreamCancel, StreamDrop, Ends
<1>4. \A n, state : ~StreamWrite(n, state) /\ ~StreamRead(n, state) /\ ~StreamReadInjected(n, state)
  BY <1>1, <1>2 DEF StreamWrite, StreamRead, StreamReadInjected
<1>5. (\A i, n, reject : ~HostRead(i, n, reject)) /\ ~HostDrop
  BY <1>1 DEF HostRead, HostDrop
<1>6. \A i \in 1 .. HostReads : ~HostReadEnds(i) /\ \A n, reject : ~HostReadChained(i, n, reject)
  BY <1>1 DEF HostReadEnds, HostReadChained
<1>7. (\A k, done : ~SourceYields(k, done)) /\ ~SourceThrows
  BY <1>1 DEF SourceYields, SourceThrows, MaySettle
<1>8. ~InjectResumes /\ ~InjectFails /\ ~CancelTimer
  BY <1>1 DEF InjectResumes, InjectFails, CancelTimer
<1> QED BY <1>3, <1>4, <1>5, <1>6, <1>7, <1>8 DEF Next

(* A new stream of the host. *)
LEMMA InitHost == Init => HostInv
<1> SUFFICES ASSUME Init, Injected PROVE HostState
  BY DEF HostInv
<1>1. Good(c) /\ c.pend = "none" /\ ~c.dropped
  BY NewIsGood DEF Init
<1>2. /\ c.end["W"] = NewEnd /\ c.end["R"] = NewEnd
  BY DEF Init, Ends
<1>3. /\ c.end["W"].copy = "IDLE" /\ c.end["W"].ev = "none" /\ c.end["W"].told = 0
      /\ c.end["W"].cap = 0 /\ c.end["R"].reject = NoReject
  BY <1>2 DEF NewEnd
<1>4. WriterRests(c)
  <2>1. EndSound(c, "W")
    BY <1>1 DEF Good, Sound, Ends
  <2> QED BY <2>1, <1>1, <1>3 DEF WriterRests, WriterPart
<1>5. inj = <<>> /\ timer = 0 /\ inj \in Seq(InjectionType) /\ Len(inj) = 0
  BY DEF Init
<1>6. /\ src \in SourceType
      /\ src.queue = <<>> /\ src.next = 1 /\ ~src.reading /\ src.last = "none"
  <2>1. <<>> \in Seq(1 .. MaxElem)
    OBVIOUS
  <2> QED BY <2>1 DEF Init, SourceType
<1>7. Flow
  <2>1. Base(c) = 0 /\ HeldBy(inj) = <<>>
    BY <1>3, <1>5 DEF Base, HeldBy
  <2>2. Chain(0, <<>>, <<>>, 0)
    BY DEF Chain, CountsFrom
  <2>3. src.next - 1 = 0 /\ src.next >= 1
    BY <1>6
  <2> QED BY <2>1, <2>2, <2>3, <1>6, Bounds DEF Flow
<1>8. \A i \in 1 .. HostReads : host.st[i] = "new"
  BY DEF Init
<1>9. Lone
  BY <1>5, <1>6 DEF Lone
<1>10. Singly
  <2>1. c.pend # "W" /\ OneRead(c)
    BY <1>1 DEF OneRead
  <2>2. Len(src.queue) <= 1
    BY <1>6
  <2> QED BY <2>1, <2>2, <1>5, <1>6 DEF Singly
<1> QED BY <1>4, <1>5, <1>7, <1>8, <1>9, <1>10 DEF HostState

(* Every step of a stream of the host keeps its invariant. *)
LEMMA StepHost == HostInv /\ [Next]_vars => HostInv'
<1> SUFFICES ASSUME HostInv, [Next]_vars, (Injected /\ SingleCancels)'
             PROVE  HostState' \/ HostStopped'
  BY DEF HostInv
<1>0. mode' = mode
  BY DEF Next, vars, CopyDropped, TakeEvent, StreamCancel, StreamDrop, StreamWrite, StreamRead,
         StreamReadInjected, HostRead, HostReadChained, HostReadEnds, HostDrop, SourceYields,
         SourceThrows, InjectResumes, InjectFails, TakeError, CancelTimer
<1>a. Injected /\ SingleCancels /\ (HostState \/ HostStopped)
  BY <1>0 DEF Injected, SingleCancels, HostInv
<1>2. CASE UNCHANGED vars
  BY <1>a, <1>2 DEF vars, HostState, HostStopped, Flow, Lone, Singly
<1>b. CASE HostStopped /\ Next
  BY <1>b, StoppedStep, ErrorStep
<1> SUFFICES ASSUME HostState, Next PROVE HostState' \/ HostStopped'
  BY <1>a, <1>2, <1>b
<1>1. Injected /\ SingleCancels /\ HostState
  BY <1>a
<1>3. mode # "guest" /\ mode # "hostReader" /\ ~HeldByGuest("W")
  BY <1>1 DEF Injected, HeldByGuest
<1>4. ASSUME NEW e \in Ends, CopyDropped(e) \/ TakeEvent(e) \/ StreamCancel(e) \/ StreamDrop(e)
      PROVE  HostState'
  <2>1. e = "R"
    BY <1>3, <1>4 DEF CopyDropped, TakeEvent, StreamCancel, StreamDrop, Ends
  <2> QED BY <2>1, <1>1, <1>4, GuestStep
<1>5. ASSUME NEW n \in Counts, NEW state \in Blocking,
             StreamWrite(n, state) \/ StreamRead(n, state) \/ StreamReadInjected(n, state)
      PROVE  HostState'
  <2>1. StreamReadInjected(n, state)
    BY <1>3, <1>5 DEF StreamWrite, StreamRead
  <2> QED BY <2>1, <1>1, ReadStep
<1>6. /\ \A i, n, reject : ~HostRead(i, n, reject)
      /\ \A i \in 1 .. HostReads : ~HostReadEnds(i) /\ \A n, reject : ~HostReadChained(i, n, reject)
      /\ ~HostDrop
  <2>1. (\A i, n, reject : ~HostRead(i, n, reject)) /\ ~HostDrop
    BY <1>3 DEF HostRead, HostDrop
  <2>2. \A i \in 1 .. HostReads : host.st[i] # "copying" /\ host.st[i] # "chained"
    BY <1>1 DEF HostState
  <2> QED BY <2>1, <2>2 DEF HostReadEnds, HostReadChained
<1>7. CASE SourceThrows \/ \E k \in Chunks, done \in BOOLEAN : SourceYields(k, done)
  BY <1>1, <1>7, SourceStep
<1>8. CASE InjectResumes
  BY <1>1, <1>8, ResumeStep
<1>9. CASE InjectFails
  BY <1>1, <1>9, FailStep
<1>10. CASE TakeError
  BY <1>1, <1>10, ErrorStep
<1>11. CASE CancelTimer
  BY <1>1, <1>11, TimerStep
<1> QED BY <1>4, <1>5, <1>6, <1>7, <1>8, <1>9, <1>10, <1>11 DEF Next

(* Sequences that follow each other: the first two, then the fourth if there *)
(* is one, then the third; the others are empty.                             *)
InTurn(S, n, g, w, h, q) ==
    /\ Len(S[1]) = g /\ \A j \in 1 .. g : S[1][j] = j
    /\ Len(S[2]) = w /\ \A j \in 1 .. w : S[2][j] = g + j
    /\ Len(S[3]) = q /\ \A j \in 1 .. q : S[3][j] = g + w + h + j
    /\ IF n = 3 THEN h = 0 ELSE Len(S[4]) = h /\ \A j \in 1 .. h : S[4][j] = g + w + j
    /\ \A k \in 5 .. n : Len(S[k]) = 0

(* Where they hold a value. *)
Spots(S, n, v) ==
    {x \in (1 .. n) \X (1 .. MaxElem) : x[2] <= Len(S[x[1]]) /\ S[x[1]][x[2]] = v}

(* They hold every value once. *)
LEMMA OnePlace ==
    ASSUME NEW S, NEW n \in Nat, n >= 3,
           NEW g \in Nat, NEW w \in Nat, NEW h \in Nat, NEW q \in Nat,
           InTurn(S, n, g, w, h, q), g + w + h + q <= MaxElem
    PROVE  \A v \in 1 .. g + w + h + q : \E p : Spots(S, n, v) = {p}
<1> SUFFICES ASSUME NEW v \in 1 .. g + w + h + q PROVE \E p : Spots(S, n, v) = {p}
  OBVIOUS
<1> USE DEF InTurn
<1> DEFINE Spot(a, b) == a \in 1 .. n /\ b \in 1 .. MaxElem /\ b <= Len(S[a]) /\ S[a][b] = v
           First(a, b)  == a = 1 /\ b = v /\ v <= g
           Second(a, b) == a = 2 /\ b = v - g /\ v > g /\ v <= g + w
           Fourth(a, b) == a = 4 /\ b = v - (g + w) /\ v > g + w /\ v <= g + w + h
           Third(a, b)  == a = 3 /\ b = v - (g + w + h) /\ v > g + w + h
           At(a, b) == First(a, b) \/ Second(a, b) \/ Fourth(a, b) \/ Third(a, b)
<1>0. v \in Nat /\ v >= 1 /\ v <= g + w + h + q /\ MaxElem \in Nat
  BY Bounds
<1>1. ASSUME NEW a, NEW b, Spot(a, b) PROVE At(a, b)
  <2>0. a \in 1 .. n /\ b \in Nat /\ b >= 1 /\ b <= Len(S[a]) /\ S[a][b] = v
    BY <1>0, <1>1
  <2>1. CASE a = 1
    <3>1. b \in 1 .. g
      BY <2>0, <2>1
    <3>2. v = b
      BY <3>1, <2>0, <2>1
    <3> QED BY <3>1, <3>2, <2>1
  <2>2. CASE a = 2
    <3>1. b \in 1 .. w
      BY <2>0, <2>2
    <3>2. v = g + b
      BY <3>1, <2>0, <2>2
    <3> QED BY <3>1, <3>2, <2>2
  <2>3. CASE a = 3
    <3>1. b \in 1 .. q
      BY <2>0, <2>3
    <3>2. v = g + w + h + b
      BY <3>1, <2>0, <2>3
    <3> QED BY <3>1, <3>2, <2>3
  <2>4. CASE a = 4
    <3>1. n # 3
      BY <2>0, <2>4
    <3>2. b \in 1 .. h
      BY <3>1, <2>0, <2>4
    <3>3. v = g + w + b
      BY <3>1, <3>2, <2>0, <2>4
    <3> QED BY <3>2, <3>3, <2>4
  <2>5. CASE a \in 5 .. n
    <3>1. Len(S[a]) = 0
      BY <2>5
    <3> QED BY <3>1, <2>0
  <2> QED BY <2>0, <2>1, <2>2, <2>3, <2>4, <2>5
<1>2. \E a, b : At(a, b) /\ Spot(a, b)
  <2>1. CASE v <= g
    <3>1. v \in 1 .. g /\ v \in 1 .. MaxElem
      BY <2>1, <1>0
    <3>2. Spot(1, v)
      BY <3>1
    <3>3. At(1, v)
      BY <2>1
    <3> QED BY <3>2, <3>3
  <2>2. CASE v > g /\ v <= g + w
    <3> DEFINE b == v - g
    <3>1. b \in 1 .. w /\ b \in 1 .. MaxElem /\ g + b = v
      BY <2>2, <1>0
    <3> HIDE DEF b
    <3>2. Spot(2, b)
      BY <3>1
    <3>3. At(2, b)
      BY <2>2 DEF b
    <3> QED BY <3>2, <3>3
  <2>3. CASE v > g + w /\ v <= g + w + h
    <3> DEFINE b == v - (g + w)
    <3>1. b \in 1 .. h /\ b \in 1 .. MaxElem /\ g + w + b = v /\ n # 3
      BY <2>3, <1>0
    <3> HIDE DEF b
    <3>2. Spot(4, b)
      BY <3>1
    <3>3. At(4, b)
      BY <2>3 DEF b
    <3> QED BY <3>2, <3>3
  <2>4. CASE v > g + w + h
    <3> DEFINE b == v - (g + w + h)
    <3>1. b \in 1 .. q /\ b \in 1 .. MaxElem /\ g + w + h + b = v
      BY <2>4, <1>0
    <3> HIDE DEF b
    <3>2. Spot(3, b)
      BY <3>1
    <3>3. At(3, b)
      BY <2>4 DEF b
    <3> QED BY <3>2, <3>3
  <2> QED BY <2>1, <2>2, <2>3, <2>4, <1>0
<1>3. ASSUME NEW a, NEW b, NEW d, NEW e, At(a, b), At(d, e) PROVE a = d /\ b = e
  BY <1>0, <1>3
<1>4. PICK a, b : At(a, b) /\ Spot(a, b)
  BY <1>2
<1> HIDE DEF At
<1>5. ASSUME NEW x \in Spots(S, n, v) PROVE x = <<a, b>>
  <2>1. x \in (1 .. n) \X (1 .. MaxElem) /\ x[2] <= Len(S[x[1]]) /\ S[x[1]][x[2]] = v
    BY DEF Spots
  <2>2. x = <<x[1], x[2]>> /\ Spot(x[1], x[2])
    BY <2>1
  <2>3. x[1] = a /\ x[2] = b
    BY <2>2, <1>1, <1>3, <1>4
  <2> QED BY <2>2, <2>3
<1>6. <<a, b>> \in Spots(S, n, v)
  BY <1>4 DEF Spots
<1>7. Spots(S, n, v) = {<<a, b>>}
  BY <1>5, <1>6
<1> QED BY <1>7

(* The stores of a stream of the host, and the values they hold. *)
LEMMA StoresHold ==
    ASSUME Injected, HostState,
           NEW g, g = Len(c.got), NEW w, w = c.end["W"].cap - c.end["W"].done,
           NEW h, h = Len(HeldBy(inj)), NEW q, q = Len(src.queue)
    PROVE  /\ g \in Nat /\ w \in Nat /\ h \in Nat /\ q \in Nat
           /\ g + w + h + q = src.next - 1 /\ src.next - 1 <= MaxElem
           /\ Len(Stores) = 3 + Len(inj) /\ Len(inj) \in Nat
           /\ InTurn(Stores, 3 + Len(inj), g, w, h, q)
<1> DEFINE n == Len(inj)
           x == c.end["W"]
           part == SubSeq(x.data, x.done + 1, x.cap)
           three == <<c.got, part, src.queue>>
           held == [i \in DOMAIN inj |-> inj[i].values]
<1>0. /\ inj \in Seq(InjectionType) /\ n \in Nat /\ DOMAIN inj = 1 .. n
      /\ \A i \in 1 .. n : inj[i].values \in Seq(1 .. MaxElem)
  <2>1. inj \in Seq(InjectionType)
    BY DEF HostState
  <2>2. \A i \in 1 .. n : inj[i] \in InjectionType
    BY <2>1, ElementOfSeq
  <2> QED BY <2>1, <2>2 DEF InjectionType
<1>1. /\ c \in StreamType /\ Counted(c) /\ c.got \in Seq(1 .. MaxElem) /\ x \in EndType
  BY StreamFields DEF HostState, WriterRests, Good, Ends
<1>2. /\ x.cap \in Nat /\ x.done \in Nat /\ x.told \in Nat /\ x.done <= x.cap
      /\ x.data \in Seq(1 .. MaxElem) /\ Len(x.data) = x.cap /\ g \in Nat /\ x.told + x.done = g
      /\ \A i \in 1 .. x.cap : x.data[i] = x.told + i
  <2>1. /\ x.cap \in 0 .. MaxElem /\ x.done \in 0 .. MaxElem /\ x.told \in 0 .. MaxElem
        /\ x.data \in Seq(1 .. MaxElem)
    BY <1>1, EndFields
  <2>2. g \in Nat
    BY <1>1
  <2>3. x.cap \in Nat /\ x.done \in Nat /\ x.told \in Nat
    BY <2>1, Bounds
  <2>4. /\ x.done <= x.cap /\ Len(x.data) = x.cap /\ x.told + x.done = g
        /\ \A i \in 1 .. x.cap : x.data[i] = x.told + i
    BY <1>1 DEF Counted, Ends
  <2> QED BY <2>1, <2>2, <2>3, <2>4
<1>3. /\ part \in Seq(1 .. MaxElem) /\ Len(part) = w /\ w \in Nat
      /\ \A j \in 1 .. w : part[j] = g + j
  <2>1. PICK lo, hi, d : lo = x.done /\ hi = x.cap /\ d = x.data
    OBVIOUS
  <2>2. lo \in Nat /\ hi \in Nat /\ lo <= hi /\ d \in Seq(1 .. MaxElem) /\ Len(d) = hi /\ w = hi - lo
    BY <2>1, <1>2
  <2>3. \A i \in lo + 1 .. hi : d[i] \in 1 .. MaxElem
    <3>1. \A i \in 1 .. Len(d) : d[i] \in 1 .. MaxElem
      BY <2>2, ElementOfSeq
    <3> QED BY <3>1, <2>2
  <2>4. PICK y : y = SubSeq(d, lo + 1, hi)
    OBVIOUS
  <2>5. /\ y \in Seq(1 .. MaxElem)
        /\ Len(y) = (IF lo + 1 <= hi THEN hi - (lo + 1) + 1 ELSE 0)
        /\ \A i \in 1 .. hi - (lo + 1) + 1 : y[i] = d[lo + 1 + i - 1]
    <3>1. lo + 1 \in Int /\ hi \in Int
      BY <2>2
    <3> QED BY <3>1, <2>3, <2>4, SubSeqProperties
  <2>6. w \in Nat /\ hi - (lo + 1) + 1 = w /\ (~(lo + 1 <= hi) => w = 0)
    BY <2>2
  <2>7. Len(y) = w
    BY <2>5, <2>6
  <2>8. ASSUME NEW j \in 1 .. w PROVE y[j] = g + j
    <3>1. lo + 1 + j - 1 = lo + j /\ lo + j \in 1 .. hi
      BY <2>2, <2>6
    <3>2. y[j] = d[lo + j]
      BY <3>1, <2>5, <2>6
    <3>3. d[lo + j] = x.told + (lo + j)
      BY <3>1, <2>1, <1>2
    <3>4. x.told + (lo + j) = g + j
      <4>1. PICK a : a = x.told
        OBVIOUS
      <4>2. a \in Nat /\ g = a + lo /\ j \in Nat
        BY <4>1, <2>1, <2>6, <1>2
      <4>3. a + (lo + j) = g + j
        BY <4>2, <2>2
      <4> QED BY <4>1, <4>3
    <3> QED BY <3>2, <3>3, <3>4
  <2> QED BY <2>1, <2>4, <2>5, <2>6, <2>7, <2>8
<1> HIDE DEF part
<1>4. /\ src.queue \in Seq(1 .. MaxElem) /\ HeldBy(inj) \in Seq(1 .. MaxElem)
      /\ CountsFrom(HeldBy(inj), Base(c)) /\ CountsFrom(src.queue, Base(c) + h)
      /\ Base(c) + h + q = src.next - 1 /\ src.next - 1 <= MaxElem
  BY DEF HostState, Flow, Chain
<1>5. h \in Nat /\ q \in Nat /\ Base(c) = g + w
  <2>1. h \in Nat /\ q \in Nat
    BY <1>4
  <2>2. Base(c) = x.told + x.cap
    BY DEF Base
  <2>3. x.told + x.cap = g + w
    <3>1. PICK a, lo, hi : a = x.told /\ lo = x.done /\ hi = x.cap
      OBVIOUS
    <3>2. a \in Nat /\ lo \in Nat /\ hi \in Nat /\ g = a + lo /\ w = hi - lo
      BY <3>1, <1>2
    <3>3. a + hi = g + w
      BY <3>2
    <3> QED BY <3>1, <3>3
  <2> QED BY <2>1, <2>2, <2>3
<1>6. Stores = three \o held
  BY DEF Stores, part
<1> HIDE DEF three, held
<1>7. /\ three \in Seq(Seq(1 .. MaxElem)) /\ Len(three) = 3
      /\ three[1] = c.got /\ three[2] = part /\ three[3] = src.queue
  BY <1>1, <1>3, <1>4 DEF three
<1>8. /\ held \in Seq(Seq(1 .. MaxElem)) /\ Len(held) = n
      /\ \A i \in 1 .. n : held[i] = inj[i].values
  BY <1>0 DEF held
<1>9. /\ Len(Stores) = 3 + n /\ (\A k \in 1 .. 3 : Stores[k] = three[k])
      /\ \A k \in 4 .. 3 + n : Stores[k] = inj[k - 3].values
  <2>1. PICK s : s = three \o held
    OBVIOUS
  <2>2. /\ Len(s) = 3 + n
        /\ \A k \in 1 .. 3 + n : s[k] = IF k <= 3 THEN three[k] ELSE held[k - 3]
    <3>1. PICK T, a, b : T = Seq(1 .. MaxElem) /\ a = three /\ b = held
      OBVIOUS
    <3>0. Len(a) = 3 /\ Len(b) = n
      BY <3>1, <1>7, <1>8
    <3>2. a \in Seq(T) /\ b \in Seq(T)
      BY <3>1, <1>7, <1>8
    <3>3. /\ Len(a \o b) = Len(a) + Len(b)
          /\ \A k \in 1 .. Len(a) + Len(b) :
                (a \o b)[k] = IF k <= Len(a) THEN a[k] ELSE b[k - Len(a)]
      BY <3>2, ConcatProperties, Zenon
    <3>4. s = a \o b
      BY <3>1, <2>1
    <3> QED BY <3>0, <3>1, <3>3, <3>4
  <2>3. \A k \in 1 .. 3 : k \in 1 .. 3 + n /\ k <= 3
    BY <1>0
  <2>4. \A k \in 4 .. 3 + n : k \in 1 .. 3 + n /\ ~(k <= 3) /\ k - 3 \in 1 .. n
    BY <1>0
  <2>5. \A k \in 1 .. 3 : s[k] = three[k]
    BY <2>2, <2>3
  <2>6. \A k \in 4 .. 3 + n : s[k] = inj[k - 3].values
    BY <2>2, <2>4, <1>8
  <2> QED BY <2>1, <2>2, <2>5, <2>6, <1>6
<1>10. Stores[1] = c.got /\ Stores[2] = part /\ Stores[3] = src.queue
  <2>1. 1 \in 1 .. 3 /\ 2 \in 1 .. 3 /\ 3 \in 1 .. 3
    OBVIOUS
  <2> QED BY <2>1, <1>7, <1>9
<1> HIDE DEF n, x
<1>11. IF n = 0 THEN h = 0
       ELSE Len(Stores[4]) = h /\ \A j \in 1 .. h : Stores[4][j] = g + w + j
  <2>1. CASE n = 0
    <3>1. inj = <<>>
      BY <2>1, <1>0, EmptySeq DEF n
    <3> QED BY <3>1, <2>1 DEF HeldBy
  <2>2. CASE n # 0
    <3>1. 4 \in 4 .. 3 + n /\ 4 - 3 = 1
      BY <2>2, <1>0
    <3>2. Stores[4] = inj[1].values
      BY <3>1, <1>9
    <3>3. inj # <<>>
      BY <2>2 DEF n
    <3>4. Stores[4] = HeldBy(inj)
      BY <3>2, <3>3 DEF HeldBy
    <3>5. \A j \in 1 .. h : HeldBy(inj)[j] = g + w + j
      BY <1>4, <1>5 DEF CountsFrom
    <3> QED BY <3>4, <3>5, <2>2
  <2> QED BY <2>1, <2>2
<1>12. \A k \in 5 .. 3 + n : Len(Stores[k]) = 0
  <2> SUFFICES ASSUME NEW k \in 5 .. 3 + n PROVE Len(Stores[k]) = 0
    OBVIOUS
  <2>1. k \in 4 .. 3 + n /\ k - 3 \in 1 .. n /\ n > 1
    BY <1>0
  <2>2. mode # "hostWriter"
    BY <2>1 DEF HostState, Lone, n
  <2>3. inj[k - 3].values = <<>>
    BY <2>1, <2>2 DEF HostState, Singly, Injected, n
  <2> QED BY <2>1, <2>3, <1>9
<1>13. \A j \in 1 .. g : c.got[j] = j
  BY <1>1 DEF Counted
<1>14. \A j \in 1 .. q : src.queue[j] = g + w + h + j
  BY <1>4, <1>5 DEF CountsFrom
<1>15. g + w + h + q = src.next - 1
  BY <1>4, <1>5
<1>16. InTurn(Stores, 3 + n, g, w, h, q)
  <2>1. 3 + n = 3 <=> n = 0
    BY <1>0
  <2>2. IF 3 + n = 3 THEN h = 0
        ELSE Len(Stores[4]) = h /\ \A j \in 1 .. h : Stores[4][j] = g + w + j
    BY <2>1, <1>11
  <2>3. /\ Len(Stores[1]) = g /\ (\A j \in 1 .. g : Stores[1][j] = j)
        /\ Len(Stores[2]) = w /\ (\A j \in 1 .. w : Stores[2][j] = g + j)
        /\ Len(Stores[3]) = q /\ \A j \in 1 .. q : Stores[3][j] = g + w + h + j
    BY <1>3, <1>10, <1>13, <1>14
  <2> QED BY <2>2, <2>3, <1>12 DEF InTurn
<1> QED BY <1>0, <1>2, <1>3, <1>4, <1>5, <1>9, <1>15, <1>16 DEF n

(* So every value that was yielded is in one place. *)
LEMMA HostConserves ==
    ASSUME Injected, HostState
    PROVE  Conservation
<1> SUFFICES ASSUME NEW v \in 1 .. src.next - 1 PROVE Cardinality(PlacesOf(v)) = 1
  BY DEF Conservation
<1>1. PICK g, w, h, q : /\ g = Len(c.got) /\ w = c.end["W"].cap - c.end["W"].done
                        /\ h = Len(HeldBy(inj)) /\ q = Len(src.queue)
  OBVIOUS
<1>2. /\ g \in Nat /\ w \in Nat /\ h \in Nat /\ q \in Nat
      /\ g + w + h + q = src.next - 1 /\ src.next - 1 <= MaxElem
      /\ Len(Stores) = 3 + Len(inj) /\ Len(inj) \in Nat
      /\ InTurn(Stores, 3 + Len(inj), g, w, h, q)
  BY <1>1, StoresHold
<1>3. PICK S, n : S = Stores /\ n = 3 + Len(inj)
  OBVIOUS
<1>4. n \in Nat /\ n >= 3 /\ n = Len(S) /\ InTurn(S, n, g, w, h, q)
  BY <1>2, <1>3
<1>5. v \in 1 .. g + w + h + q /\ g + w + h + q <= MaxElem
  BY <1>2
<1>6. PICK p : Spots(S, n, v) = {p}
  <2>1. n \in Nat /\ n >= 3 /\ InTurn(S, n, g, w, h, q)
    BY <1>4
  <2>2. g \in Nat /\ w \in Nat /\ h \in Nat /\ q \in Nat
    BY <1>2
  <2>3. \A u \in 1 .. g + w + h + q : \E p : Spots(S, n, u) = {p}
    BY <2>1, <2>2, <1>5, OnePlace
  <2> QED BY <2>3, <1>5
<1>7. PlacesOf(v) = {p}
  BY <1>3, <1>4, <1>6 DEF PlacesOf, Spots
<1> QED BY <1>7, FS_Singleton

-----------------------------------------------------------------------------
(* The inductive invariant of a stream whose writer is a component: every    *)
(* end is at rest, or waits with its buffer pending, or has an event it was  *)
(* not told of; both count what arrived.                                     *)
THEOREM StreamInvariant == Spec => []StreamInv
BY InitGood, StepGood, PTL DEF Spec

(* The inductive invariant of a stream that the host writes.                 *)
THEOREM HostInvariant == Spec => []HostInv
BY InitHost, StepHost, PTL DEF Spec

(* Whoever writes, the stream is sound. *)
LEMMA EitherGood == StreamInv /\ HostInv /\ SingleCancels => Good(c)
BY DEF StreamInv, HostInv, HostState, HostStopped, WriterRests

(* Nobody waits unseen: an operation without an event is the one the other   *)
(* end finds, through every meeting, cancellation and drop, whoever writes.  *)
THEOREM NobodyWaitsUnseen == Spec => [](SingleCancels => BlockedIsPending)
<1>1. Good(c) => BlockedIsPending
  BY DEF Good, Sound, EndSound, Copies, BlockedIsPending, isCopying
<1> QED BY <1>1, EitherGood, StreamInvariant, HostInvariant, PTL

(* The two ends agree on what was copied, however writes and reads overlap,  *)
(* are cut short, or are refused.                                            *)
THEOREM EndsAgree == Spec => [](SingleCancels => Accounting)
<1>1. Good(c) => Accounting
  BY DEF Good, Counted, Accounting
<1> QED BY <1>1, EitherGood, StreamInvariant, HostInvariant, PTL

(* The reader gets the elements 1, 2, ... in the order of the writer.        *)
THEOREM ArrivesInOrder == Spec => [](SingleCancels => InOrder)
<1>1. Good(c) => InOrder
  <2> SUFFICES ASSUME Good(c) PROVE c.got = [i \in 1 .. Len(c.got) |-> i]
    BY DEF InOrder
  <2>1. c.got \in Seq(1 .. MaxElem) /\ \A i \in 1 .. Len(c.got) : c.got[i] = i
    BY StreamFields DEF Good, Counted
  <2>2. c.got = [i \in 1 .. Len(c.got) |-> c.got[i]]
    BY <2>1
  <2> QED BY <2>1, <2>2
<1> QED BY <1>1, EitherGood, StreamInvariant, HostInvariant, PTL

(* Every value the host's iterator yields is in one place: an injection that *)
(* lost its read, or answers a read of nothing, neither loses nor repeats    *)
(* one, whatever comes but an error of the iterator.                         *)
THEOREM ValuesConserved == Spec => [](SingleCancels => Conservation)
<1>1. HostInv /\ SingleCancels => Conservation
  <2>1. Injected /\ HostState => Conservation
    BY HostConserves
  <2>2. ~Injected \/ HostStopped => Conservation
    BY DEF Conservation, HostStopped
  <2> QED BY <2>1, <2>2 DEF HostInv
<1> QED BY <1>1, HostInvariant, PTL

-----------------------------------------------------------------------------
(* The types of what the invariants leave open. *)
HostType == [st : [1 .. HostReads -> {"new", "chained", "copying", "done", "failed"}],
             prev : [1 .. HostReads -> 0 .. HostReads], result : 0 .. HostReads,
             eos : BOOLEAN]

SrcType == [queue : Seq(1 .. MaxElem), next : 1 .. MaxElem + 1,
            reading : BOOLEAN, done : BOOLEAN,
            last : {"none", "values", "nothing", "thrown"}, error : BOOLEAN]

OthersTyped ==
    mode \in Modes /\ host \in HostType /\ timer \in 0 .. MaxTimers
    /\ (~Injected => src \in SrcType)

(* A read of the host that ends. *)
LEMMA FinishedTyped ==
    ASSUME NEW h \in HostType, NEW i \in 1 .. HostReads, NEW result
    PROVE  Finished(h, i, result) \in HostType
<1>1. 0 \in 0 .. HostReads
  BY StreamsAssumption
<1>2. (h.eos \/ result = "DROPPED") \in BOOLEAN
  OBVIOUS
<1> QED BY <1>1, <1>2 DEF Finished, HostType

(* copy() of a read of the host. *)
LEMMA HostCopyTyped ==
    ASSUME NEW h \in HostType, NEW i \in 1 .. HostReads, NEW n, NEW reject,
           HostCopy(h, i, n, reject)
    PROVE  host' \in HostType
<1> DEFINE t == Copied(c, "R", <<>>, n, reject)
<1>0. "failed" \in {"new", "chained", "copying", "done", "failed"}
      /\ "copying" \in {"new", "chained", "copying", "done", "failed"}
  OBVIOUS
<1>1. /\ [h EXCEPT !.st[i] = "failed"] \in HostType
      /\ [h EXCEPT !.st[i] = "copying"] \in HostType
  BY <1>0 DEF HostType
<1>2. \A r : Finished(h, i, r) \in HostType
  BY FinishedTyped
<1> HIDE DEF t
<1>3. \/ host' = Finished(h, i, "DROPPED")
      \/ host' = [h EXCEPT !.st[i] = "failed"]
      \/ host' = [h EXCEPT !.st[i] = "copying"]
      \/ host' = Finished(h, i, t.end["R"].ev)
  BY DEF HostCopy, t
<1> QED BY <1>1, <1>2, <1>3

(* At first everything has its type. *)
LEMMA InitTyped == Init => OthersTyped
<1> SUFFICES ASSUME Init PROVE OthersTyped
  OBVIOUS
<1>1. HostReads \in Nat /\ MaxTimers \in Nat /\ MaxElem \in Nat
  BY StreamsAssumption
<1>2. 0 \in 0 .. HostReads /\ 0 \in 0 .. MaxTimers /\ 1 \in 1 .. MaxElem + 1
  BY <1>1
<1>3. host \in HostType
  BY <1>2 DEF Init, HostType
<1>4. src \in SrcType
  <2>1. <<>> \in Seq(1 .. MaxElem)
    OBVIOUS
  <2> QED BY <2>1, <1>2 DEF Init, SrcType
<1> QED BY <1>2, <1>3, <1>4 DEF Init, OthersTyped

(* Every step keeps the types. *)
LEMMA StepTyped == OthersTyped /\ StreamInv /\ [Next]_vars => OthersTyped'
<1> SUFFICES ASSUME OthersTyped, StreamInv, [Next]_vars PROVE OthersTyped'
  OBVIOUS
<1>0. mode' = mode
  BY DEF Next, vars, CopyDropped, TakeEvent, StreamCancel, StreamDrop, StreamWrite, StreamRead,
         StreamReadInjected, HostRead, HostReadChained, HostReadEnds, HostDrop, SourceYields,
         SourceThrows, InjectResumes, InjectFails, TakeError, CancelTimer
<1>1. /\ host \in HostType /\ timer \in 0 .. MaxTimers /\ mode \in Modes
      /\ (~Injected => src \in SrcType) /\ MaxTimers \in Nat
  BY StreamsAssumption DEF OthersTyped
<1>2. ~Injected => inj = <<>> /\ ~src.reading /\ ~src.error
  BY DEF StreamInv
<1>3. timer' \in 0 .. MaxTimers
  <2>1. ASSUME NEW e \in Ends, StreamCancel(e) PROVE timer' \in 0 .. MaxTimers
    <3>1. timer < MaxTimers /\ (timer' = timer \/ timer' = timer + 1)
      BY <2>1 DEF StreamCancel
    <3> QED BY <3>1, <1>1
  <2>2. CASE CancelTimer
    BY <2>2, <1>1 DEF CancelTimer
  <2>3. CASE timer' = timer
    BY <2>3, <1>1
  <2> QED BY <2>1, <2>2, <2>3
          DEF Next, vars, CopyDropped, TakeEvent, StreamDrop, StreamWrite, StreamRead,
              StreamReadInjected, HostRead, HostReadChained, HostReadEnds, HostDrop,
              SourceYields, SourceThrows, InjectResumes, InjectFails, TakeError
<1>4. ~Injected => src' = src
  <2>1. ~Injected => /\ \A n, state : ~StreamReadInjected(n, state)
                     /\ \A k, done : ~SourceYields(k, done)
                     /\ ~SourceThrows /\ ~InjectResumes /\ ~InjectFails /\ ~TakeError
    BY <1>2 DEF StreamReadInjected, SourceYields, SourceThrows, MaySettle, InjectResumes,
                InjectFails, TakeError
  <2> QED BY <2>1
          DEF Next, vars, CopyDropped, TakeEvent, StreamCancel, StreamDrop, StreamWrite,
              StreamRead, HostRead, HostReadChained, HostReadEnds, HostDrop, CancelTimer
<1>5. host' \in HostType
  <2>1. ASSUME NEW i \in 1 .. HostReads, NEW n, NEW reject, HostRead(i, n, reject)
        PROVE  host' \in HostType
    <3>1. i \in 0 .. HostReads /\ host.result \in 0 .. HostReads
      BY <1>1, StreamsAssumption DEF HostType
    <3>2. /\ [host EXCEPT !.st[i] = "done"] \in HostType
          /\ [host EXCEPT !.st[i] = "chained", !.prev[i] = host.result, !.result = i] \in HostType
          /\ [host EXCEPT !.result = i] \in HostType
      BY <3>1, <1>1 DEF HostType
    <3>3. PICK h : h = [host EXCEPT !.result = i]
      OBVIOUS
    <3>4. \/ host' = [host EXCEPT !.st[i] = "done"]
          \/ host' = [host EXCEPT !.st[i] = "chained", !.prev[i] = host.result, !.result = i]
          \/ HostCopy(h, i, n, reject)
      BY <3>3, <2>1 DEF HostRead
    <3>5. HostCopy(h, i, n, reject) => host' \in HostType
      BY <3>2, <3>3, HostCopyTyped
    <3> QED BY <3>2, <3>4, <3>5
  <2>2. ASSUME NEW i \in 1 .. HostReads, NEW n, NEW reject, HostReadChained(i, n, reject)
        PROVE  host' \in HostType
    BY <2>2, <1>1, HostCopyTyped DEF HostReadChained
  <2>3. ASSUME NEW i \in 1 .. HostReads, HostReadEnds(i)
        PROVE  host' \in HostType
    BY <2>3, <1>1, FinishedTyped DEF HostReadEnds
  <2>4. CASE host' = host
    BY <2>4, <1>1
  <2> QED BY <2>1, <2>2, <2>3, <2>4
          DEF Next, vars, CopyDropped, TakeEvent, StreamCancel, StreamDrop, StreamWrite,
              StreamRead, StreamReadInjected, HostDrop, SourceYields, SourceThrows,
              InjectResumes, InjectFails, TakeError, CancelTimer
<1> QED BY <1>0, <1>1, <1>3, <1>4, <1>5 DEF OthersTyped, Injected

(* What an injection wants is within the elements. *)
LEMMA WantsFit ==
    ASSUME Injected, HostState
    PROVE  \A i \in DOMAIN inj : inj[i].want \in 0 .. MaxElem
<1>0. inj \in Seq(InjectionType) /\ DOMAIN inj = 1 .. Len(inj) /\ Len(inj) \in Nat
  BY DEF HostState
<1> SUFFICES ASSUME NEW i \in 1 .. Len(inj) PROVE inj[i].want \in 0 .. MaxElem
  BY <1>0
<1>1. inj[i] \in InjectionType /\ inj # <<>>
  BY <1>0, ElementOfSeq
<1>2. inj[i].want \in Nat /\ inj[i].values \in Seq(1 .. MaxElem)
  BY <1>1 DEF InjectionType
<1>3. CASE mode = "hostWriter"
  <2>1. Len(inj) <= 1 /\ ServesRead(c, inj[1])
    BY <1>1, <1>3 DEF HostState, Lone
  <2>2. i = 1
    BY <2>1, <1>0
  <2>3. c.end["R"].cap >= inj[i].want + Len(inj[i].values)
    BY <2>1, <2>2 DEF ServesRead
  <2>4. c.end["R"].cap \in 0 .. MaxElem
    BY StreamFields, EndFields DEF HostState, WriterRests, Good, Ends
  <2>5. PICK a, b, d : a = inj[i].want /\ b = Len(inj[i].values) /\ d = c.end["R"].cap
    OBVIOUS
  <2>6. a \in Nat /\ b \in Nat /\ d \in 0 .. MaxElem /\ d >= a + b
    BY <2>3, <2>4, <2>5, <1>2
  <2>7. a \in 0 .. MaxElem
    BY <2>6, Bounds
  <2> QED BY <2>5, <2>7
<1>4. CASE mode = "hostWriterCancel"
  <2>1. inj[i].want = 1 /\ 1 <= MaxElem
    BY <1>1, <1>4 DEF HostState, Singly
  <2>2. 1 \in 0 .. MaxElem
    BY <2>1, Bounds
  <2> QED BY <2>1, <2>2
<1> QED BY <1>3, <1>4 DEF Injected

(* Everything has its type, and no write of the host fails in the reader. *)
THEOREM Typed == Spec => [](SingleCancels => TypeOK)
<1>1. OthersTyped /\ StreamInv /\ HostInv => (SingleCancels => TypeOK)
  <2> SUFFICES ASSUME OthersTyped, StreamInv, HostInv, SingleCancels PROVE TypeOK
    OBVIOUS
  <2>1. Good(c)
    BY EitherGood
  <2>2. c \in StreamType /\ \A e \in Ends : c.end[e].done <= c.end[e].cap
    BY <2>1 DEF Good, Counted
  <2>3. src \in SrcType
    <3>1. CASE Injected
      <4>1. /\ src \in SourceType
            /\ src.next >= 1 /\ src.next - 1 <= MaxElem
        BY <3>1 DEF HostInv, HostState, HostStopped, Flow
      <4>2. src.next \in 1 .. MaxElem + 1
        BY <4>1, Bounds DEF SourceType
      <4> QED BY <4>1, <4>2 DEF SrcType, SourceType
    <3> QED BY <3>1 DEF OthersTyped
  <2>4. \A i \in DOMAIN inj : inj[i].want \in 0 .. MaxElem
    <3>1. CASE Injected /\ HostState
      BY <3>1, WantsFit
    <3>2. CASE ~Injected \/ HostStopped
      <4>1. inj = <<>>
        BY <3>2 DEF StreamInv, HostStopped
      <4>2. DOMAIN inj = {}
        BY <4>1
      <4> QED BY <4>2
    <3> QED BY <3>1, <3>2 DEF HostInv
  <2> QED BY <2>2, <2>3, <2>4 DEF TypeOK, OthersTyped, HostType, SrcType
<1> QED BY <1>1, InitTyped, StepTyped, StreamInvariant, HostInvariant, PTL DEF Spec
=============================================================================
