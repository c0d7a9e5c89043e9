---------------------------- MODULE FuturesProofs ----------------------------
(***************************************************************************)
(* Theorems about Futures, for any settings and any set of consumers.      *)
(***************************************************************************)
EXTENDS Futures, TLAPS

USE FuturesAssumption

(* An end no operation of which was ever called. *)
Unused(e) ==
    /\ ~f.end[e].calling /\ f.end[e].copy = "IDLE"
    /\ f.end[e].ev = "none" /\ f.end[e].told = "none"
    /\ f.end[e].buf = "empty"

(* An operation that has neither an event nor an outcome. *)
Waiting(e) == Started(e) /\ f.end[e].ev = "none" /\ f.end[e].told = "none"

(* An end is unused, waits with its buffer pending, has an event it was not  *)
(* told of, or was told and has no more to come.                             *)
EndSound(e) ==
    /\ Unused(e) \/ Waiting(e) \/ f.end[e].ev # "none" \/ f.end[e].told # "none"
    /\ Waiting(e) <=> f.pend = e /\ f.end[e].ev = "none" /\ f.end[e].told = "none"
    /\ f.end[e].calling => f.end[e].copy = "IDLE"
    /\ f.end[e].ev # "none" => Started(e) /\ f.end[e].told = "none"
    /\ f.end[e].told # "none" => ~f.end[e].calling
    /\ f.end[e].copy = "DONE" <=> f.end[e].told = "COMPLETED"

(* The value is with the writer until both operations have met. *)
ValueSound ==
    /\ \A e \in Ends : f.end["R"].buf # "empty" <=> "COMPLETED" \in {f.end[e].ev, f.end[e].told}
    /\ f.end["R"].buf # "empty" => f.end["W"].buf = "empty" /\ f.pend = "none"
    /\ f.pend = "W" => f.end["W"].buf \in Values
    /\ f.end["W"].dropped => f.end["R"].buf # "empty"
    /\ \A i \in Consumers : then[i] \in Values =>
           then[i] = f.end["R"].buf /\ f.end["R"].told = "COMPLETED"

(* Where the injection is, and who failed. *)
HostSound ==
    /\ inject # "none" => mode = "hostWriter" /\ ~Unused("R")
    /\ mode = "hostWriter" /\ inject = "none" => Unused("R") /\ Unused("W") /\ f.pend = "none"
    /\ inject = "promise" => Waiting("R") /\ Unused("W")
    /\ "ERROR" \in {f.end["R"].ev, f.end["R"].told} => inject = "done"
    /\ "ERROR" \notin {f.end["W"].ev, f.end["W"].told}
    /\ mode = "hostReader" /\ (\A i \in Consumers : then[i] = "new") => Unused("R")

FutureInv ==
    /\ TypeOK
    /\ \A e \in Ends : EndSound(e)
    /\ ValueSound
    /\ HostSound

-----------------------------------------------------------------------------
(* What the updates of a future do to its ends. *)

(* The fields of a future have their types. *)
LEMMA FutureFields ==
    ASSUME NEW s \in FutureType
    PROVE  /\ s.pend \in {"R", "W", "none"}
           /\ s.end["R"] \in EndType /\ s.end["W"] \in EndType
           /\ s.end \in [Ends -> EndType]
BY DEF FutureType, Ends

(* Replacing one end leaves the other and the rest. *)
LEMMA SetEnd ==
    ASSUME NEW s \in FutureType, NEW e \in Ends, NEW r \in EndType
    PROVE  LET t == [s EXCEPT !.end[e] = r]
           IN  /\ t \in FutureType /\ t.pend = s.pend
               /\ t.end[e] = r /\ t.end[Other(e)] = s.end[Other(e)]
BY DEF FutureType, Ends, Other

(* Replacing the pending end leaves the ends. *)
LEMMA SetPend ==
    ASSUME NEW s \in FutureType, NEW p \in Ends \cup {"none"}
    PROVE  LET t == [s EXCEPT !.pend = p]
           IN  t \in FutureType /\ t.pend = p /\ t.end = s.end
BY DEF FutureType

(* onCopyDone sets the event of its end only. *)
LEMMA OnCopyDone ==
    ASSUME NEW s \in FutureType, NEW e \in Ends
    PROVE  LET t == onCopyDone(s, e, "COMPLETED")
           IN  /\ t \in FutureType /\ t.pend = s.pend
               /\ t.end[e] = [s.end[e] EXCEPT !.ev = "COMPLETED"]
               /\ t.end[Other(e)] = s.end[Other(e)]
<1>1. s.end[e] \in EndType
  BY FutureFields DEF Ends
<1>2. [s.end[e] EXCEPT !.ev = "COMPLETED"] \in EndType
  BY <1>1 DEF EndType
<1> QED
  BY <1>2, SetEnd DEF onCopyDone

(* futureEvent: the end is told, and done unless the event throws. *)
LEMMA GetPendingEvent ==
    ASSUME NEW s \in FutureType, NEW e \in Ends
    PROVE  LET t == getPendingEvent(s, e)
           IN  /\ t \in FutureType /\ t.pend = s.pend
               /\ t.end[e].told = s.end[e].ev /\ t.end[e].ev = "none"
               /\ ~t.end[e].calling
               /\ t.end[e].copy = IF s.end[e].ev = "ERROR" THEN s.end[e].copy ELSE "DONE"
               /\ t.end[e].buf = s.end[e].buf /\ t.end[e].alive = s.end[e].alive
               /\ t.end[e].dropped = s.end[e].dropped
               /\ t.end[Other(e)] = s.end[Other(e)]
<1> DEFINE r == [s.end[e] EXCEPT !.told = s.end[e].ev, !.ev = "none", !.calling = FALSE,
                                 !.copy = IF s.end[e].ev = "ERROR" THEN s.end[e].copy ELSE "DONE"]
<1>1. s.end[e] \in EndType
  BY FutureFields DEF Ends
<1>2. /\ r \in EndType
      /\ r.told = s.end[e].ev /\ r.ev = "none" /\ ~r.calling
      /\ r.copy = IF s.end[e].ev = "ERROR" THEN s.end[e].copy ELSE "DONE"
      /\ r.buf = s.end[e].buf /\ r.alive = s.end[e].alive /\ r.dropped = s.end[e].dropped
  BY <1>1 DEF EndType
<1>3. getPendingEvent(s, e) = [s EXCEPT !.end[e] = r]
  BY DEF getPendingEvent
<1> HIDE DEF r
<1> QED
  BY <1>2, <1>3, SetEnd

(* Begin, when no buffer is pending. *)
LEMMA BeginAlone ==
    ASSUME NEW s \in FutureType, NEW e \in Ends, NEW v \in Values \cup {"empty"},
           s.pend = "none"
    PROVE  LET t == Begin(s, e, v)
           IN  /\ t \in FutureType /\ t.pend = e
               /\ t.end[e].calling /\ t.end[e].buf = v
               /\ t.end[e].copy = s.end[e].copy /\ t.end[e].ev = s.end[e].ev
               /\ t.end[e].told = s.end[e].told /\ t.end[e].alive = s.end[e].alive
               /\ t.end[e].dropped = s.end[e].dropped
               /\ t.end[Other(e)] = s.end[Other(e)]
<1> DEFINE r == [s.end[e] EXCEPT !.calling = TRUE, !.buf = v]
           u == [s EXCEPT !.end[e] = r]
<1>1. s.end[e] \in EndType
  BY FutureFields DEF Ends
<1>2. /\ r \in EndType /\ r.calling /\ r.buf = v /\ r.copy = s.end[e].copy
      /\ r.ev = s.end[e].ev /\ r.told = s.end[e].told /\ r.alive = s.end[e].alive
      /\ r.dropped = s.end[e].dropped
  BY <1>1 DEF EndType
<1>3. Begin(s, e, v) = Meet(u, e)
  BY DEF Begin
<1>4. u \in FutureType /\ u.pend = s.pend /\ u.end[e] = r /\ u.end[Other(e)] = s.end[Other(e)]
  <2> HIDE DEF r
  <2> QED BY <1>2, SetEnd
<1> HIDE DEF u
<1>5. Meet(u, e) = [u EXCEPT !.pend = e]
  BY <1>4 DEF Meet
<1>6. LET t == Begin(s, e, v)
      IN  t \in FutureType /\ t.pend = e /\ t.end = u.end
  BY <1>3, <1>4, <1>5, SetPend
<1> HIDE DEF r
<1> QED
  BY <1>2, <1>4, <1>6

(* Begin, when the buffer of the other end is pending: the value is handed   *)
(* over and both ends get their event.                                       *)
LEMMA BeginMeets ==
    ASSUME NEW s \in FutureType, NEW e \in Ends, NEW v \in Values \cup {"empty"},
           s.pend = Other(e)
    PROVE  LET t == Begin(s, e, v)
               w == IF e = "W" THEN v ELSE s.end["W"].buf
           IN  /\ t \in FutureType /\ t.pend = "none"
               /\ \A x \in Ends :
                     /\ t.end[x].ev = "COMPLETED"
                     /\ t.end[x].buf = IF x = "R" THEN w ELSE "empty"
                     /\ t.end[x].copy = s.end[x].copy
                     /\ t.end[x].calling = (x = e \/ s.end[x].calling)
                     /\ t.end[x].told = s.end[x].told
                     /\ t.end[x].alive = s.end[x].alive
                     /\ t.end[x].dropped = s.end[x].dropped
<1> DEFINE r == [s.end[e] EXCEPT !.calling = TRUE, !.buf = v]
           u == [s EXCEPT !.end[e] = r]
           o == Other(e)
           b == [u.end["R"] EXCEPT !.buf = u.end["W"].buf]
           h1 == [u EXCEPT !.end["R"] = b]
           d == [h1.end["W"] EXCEPT !.buf = "empty"]
           h == [h1 EXCEPT !.end["W"] = d]
           n == [h EXCEPT !.pend = "none"]
           m == onCopyDone(n, o, "COMPLETED")
           t == onCopyDone(m, e, "COMPLETED")
<1>0. o \in Ends /\ Other(o) = e /\ o # e /\ {"R", "W"} = {e, o} /\ "R" \in Ends /\ "W" \in Ends
  BY DEF Ends, Other
<1>1. s.end[e] \in EndType
  BY FutureFields DEF Ends
<1>2. r \in EndType
  BY <1>1 DEF EndType
<1>3. Begin(s, e, v) = Meet(u, e)
  BY DEF Begin
<1>4. u \in FutureType /\ u.pend = o /\ u.end[e] = r /\ u.end[o] = s.end[o]
  <2> HIDE DEF r
  <2> QED BY <1>2, SetEnd
<1> HIDE DEF u
<1>5. Other("R") = "W" /\ Other("W") = "R"
  BY DEF Other
<1>6. b \in EndType
  BY <1>4, FutureFields DEF EndType
<1>7. h1 \in FutureType /\ h1.pend = o /\ h1.end["R"] = b /\ h1.end["W"] = u.end["W"]
  <2> HIDE DEF b
  <2> QED BY <1>0, <1>4, <1>5, <1>6, SetEnd
<1>8. d \in EndType /\ d = [u.end["W"] EXCEPT !.buf = "empty"]
  <2> HIDE DEF h1
  <2>1. h1.end["W"] \in EndType
    BY <1>7, FutureFields
  <2> QED BY <2>1, <1>7 DEF EndType
<1>9. h \in FutureType /\ h.pend = o /\ h.end["R"] = b /\ h.end["W"] = d
  <2> HIDE DEF h1, d, b
  <2> QED BY <1>0, <1>7, <1>5, <1>8, SetEnd
<1>10. HandOver(u) = h
  BY DEF HandOver
<1> HIDE DEF h
<1>11. n \in FutureType /\ n.pend = "none" /\ n.end = h.end
  BY <1>9, SetPend
<1>12. Meet(u, e) = t
  BY <1>0, <1>4, <1>9, <1>10 DEF Meet, resetAndNotifyPending, Ends
<1> HIDE DEF n
<1>13. /\ m \in FutureType /\ m.pend = "none"
       /\ m.end[o] = [h.end[o] EXCEPT !.ev = "COMPLETED"] /\ m.end[e] = h.end[e]
  BY <1>0, <1>11, OnCopyDone
<1> HIDE DEF m
<1>14. /\ t \in FutureType /\ t.pend = "none"
       /\ t.end[e] = [h.end[e] EXCEPT !.ev = "COMPLETED"]
       /\ t.end[o] = [h.end[o] EXCEPT !.ev = "COMPLETED"]
  BY <1>0, <1>13, OnCopyDone
<1> HIDE DEF t
<1> QED
  <2> SUFFICES ASSUME NEW x \in Ends
               PROVE  LET w == IF e = "W" THEN v ELSE s.end["W"].buf
                      IN  /\ t.end[x].ev = "COMPLETED"
                          /\ t.end[x].buf = IF x = "R" THEN w ELSE "empty"
                          /\ t.end[x].copy = s.end[x].copy
                          /\ t.end[x].calling = (x = e \/ s.end[x].calling)
                          /\ t.end[x].told = s.end[x].told
                          /\ t.end[x].alive = s.end[x].alive
                          /\ t.end[x].dropped = s.end[x].dropped
    BY <1>3, <1>12, <1>14
  <2>1. t.end[x] = [h.end[x] EXCEPT !.ev = "COMPLETED"] /\ h.end[x] \in EndType
    BY <1>0, <1>9, <1>14, FutureFields DEF Ends
  <2>2. u.end["R"] \in EndType /\ u.end["W"] \in EndType
    BY <1>4, FutureFields
  <2>3. /\ u.end[x].ev = s.end[x].ev /\ u.end[x].copy = s.end[x].copy
        /\ u.end[x].calling = (x = e \/ s.end[x].calling)
        /\ u.end[x].told = s.end[x].told /\ u.end[x].alive = s.end[x].alive
        /\ u.end[x].dropped = s.end[x].dropped
    <3>1. CASE x = e
      BY <3>1, <1>1, <1>4 DEF EndType
    <3>2. CASE x = o
      <4>1. s.end[x] \in EndType
        BY FutureFields DEF Ends
      <4> QED BY <4>1, <3>2, <1>0, <1>4 DEF EndType
    <3> QED BY <3>1, <3>2, <1>0 DEF Ends
  <2>4. u.end["W"].buf = IF e = "W" THEN v ELSE s.end["W"].buf
    <3>1. CASE e = "W"
      BY <3>1, <1>1, <1>4 DEF EndType
    <3>2. CASE e = "R"
      BY <3>2, <1>4, <1>5
    <3> QED BY <3>1, <3>2 DEF Ends
  <2>5. /\ h.end[x].copy = u.end[x].copy /\ h.end[x].calling = u.end[x].calling
        /\ h.end[x].told = u.end[x].told /\ h.end[x].alive = u.end[x].alive
        /\ h.end[x].dropped = u.end[x].dropped
        /\ h.end[x].buf = IF x = "R" THEN u.end["W"].buf ELSE "empty"
    <3>1. CASE x = "R"
      BY <3>1, <2>2, <1>9 DEF EndType
    <3>2. CASE x = "W"
      <4> HIDE DEF d
      <4> QED BY <3>2, <2>2, <1>8, <1>9 DEF EndType
    <3> QED BY <3>1, <3>2 DEF Ends
  <2>6. /\ t.end[x].ev = "COMPLETED" /\ t.end[x].buf = h.end[x].buf
        /\ t.end[x].copy = h.end[x].copy /\ t.end[x].calling = h.end[x].calling
        /\ t.end[x].told = h.end[x].told /\ t.end[x].alive = h.end[x].alive
        /\ t.end[x].dropped = h.end[x].dropped
    BY <2>1 DEF EndType
  <2> HIDE DEF o
  <2> QED
    BY <2>3, <2>4, <2>5, <2>6

(* An operation that blocks changes its copy state only. *)
LEMMA BlockedFields ==
    ASSUME NEW s \in FutureType, NEW e \in Ends, NEW state \in Blocking
    PROVE  LET t == Blocked(s, e, state)
           IN  /\ t \in FutureType /\ t.pend = s.pend
               /\ t.end[e].copy = state /\ ~t.end[e].calling
               /\ t.end[e].ev = s.end[e].ev /\ t.end[e].told = s.end[e].told
               /\ t.end[e].buf = s.end[e].buf /\ t.end[e].alive = s.end[e].alive
               /\ t.end[e].dropped = s.end[e].dropped
               /\ t.end[Other(e)] = s.end[Other(e)]
<1> DEFINE r == [s.end[e] EXCEPT !.calling = FALSE, !.copy = state]
<1>1. s.end[e] \in EndType
  BY FutureFields DEF Ends
<1>2. /\ r \in EndType /\ r.copy = state /\ ~r.calling
      /\ r.ev = s.end[e].ev /\ r.told = s.end[e].told /\ r.buf = s.end[e].buf
      /\ r.alive = s.end[e].alive /\ r.dropped = s.end[e].dropped
  BY <1>1 DEF EndType, Blocking
<1>3. Blocked(s, e, state) = [s EXCEPT !.end[e] = r]
  BY DEF Blocked
<1> HIDE DEF r
<1> QED
  BY <1>2, <1>3, SetEnd

(* An end that leaves its table keeps its copy state, event and buffer. *)
LEMMA LeaveTable ==
    ASSUME NEW s \in FutureType, NEW e \in Ends, NEW b \in BOOLEAN
    PROVE  LET t == Leave(s, e, b)
           IN  /\ t \in FutureType /\ t.pend = s.pend
               /\ t.end[e].copy = s.end[e].copy /\ t.end[e].calling = s.end[e].calling
               /\ t.end[e].ev = s.end[e].ev /\ t.end[e].told = s.end[e].told
               /\ t.end[e].buf = s.end[e].buf /\ t.end[e].dropped = b
               /\ t.end[Other(e)] = s.end[Other(e)]
<1> DEFINE r == [s.end[e] EXCEPT !.alive = FALSE, !.dropped = b]
<1>1. s.end[e] \in EndType
  BY FutureFields DEF Ends
<1>2. /\ r \in EndType /\ r.copy = s.end[e].copy /\ r.calling = s.end[e].calling
      /\ r.ev = s.end[e].ev /\ r.told = s.end[e].told /\ r.buf = s.end[e].buf
      /\ r.dropped = b
  BY <1>1 DEF EndType
<1>3. Leave(s, e, b) = [s EXCEPT !.end[e] = r]
  BY DEF Leave
<1> HIDE DEF r
<1> QED
  BY <1>2, <1>3, SetEnd

(* A rejected promise puts an error event at the reader only. *)
LEMMA ThrowFields ==
    ASSUME NEW s \in FutureType
    PROVE  LET t == ThrowInReader(s)
           IN  /\ t \in FutureType /\ t.pend = s.pend
               /\ t.end["R"].copy = s.end["R"].copy /\ t.end["R"].calling = s.end["R"].calling
               /\ t.end["R"].ev = "ERROR" /\ t.end["R"].told = s.end["R"].told
               /\ t.end["R"].buf = s.end["R"].buf /\ t.end["R"].dropped = s.end["R"].dropped
               /\ t.end["W"] = s.end["W"]
<1> DEFINE r == [s.end["R"] EXCEPT !.ev = "ERROR"]
<1>1. s.end["R"] \in EndType
  BY FutureFields
<1>2. /\ r \in EndType /\ r.copy = s.end["R"].copy /\ r.calling = s.end["R"].calling
      /\ r.ev = "ERROR" /\ r.told = s.end["R"].told /\ r.buf = s.end["R"].buf
      /\ r.dropped = s.end["R"].dropped
  BY <1>1 DEF EndType
<1>3. ThrowInReader(s) = [s EXCEPT !.end["R"] = r]
  BY DEF ThrowInReader
<1>4. "R" \in Ends /\ Other("R") = "W"
  BY DEF Ends, Other
<1> HIDE DEF r
<1> QED
  BY <1>2, <1>3, <1>4, SetEnd

-----------------------------------------------------------------------------
(* Every action preserves the invariant. *)

(* A new future is sound. *)
LEMMA InitInv == Init => FutureInv
<1> SUFFICES ASSUME Init PROVE FutureInv
  OBVIOUS
<1>1. NewEnd \in EndType
  BY DEF NewEnd, EndType
<1>2. f \in FutureType /\ f.pend = "none" /\ f.end["R"] = NewEnd /\ f.end["W"] = NewEnd
  BY <1>1 DEF Init, FutureType, Ends
<1>3. \A e \in Ends : Unused(e) /\ ~Waiting(e) /\ ~Started(e)
  BY <1>2 DEF Unused, Waiting, Started, NewEnd, Ends
<1>4. TypeOK
  BY <1>2 DEF Init, TypeOK, NewEnd
<1>5. \A e \in Ends : EndSound(e)
  BY <1>2, <1>3 DEF EndSound, NewEnd, Ends
<1>6. ValueSound
  BY <1>2 DEF ValueSound, NewEnd, Ends, Init, Values
<1>7. HostSound
  BY <1>2, <1>3 DEF HostSound, NewEnd, Init, Ends
<1> QED
  BY <1>4, <1>5, <1>6, <1>7 DEF FutureInv

(* An end is told the outcome of its operation. *)
LEMMA TakeInv ==
    ASSUME FutureInv, NEW e \in Ends, HeldByGuest(e) \/ (mode = "hostReader" /\ e = "R"),
           f.end[e].ev # "none", f' = getPendingEvent(f, e), Untouched
    PROVE  FutureInv'
<1>1. f \in FutureType
  BY DEF FutureInv, TypeOK
<1>2. "R" \in Ends /\ "W" \in Ends /\ Other("R") = "W" /\ Other("W") = "R"
  BY DEF Ends, Other
<1>3. f' \in FutureType
  BY <1>1, GetPendingEvent
<1>6. /\ f'.end[e].told = f.end[e].ev /\ f'.end[e].ev = "none"
      /\ ~f'.end[e].calling /\ f'.end[e].buf = f.end[e].buf
      /\ f'.end[e].copy = (IF f.end[e].ev = "ERROR" THEN f.end[e].copy ELSE "DONE")
      /\ f'.end[e].dropped = f.end[e].dropped
      /\ f'.end[Other(e)] = f.end[Other(e)] /\ f'.pend = f.pend
  BY <1>1, GetPendingEvent
<1>7. TypeOK'
  <2>1. /\ f'.end["W"].ev \in {f.end["W"].ev, "none"}
        /\ f'.end["R"].ev \in {f.end["R"].ev, "none"}
    BY <1>2, <1>6 DEF Ends
  <2> QED BY <1>3, <2>1 DEF FutureInv, TypeOK, Untouched
<1>4. CASE e = "R"
  <2>1. /\ f'.end["R"].told = f.end["R"].ev /\ f'.end["R"].ev = "none"
        /\ ~f'.end["R"].calling /\ f'.end["R"].buf = f.end["R"].buf
        /\ f'.end["R"].copy = (IF f.end["R"].ev = "ERROR" THEN f.end["R"].copy ELSE "DONE")
        /\ f'.end["R"].dropped = f.end["R"].dropped
        /\ f'.end["W"] = f.end["W"] /\ f'.pend = f.pend
    BY <1>2, <1>4, <1>6
  <2>3. EndSound("R") /\ EndSound("W") /\ ValueSound /\ HostSound /\ f.end["R"].ev # "none"
        /\ f.end["R"].ev \in {"none", "COMPLETED", "ERROR"}
    BY <1>1, <1>2, <1>4, FutureFields DEF FutureInv, EndType
  <2>4. EndSound("R")'
    BY <2>1, <2>3 DEF EndSound, Unused, Waiting, Started
  <2>5. EndSound("W")'
    BY <2>1, <2>3 DEF EndSound, Unused, Waiting, Started
  <2>6. ValueSound'
    BY <2>1, <2>3 DEF EndSound, Unused, Waiting, Started, ValueSound, Ends, Untouched
  <2>7. HostSound'
    BY <2>1, <2>3 DEF EndSound, Unused, Waiting, Started, HostSound, Untouched
  <2> QED BY <1>7, <2>4, <2>5, <2>6, <2>7 DEF FutureInv, Ends
<1>5. CASE e = "W"
  <2>1. /\ f'.end["W"].told = f.end["W"].ev /\ f'.end["W"].ev = "none"
        /\ ~f'.end["W"].calling /\ f'.end["W"].buf = f.end["W"].buf
        /\ f'.end["W"].copy = (IF f.end["W"].ev = "ERROR" THEN f.end["W"].copy ELSE "DONE")
        /\ f'.end["W"].dropped = f.end["W"].dropped
        /\ f'.end["R"] = f.end["R"] /\ f'.pend = f.pend
    BY <1>2, <1>5, <1>6
  <2>3. EndSound("R") /\ EndSound("W") /\ ValueSound /\ HostSound /\ f.end["W"].ev # "none"
        /\ f.end["W"].ev \in {"none", "COMPLETED", "ERROR"}
    BY <1>1, <1>2, <1>5, FutureFields DEF FutureInv, EndType
  <2>4. EndSound("R")'
    BY <2>1, <2>3 DEF EndSound, Unused, Waiting, Started
  <2>5. EndSound("W")'
    BY <2>1, <2>3 DEF EndSound, Unused, Waiting, Started
  <2>6. ValueSound'
    BY <2>1, <2>3 DEF EndSound, Unused, Waiting, Started, ValueSound, Ends, Untouched
  <2>7. HostSound'
    BY <2>1, <2>3 DEF EndSound, Unused, Waiting, Started, HostSound, Untouched
  <2> QED BY <1>7, <2>4, <2>5, <2>6, <2>7 DEF FutureInv, Ends
<1> QED
  BY <1>4, <1>5 DEF Ends

(* An operation without an event blocks: its buffer stays the pending one. *)
LEMMA BlockInv ==
    ASSUME FutureInv, NEW e \in Ends, NEW state \in Blocking, f.end[e].calling,
           f.end[e].ev = "none", f' = Blocked(f, e, state), Untouched
    PROVE  FutureInv'
<1>1. f \in FutureType
  BY DEF FutureInv, TypeOK
<1>2. "R" \in Ends /\ "W" \in Ends /\ Other("R") = "W" /\ Other("W") = "R"
  BY DEF Ends, Other
<1>3. f' \in FutureType
  BY <1>1, BlockedFields
<1>6. /\ f'.end[e].copy = state /\ ~f'.end[e].calling
      /\ f'.end[e].ev = f.end[e].ev /\ f'.end[e].told = f.end[e].told
      /\ f'.end[e].buf = f.end[e].buf /\ f'.end[e].dropped = f.end[e].dropped
      /\ f'.end[Other(e)] = f.end[Other(e)] /\ f'.pend = f.pend
  BY <1>1, BlockedFields
<1>7. TypeOK'
  <2>1. /\ f'.end["W"].ev \in {f.end["W"].ev, "none"}
        /\ f'.end["R"].ev \in {f.end["R"].ev, "none"}
    BY <1>2, <1>6 DEF Ends
  <2> QED BY <1>3, <2>1 DEF FutureInv, TypeOK, Untouched
<1>4. CASE e = "R"
  <2>1. /\ f'.end["R"].copy = state /\ ~f'.end["R"].calling
        /\ f'.end["R"].ev = f.end["R"].ev /\ f'.end["R"].told = f.end["R"].told
        /\ f'.end["R"].buf = f.end["R"].buf /\ f'.end["R"].dropped = f.end["R"].dropped
        /\ f'.end["W"] = f.end["W"] /\ f'.pend = f.pend
    BY <1>2, <1>4, <1>6
  <2>3. EndSound("R") /\ EndSound("W") /\ ValueSound /\ HostSound /\ f.end["R"].calling
        /\ f.end["R"].ev = "none" /\ state \in {"SYNC_COPYING", "ASYNC_COPYING"}
    BY <1>1, <1>2, <1>4, FutureFields DEF FutureInv, EndType, Blocking
  <2>4. EndSound("R")'
    BY <2>1, <2>3 DEF EndSound, Unused, Waiting, Started
  <2>5. EndSound("W")'
    BY <2>1, <2>3 DEF EndSound, Unused, Waiting, Started
  <2>6. ValueSound'
    BY <2>1, <2>3 DEF EndSound, Unused, Waiting, Started, ValueSound, Ends, Untouched
  <2>7. HostSound'
    BY <2>1, <2>3 DEF EndSound, Unused, Waiting, Started, HostSound, Untouched
  <2> QED BY <1>7, <2>4, <2>5, <2>6, <2>7 DEF FutureInv, Ends
<1>5. CASE e = "W"
  <2>1. /\ f'.end["W"].copy = state /\ ~f'.end["W"].calling
        /\ f'.end["W"].ev = f.end["W"].ev /\ f'.end["W"].told = f.end["W"].told
        /\ f'.end["W"].buf = f.end["W"].buf /\ f'.end["W"].dropped = f.end["W"].dropped
        /\ f'.end["R"] = f.end["R"] /\ f'.pend = f.pend
    BY <1>2, <1>5, <1>6
  <2>3. EndSound("R") /\ EndSound("W") /\ ValueSound /\ HostSound /\ f.end["W"].calling
        /\ f.end["W"].ev = "none" /\ state \in {"SYNC_COPYING", "ASYNC_COPYING"}
    BY <1>1, <1>2, <1>5, FutureFields DEF FutureInv, EndType, Blocking
  <2>4. EndSound("R")'
    BY <2>1, <2>3 DEF EndSound, Unused, Waiting, Started
  <2>5. EndSound("W")'
    BY <2>1, <2>3 DEF EndSound, Unused, Waiting, Started
  <2>6. ValueSound'
    BY <2>1, <2>3 DEF EndSound, Unused, Waiting, Started, ValueSound, Ends, Untouched
  <2>7. HostSound'
    BY <2>1, <2>3 DEF EndSound, Unused, Waiting, Started, HostSound, Untouched
  <2> QED BY <1>7, <2>4, <2>5, <2>6, <2>7 DEF FutureInv, Ends
<1> QED
  BY <1>4, <1>5 DEF Ends

(* An unused end begins its operation: the ends and the value stay sound. *)
LEMMA BeginSound ==
    ASSUME FutureInv, NEW e \in Ends, NEW v \in Values \cup {"empty"},
           Unused(e), e = "W" <=> v # "empty", f' = Begin(f, e, v),
           "ERROR" \notin {f.end[Other(e)].ev, f.end[Other(e)].told},
           \A i \in Consumers : then'[i] \in Values => then'[i] = then[i]
    PROVE  /\ f' \in FutureType
           /\ \A x \in Ends : EndSound(x)'
           /\ ValueSound'
           /\ Started(e)'
           /\ \A x \in Ends : /\ f'.end[x].told = f.end[x].told
                              /\ f'.end[x].ev = "ERROR" => f.end[x].ev = "ERROR"
           /\ f.pend = "none" => Waiting(e)' /\ f'.end[Other(e)] = f.end[Other(e)]
<1> DEFINE o == Other(e)
<1>1. f \in FutureType
  BY DEF FutureInv, TypeOK
<1>2. /\ "R" \in Ends /\ "W" \in Ends /\ o \in Ends /\ o # e /\ \A x \in Ends : x = e \/ x = o
      /\ ((e = "R" /\ o = "W") \/ (e = "W" /\ o = "R"))
  BY DEF Ends, Other
<1>3. f.pend = "none" \/ f.pend = o
  BY <1>1, <1>2, FutureFields DEF FutureInv, EndSound, Unused, Started, Waiting
<1>4. CASE f.pend = "none"
  <2>1. /\ f' \in FutureType /\ f'.pend = e
        /\ f'.end[e].calling /\ f'.end[e].buf = v
        /\ f'.end[e].copy = f.end[e].copy /\ f'.end[e].ev = f.end[e].ev
        /\ f'.end[e].told = f.end[e].told /\ f'.end[e].alive = f.end[e].alive
        /\ f'.end[e].dropped = f.end[e].dropped
        /\ f'.end[o] = f.end[o]
    BY <1>1, <1>4, BeginAlone
  <2>2. \A x \in Ends : EndSound(x)'
    BY <1>2, <1>4, <2>1 DEF FutureInv, EndSound, Unused, Started, Waiting
  <2>3. ValueSound'
    BY <1>2, <1>4, <2>1 DEF FutureInv, ValueSound, Unused, Values
  <2>4. Started(e)' /\ Waiting(e)'
    BY <2>1 DEF Started, Waiting, Unused
  <2> QED
    BY <1>2, <2>1, <2>2, <2>3, <2>4
<1>5. CASE f.pend = o
  <2>1. /\ f' \in FutureType /\ f'.pend = "none"
        /\ \A x \in Ends :
              /\ f'.end[x].ev = "COMPLETED"
              /\ f'.end[x].buf = IF x = "R" THEN (IF e = "W" THEN v ELSE f.end["W"].buf)
                                 ELSE "empty"
              /\ f'.end[x].copy = f.end[x].copy
              /\ f'.end[x].calling = (x = e \/ f.end[x].calling)
              /\ f'.end[x].told = f.end[x].told
              /\ f'.end[x].alive = f.end[x].alive
              /\ f'.end[x].dropped = f.end[x].dropped
    BY <1>1, <1>5, BeginMeets
  <2>2. f.end[o].ev = "none" /\ f.end[o].told = "none" /\ Started(o)
    <3>1. f.end[o] \in EndType
      BY <1>1, <1>2, FutureFields
    <3>2. f.end[o].ev \in {"none", "COMPLETED"} /\ f.end[o].told \in {"none", "COMPLETED"}
      BY <3>1 DEF EndType
    <3>3. "COMPLETED" \notin {f.end[o].ev, f.end[o].told}
      BY <1>2, <1>5 DEF FutureInv, ValueSound
    <3> QED
      BY <1>2, <1>5, <3>2, <3>3 DEF FutureInv, EndSound, Waiting
  <2>3. \A x \in Ends : EndSound(x)'
    <3>1. EndSound(e)'
      BY <2>1 DEF EndSound, Unused, Started, Waiting
    <3>2. EndSound(o)'
      <4>1. EndSound(o)
        BY <1>2 DEF FutureInv
      <4>2. f'.end[o].calling = f.end[o].calling
        BY <1>2, <2>1, <1>1, FutureFields DEF EndType
      <4> QED
        BY <1>2, <2>1, <2>2, <4>1, <4>2 DEF EndSound, Started, Waiting
    <3> QED
      BY <1>2, <3>1, <3>2
  <2>4. ValueSound'
    BY <1>2, <1>5, <2>1, <2>2 DEF FutureInv, ValueSound, Unused, Values
  <2> QED
    BY <1>2, <1>5, <2>1, <2>3, <2>4 DEF Started, Ends
<1> QED
  BY <1>3, <1>4, <1>5

(* future.write, up to its last await, keeps the invariant. *)
LEMMA WriteInv == FutureInv /\ FutureWrite => FutureInv'
<1> SUFFICES ASSUME FutureInv, FutureWrite PROVE FutureInv'
  OBVIOUS
<1>1. /\ "W" \in Ends /\ "R" \in Ends /\ Other("W") = "R" /\ "value" \in Values \cup {"empty"}
      /\ f' = Begin(f, "W", "value") /\ mode # "hostWriter"
  BY DEF FutureWrite, HeldByGuest, Ends, Other, Values
<1>2. Unused("W")
  BY <1>1, FutureFields DEF FutureInv, TypeOK, FutureWrite, EndSound, HostSound, Waiting, Started,
     EndType
<1>3. "ERROR" \notin {f.end["R"].ev, f.end["R"].told}
  BY <1>1 DEF FutureInv, HostSound
<1>4. \A i \in Consumers : then'[i] \in Values => then'[i] = then[i]
  BY DEF FutureWrite, Untouched
<1>5. /\ f' \in FutureType
      /\ \A x \in Ends : EndSound(x)'
      /\ ValueSound'
      /\ \A x \in Ends : /\ f'.end[x].told = f.end[x].told
                         /\ f'.end[x].ev = "ERROR" => f.end[x].ev = "ERROR"
      /\ f.pend = "none" => f'.end["R"] = f.end["R"]
  BY <1>1, <1>2, <1>3, <1>4, BeginSound
<1>6. Unused("R") => f.pend = "none" \/ f.pend = "W"
  BY <1>1, FutureFields DEF FutureInv, TypeOK, Unused, EndSound, Waiting, Started
<1>7. f.pend # "W"
  BY <1>1, <1>2, FutureFields DEF FutureInv, Unused, EndSound, Waiting, Started
<1>8. TypeOK' /\ HostSound'
  BY <1>1, <1>3, <1>5, <1>6, <1>7
  DEF FutureInv, TypeOK, HostSound, FutureWrite, Untouched, Unused
<1> QED
  BY <1>5, <1>8 DEF FutureInv

(* future.read, up to its last await, keeps the invariant. *)
LEMMA ReadInv == FutureInv /\ FutureRead => FutureInv'
<1> SUFFICES ASSUME FutureInv, FutureRead PROVE FutureInv'
  OBVIOUS
<1>1. /\ "W" \in Ends /\ "R" \in Ends /\ Other("R") = "W" /\ "empty" \in Values \cup {"empty"}
      /\ f' = Begin(f, "R", "empty") /\ mode # "hostReader"
  BY DEF FutureRead, HeldByGuest, Ends, Other
<1>2. Unused("R")
  BY <1>1, FutureFields DEF FutureInv, TypeOK, FutureRead, HeldByGuest, EndSound, Waiting, Started,
     EndType
<1>3. "ERROR" \notin {f.end["W"].ev, f.end["W"].told}
  BY <1>1 DEF FutureInv, HostSound
<1>4. \A i \in Consumers : then'[i] \in Values => then'[i] = then[i]
  BY DEF FutureRead
<1>5. /\ f' \in FutureType
      /\ \A x \in Ends : EndSound(x)'
      /\ ValueSound'
      /\ \A x \in Ends : /\ f'.end[x].told = f.end[x].told
                         /\ f'.end[x].ev = "ERROR" => f.end[x].ev = "ERROR"
      /\ Started("R")'
      /\ f.pend = "none" => Waiting("R")' /\ f'.end["W"] = f.end["W"]
  BY <1>1, <1>2, <1>3, <1>4, BeginSound
<1>6. TypeOK'
  BY <1>1, <1>2, <1>3, <1>5 DEF FutureInv, TypeOK, FutureRead, Unused
<1>7. mode = "hostWriter" => f.pend = "none" /\ Unused("W") /\ inject = "none"
  BY <1>2 DEF FutureInv, HostSound
<1>8. HostSound'
  BY <1>1, <1>2, <1>3, <1>5, <1>7
  DEF FutureInv, TypeOK, HostSound, FutureRead, Unused, Started
<1> QED
  BY <1>5, <1>6, <1>8 DEF FutureInv

(* A consumer of a lifted future that calls then() keeps the invariant. *)
LEMMA ThenInv == FutureInv /\ (\E i \in Consumers : Then(i)) => FutureInv'
<1> SUFFICES ASSUME FutureInv, NEW i \in Consumers, Then(i) PROVE FutureInv'
  OBVIOUS
<1>1. /\ "W" \in Ends /\ "R" \in Ends /\ Other("R") = "W" /\ "empty" \in Values \cup {"empty"}
  BY DEF Ends, Other
<1>2. /\ then' \in [Consumers -> Values \cup {"new", "waiting"}]
      /\ then'[i] = "waiting"
      /\ \A k \in Consumers : then'[k] \in Values => then'[k] = then[k]
  BY DEF FutureInv, TypeOK, Then, Values
<1>3. CASE MustStart
  <2>1. f' = Begin(f, "R", "empty") /\ mode = "hostReader" /\ mode' = mode
    BY <1>3 DEF Then
  <2>2. Unused("R")
    BY <1>3, <2>1 DEF FutureInv, HostSound, MustStart
  <2>3. "ERROR" \notin {f.end["W"].ev, f.end["W"].told}
    BY <1>1 DEF FutureInv, HostSound
  <2>4. /\ f' \in FutureType
        /\ \A x \in Ends : EndSound(x)'
        /\ ValueSound'
        /\ \A x \in Ends : /\ f'.end[x].told = f.end[x].told
                           /\ f'.end[x].ev = "ERROR" => f.end[x].ev = "ERROR"
    BY <1>1, <1>2, <2>1, <2>2, <2>3, BeginSound
  <2>5. TypeOK' /\ HostSound'
    BY <1>1, <1>2, <2>1, <2>2, <2>3, <2>4 DEF FutureInv, TypeOK, HostSound, Then, Unused
  <2> QED
    BY <2>4, <2>5 DEF FutureInv
<1>4. CASE ~MustStart
  <2>1. f' = f /\ mode = "hostReader" /\ UNCHANGED <<mode, inject, result>>
    BY <1>4 DEF Then
  <2> QED
    BY <1>1, <1>2, <2>1
    DEF FutureInv, TypeOK, HostSound, EndSound, ValueSound, Unused, Waiting, Started
<1> QED
  BY <1>3, <1>4

(* Giving a consumer its value keeps the invariant. *)
LEMMA DeliverInv == FutureInv /\ (\E i \in Consumers : Deliver(i)) => FutureInv'
<1> SUFFICES ASSUME FutureInv, NEW i \in Consumers, Deliver(i) PROVE FutureInv'
  OBVIOUS
<1>1. "R" \in Ends /\ f' = f /\ UNCHANGED <<mode, inject, result>>
  BY DEF Ends, Deliver
<1>2. f.end["R"].buf \in Values /\ f.end["R"].told = "COMPLETED"
  BY <1>1, FutureFields DEF Deliver, FutureInv, TypeOK, ValueSound, EndType
<1>3. /\ then' \in [Consumers -> Values \cup {"new", "waiting"}]
      /\ then'[i] = f.end["R"].buf
      /\ \A k \in Consumers : k # i => then'[k] = then[k]
  BY <1>2 DEF FutureInv, TypeOK, Deliver
<1>4. f.end["R"].buf # "new"
  BY <1>2 DEF Values
<1>5. ValueSound'
  BY <1>1, <1>2, <1>3 DEF FutureInv, ValueSound
<1>6. mode = "hostReader" /\ (\A k \in Consumers : then'[k] = "new") => Unused("R")
  BY <1>3, <1>4
<1> QED
  BY <1>1, <1>3, <1>5, <1>6
  DEF FutureInv, TypeOK, HostSound, EndSound, Unused, Waiting, Started

(* Dropping an end keeps the invariant. *)
LEMMA DropInv == FutureInv /\ (\E e \in Ends : FutureDrop(e)) => FutureInv'
<1> SUFFICES ASSUME FutureInv, NEW e \in Ends, FutureDrop(e) PROVE FutureInv'
  OBVIOUS
<1>1. f \in FutureType /\ DropSucceeds(e) \in BOOLEAN /\ f' = Leave(f, e, DropSucceeds(e))
  BY DEF FutureInv, TypeOK, DropSucceeds, FutureDrop
<1>2. "R" \in Ends /\ "W" \in Ends /\ (e = "R" \/ e = "W") /\ Other("R") = "W" /\ Other("W") = "R"
  BY DEF Ends, Other
<1>3. /\ f' \in FutureType /\ f'.pend = f.pend
      /\ \A x \in Ends :
            /\ f'.end[x].copy = f.end[x].copy /\ f'.end[x].calling = f.end[x].calling
            /\ f'.end[x].ev = f.end[x].ev /\ f'.end[x].told = f.end[x].told
            /\ f'.end[x].buf = f.end[x].buf
      /\ f'.end[e].dropped = DropSucceeds(e)
      /\ f'.end[Other(e)] = f.end[Other(e)]
  BY <1>1, <1>2, LeaveTable DEF Ends
<1>4. f'.end["W"].dropped => f.end["W"].dropped \/ f.end["W"].copy = "DONE"
  BY <1>2, <1>3 DEF DropSucceeds
<1>5. f'.end["W"].dropped => f.end["R"].buf # "empty"
  BY <1>2, <1>4 DEF FutureInv, ValueSound, EndSound
<1> QED
  BY <1>2, <1>3, <1>5
  DEF FutureInv, TypeOK, HostSound, EndSound, ValueSound, Unused, Waiting, Started,
      FutureDrop, Untouched

(* The host's promise that settles keeps the invariant. *)
LEMMA SettlesInv == FutureInv /\ (\E v \in Values : PromiseSettles(v)) => FutureInv'
<1> SUFFICES ASSUME FutureInv, NEW v \in Values, PromiseSettles(v) PROVE FutureInv'
  OBVIOUS
<1>1. /\ "W" \in Ends /\ "R" \in Ends /\ Other("W") = "R"
      /\ v \in Values \cup {"empty"} /\ v # "empty"
      /\ f' = Begin(f, "W", v) /\ inject = "promise"
  BY DEF PromiseSettles, Ends, Other, Values
<1>2. Unused("W") /\ Waiting("R")
  BY <1>1 DEF FutureInv, HostSound
<1>3. "ERROR" \notin {f.end["R"].ev, f.end["R"].told}
  BY <1>1, <1>2 DEF Waiting
<1>4. \A i \in Consumers : then'[i] \in Values => then'[i] = then[i]
  BY DEF PromiseSettles
<1>5. /\ f' \in FutureType
      /\ \A x \in Ends : EndSound(x)'
      /\ ValueSound'
      /\ Started("W")'
      /\ \A x \in Ends : /\ f'.end[x].told = f.end[x].told
                         /\ f'.end[x].ev = "ERROR" => f.end[x].ev = "ERROR"
      /\ f.pend = "none" => f'.end["R"] = f.end["R"]
  BY <1>1, <1>2, <1>3, <1>4, BeginSound
<1>6. f.pend = "R"
  BY <1>1, <1>2 DEF FutureInv, EndSound, Waiting
<1>7. f'.pend = "none" /\ f'.end["R"].ev = "COMPLETED"
  BY <1>1, <1>6, BeginMeets DEF FutureInv, TypeOK
<1>8. TypeOK' /\ HostSound'
  BY <1>1, <1>2, <1>3, <1>5, <1>7
  DEF FutureInv, TypeOK, HostSound, PromiseSettles, Unused
<1> QED
  BY <1>5, <1>8 DEF FutureInv

(* The host's promise that rejects keeps the invariant. *)
LEMMA FailsInv == FutureInv /\ PromiseFails => FutureInv'
<1> SUFFICES ASSUME FutureInv, PromiseFails PROVE FutureInv'
  OBVIOUS
<1>1. f \in FutureType /\ f' = ThrowInReader(f) /\ "R" \in Ends /\ "W" \in Ends
  BY DEF FutureInv, TypeOK, PromiseFails, Ends
<1>2. /\ f' \in FutureType /\ f'.pend = f.pend
      /\ f'.end["R"].copy = f.end["R"].copy /\ f'.end["R"].calling = f.end["R"].calling
      /\ f'.end["R"].ev = "ERROR" /\ f'.end["R"].told = f.end["R"].told
      /\ f'.end["R"].buf = f.end["R"].buf
      /\ f'.end["W"] = f.end["W"]
  BY <1>1, ThrowFields
<1>3. Waiting("R") /\ mode = "hostWriter"
  BY DEF FutureInv, HostSound, PromiseFails
<1> QED
  BY <1>1, <1>2, <1>3
  DEF FutureInv, TypeOK, HostSound, EndSound, ValueSound, Unused, Waiting, Started,
      PromiseFails, Ends

(* The end of the host's write keeps the invariant. *)
LEMMA HostWriteInv == FutureInv /\ HostWriteEnds => FutureInv'
<1> SUFFICES ASSUME FutureInv, HostWriteEnds PROVE FutureInv'
  OBVIOUS
<1> DEFINE g == getPendingEvent(f, "W")
           yes == TRUE
<1>1. /\ f \in FutureType /\ "R" \in Ends /\ "W" \in Ends /\ yes \in BOOLEAN /\ Other("W") = "R"
      /\ f' = Leave(g, "W", yes)
  BY DEF FutureInv, TypeOK, Ends, Other, HostWriteEnds
<1>2. f.end["W"].ev = "COMPLETED" /\ f.end["R"].buf # "empty"
  BY <1>1, FutureFields DEF FutureInv, TypeOK, HostWriteEnds, EndType, ValueSound
<1>3. /\ g \in FutureType /\ g.pend = f.pend
      /\ g.end["W"].told = "COMPLETED" /\ g.end["W"].ev = "none"
      /\ ~g.end["W"].calling /\ g.end["W"].copy = "DONE"
      /\ g.end["W"].buf = f.end["W"].buf
      /\ g.end["R"] = f.end["R"]
  BY <1>1, <1>2, GetPendingEvent
<1> HIDE DEF g, yes
<1>4. /\ f' \in FutureType /\ f'.pend = f.pend
      /\ f'.end["W"].told = "COMPLETED" /\ f'.end["W"].ev = "none"
      /\ ~f'.end["W"].calling /\ f'.end["W"].copy = "DONE"
      /\ f'.end["W"].buf = f.end["W"].buf
      /\ f'.end["R"] = f.end["R"]
  BY <1>1, <1>3, LeaveTable
<1>5. TypeOK' /\ HostSound'
  BY <1>1, <1>2, <1>4 DEF FutureInv, TypeOK, HostSound, Unused, Waiting, Started, HostWriteEnds
<1>6. EndSound("R")' /\ EndSound("W")'
  BY <1>1, <1>2, <1>4 DEF FutureInv, EndSound, Unused, Waiting, Started
<1>7. ValueSound'
  BY <1>1, <1>2, <1>4 DEF FutureInv, ValueSound, HostWriteEnds, Ends
<1> QED
  BY <1>5, <1>6, <1>7 DEF FutureInv, Ends

-----------------------------------------------------------------------------
(* Every step of read, write, drop, delivery and the host's promise keeps    *)
(* what is known of the two ends, the value and the consumers.               *)
THEOREM InvariantStep == FutureInv /\ [Next]_vars => FutureInv'
<1> SUFFICES ASSUME FutureInv, [Next]_vars PROVE FutureInv'
  OBVIOUS
<1>1. CASE UNCHANGED vars
  BY <1>1 DEF vars, FutureInv, TypeOK, HostSound, EndSound, ValueSound, Unused, Waiting, Started
<1>2. ASSUME NEW e \in Ends, TakeEvent(e) PROVE FutureInv'
  BY <1>2, TakeInv DEF TakeEvent
<1>3. ASSUME NEW e \in Ends, NEW state \in Blocking, OperationReturns(e, state) PROVE FutureInv'
  <2>1. CASE f.end[e].ev # "none"
    BY <1>3, <2>1, TakeInv DEF OperationReturns
  <2>2. CASE f.end[e].ev = "none"
    BY <1>3, <2>2, BlockInv DEF OperationReturns
  <2> QED
    BY <2>1, <2>2
<1>4. CASE HostReadBlocks
  BY <1>4, BlockInv DEF HostReadBlocks, Ends, Blocking
<1>5. CASE HostReadEnds
  BY <1>5, TakeInv DEF HostReadEnds, Untouched, Ends
<1> QED
  BY <1>1, <1>2, <1>3, <1>4, <1>5, WriteInv, ReadInv, ThenInv, DeliverInv, DropInv, SettlesInv,
     FailsInv, HostWriteInv
  DEF Next

(* The inductive invariant holds in every behaviour of the specification. *)
THEOREM Invariance == Spec => []FutureInv
BY InitInv, InvariantStep, PTL DEF Spec

(* Every operation of a future ends COMPLETED or, where the promise of the   *)
(* host was rejected, with its error: futureEvent never meets CANCELLED or   *)
(* DROPPED, which no code path of async_future.rs produces.                  *)
THEOREM TypeCorrect == Spec => []TypeOK
<1>1. FutureInv => TypeOK
  BY DEF FutureInv
<1> QED
  BY <1>1, Invariance, PTL

(* One value crosses, once, whatever the order of read, write, drop, blocking *)
(* and delivery: the checks of futureEvent and of drop() never fail for a     *)
(* reason other than those the guards name, and every consumer of a lifted    *)
(* future sees the one value.                                                 *)
THEOREM ValueHandedOver == Spec => []HandedOver
<1>1. FutureInv => HandedOver
  BY DEF FutureInv, ValueSound, HandedOver
<1> QED
  BY <1>1, Invariance, PTL

(* The operations of the two ends never wait for each other: one of them     *)
(* found the pending buffer of the other.                                    *)
THEOREM NeverBothWait == Spec => []OneWaits
<1>1. FutureInv => OneWaits
  BY DEF FutureInv, EndSound, OneWaits, Waiting, Ends, Other
<1> QED
  BY <1>1, Invariance, PTL
=============================================================================
