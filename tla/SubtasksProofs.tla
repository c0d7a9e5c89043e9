---------------------------- MODULE SubtasksProofs ----------------------------
(***************************************************************************)
(* Theorems about Subtasks, for any number of subtasks and waitable sets,  *)
(* any mix of calls, any number of handles, and guests that drop subtasks  *)
(* early or not.                                                           *)
(***************************************************************************)
EXTENDS Subtasks, RepTableLemmas, SequenceTheorems, FiniteSetTheorems, WellFoundedInduction

InCall(s) == guest = [at |-> "call", obj |-> s]

Imports == {"async", "manual", "syncOfAsync"}

(* Where a call is: its microtask or timer is queued, its callee runs, or it *)
(* is over; the guest is inside a call it has no handle of.                  *)
CallSound(s) ==
    /\ sub[s].call = "none" => sub[s] = Free
    /\ InCall(s) => sub[s].call \in Imports \cup {"symmetric"} /\ ~sub[s].exposed /\ told[s] = 0
    /\ sub[s].call \in Imports /\ sub[s].driver = "queued" =>
          InCall(s) /\ subs # <<>> /\ Last(subs) = s
    /\ sub[s].call \in {"async", "manual"} /\ sub[s].driver = "callee" =>
          InCall(s) \/ sub[s].exposed
    /\ sub[s].driver \in {"queued", "callee"} => sub[s].state \in {"STARTING", "STARTED"}
    /\ sub[s].exposed => sub[s].call \in {"async", "fused"}
    /\ sub[s].call = "fused" => sub[s].exposed
    /\ sub[s].driver \in {"callee", "done"} /\ sub[s].call # "symmetric" => sub[s].target = s

(* What the guest was told, and how it will be. *)
ToldSound(s) ==
    /\ told[s] <= 1
    /\ told[s] = 1 => sub[s].state = "RETURNED" /\ sub[s].delivered
    /\ sub[s].delivered => sub[s].state = "RETURNED" /\ told[s] = 1
    /\ sub[s].state = "RETURNED" /\ told[s] = 0 => InCall(s) \/ (sub[s].event /\ sub[s].exposed)
    /\ sub[s].exposed /\ told[s] = 1 => ~sub[s].event

(* A guest joins only subtasks it has the handle of. *)
MembersExposed ==
    \A w \in WSet : \A i \in DOMAIN sets[w].members : sub[sets[w].members[i]].exposed

(* A task that waits is counted. *)
WaitSound ==
    guest.at \in {"wait", "woken"} => guest.obj \in WSet /\ sets[guest.obj].waiting > 0

CallsInv ==
    /\ CallTypes
    /\ \A s \in Sub : CallSound(s) /\ ToldSound(s)
    /\ MembersExposed
    /\ WaitSound

-----------------------------------------------------------------------------
(* An unresolved subtask. *)
Live(s) == sub[s].state \in {"STARTING", "STARTED"}

(* The task's list holds each of its unresolved subtasks once. *)
ListSound ==
    /\ IsInjective(subs)
    /\ \A s \in Sub : s \in Range(subs) <=> Live(s)

(* Every object has at most one rep. *)
RepsSound ==
    /\ \A s \in Sub, r \in Reps : tab.slot[r] = s => sub[s].state # "none" /\ sub[s].idx = r
    /\ \A w \in WSet, r \in Reps : tab.slot[r] = w => sets[w].made
    /\ \A w \in WSet : \A q, r \in Reps : tab.slot[r] = w /\ tab.slot[q] = w => q = r

(* A subtask under way is at its idx, one that is over and was never given   *)
(* to the guest is nowhere.                                                  *)
HandleSound(s) ==
    /\ Live(s) \/ InCall(s) \/ sub[s].set # 0 =>
          /\ sub[s].idx \in Reps
          /\ tab.slot[sub[s].idx] = s \/ (EarlyDrop /\ sub[s].exposed)
    /\ sub[s].state = "RETURNED" /\ ~sub[s].exposed /\ ~InCall(s) =>
          \A r \in Reps : tab.slot[r] # s

WaitsOn(w) == guest.at \in {"wait", "woken"} /\ guest.obj = w

HasHandle(w) == \E r \in Reps : tab.slot[r] = w

(* The set and its members agree; a set in use has a handle. *)
SetSound(w) ==
    /\ IsInjective(sets[w].members)
    /\ \A s \in Sub : sub[s].set = w <=> s \in Range(sets[w].members)
    /\ sets[w].members # <<>> \/ WaitsOn(w) => HasHandle(w)

HandlesInv ==
    /\ Sound(tab, Objects) /\ ListSound /\ RepsSound
    /\ \A s \in Sub : HandleSound(s)
    /\ \A w \in WSet : SetSound(w)

-----------------------------------------------------------------------------
(* filter() of a list that holds the element at most once. *)

(* The elements of a list without its k-th. *)
LEMMA RemoveAtElements ==
    ASSUME NEW S, NEW list \in Seq(S), NEW k \in 1 .. Len(list)
    PROVE  LET u == RemoveAt(list, k)
           IN  /\ u \in Seq(S) /\ Len(u) = Len(list) - 1
               /\ \A i \in 1 .. Len(list) - 1 : u[i] = list[IF i < k THEN i ELSE i + 1]
<1> DEFINE n == Len(list)
           a == SubSeq(list, 1, k - 1)
           b == SubSeq(list, k + 1, n)
<1>1. n \in Nat /\ k \in Nat /\ 1 <= k /\ k <= n
  OBVIOUS
<1>2. \A i \in 1 .. n : list[i] \in S
  OBVIOUS
<1>3. a \in Seq(S) /\ Len(a) = k - 1 /\ \A i \in 1 .. k - 1 : a[i] = list[i]
  <2>1. \A i \in 1 .. k - 1 : list[i] \in S
    BY <1>1, <1>2
  <2>2. /\ a \in Seq(S) /\ Len(a) = (IF 1 <= k - 1 THEN (k - 1) - 1 + 1 ELSE 0)
        /\ \A i \in 1 .. (k - 1) - 1 + 1 : a[i] = list[1 + i - 1]
    BY <2>1, <1>1, SubSeqProperties
  <2> HIDE DEF a, n
  <2> QED BY <2>2, <1>1
<1>4. b \in Seq(S) /\ Len(b) = n - k /\ \A i \in 1 .. n - k : b[i] = list[k + i]
  <2>1. \A i \in k + 1 .. n : list[i] \in S
    BY <1>1, <1>2
  <2>2. /\ b \in Seq(S) /\ Len(b) = (IF k + 1 <= n THEN n - (k + 1) + 1 ELSE 0)
        /\ \A i \in 1 .. n - (k + 1) + 1 : b[i] = list[k + 1 + i - 1]
    BY <2>1, <1>1, SubSeqProperties
  <2> HIDE DEF b, n
  <2> QED BY <2>2, <1>1
<1>5. RemoveAt(list, k) = a \o b
  BY DEF RemoveAt
<1> HIDE DEF a, b
<1>6. /\ a \o b \in Seq(S) /\ Len(a \o b) = (k - 1) + (n - k)
      /\ \A i \in 1 .. (k - 1) + (n - k) : (a \o b)[i] = IF i <= k - 1 THEN a[i] ELSE b[i - (k - 1)]
  BY <1>3, <1>4, ConcatProperties
<1>7. (k - 1) + (n - k) = n - 1
  <2> HIDE DEF n
  <2> QED BY <1>1
<1>8. ASSUME NEW i \in 1 .. n - 1
      PROVE  (a \o b)[i] = list[IF i < k THEN i ELSE i + 1]
  <2> HIDE DEF n
  <2>0. i \in Nat /\ 1 <= i /\ i <= n - 1
    BY <1>1
  <2>1. CASE i < k
    <3>1. i <= k - 1 /\ i \in 1 .. k - 1
      BY <2>0, <2>1, <1>1
    <3> QED BY <3>1, <2>1, <1>3, <1>6, <1>7
  <2>2. CASE ~(i < k)
    <3>1. ~(i <= k - 1) /\ i - (k - 1) \in 1 .. n - k /\ k + (i - (k - 1)) = i + 1
      BY <2>0, <2>2, <1>1
    <3>2. b[i - (k - 1)] = list[i + 1]
      BY <3>1, <1>4
    <3> QED BY <3>1, <3>2, <2>2, <1>6, <1>7
  <2> QED BY <2>1, <2>2
<1> QED
  BY <1>5, <1>6, <1>7, <1>8

(* A filtered list has elements of the list only. *)
LEMMA WithoutType ==
    ASSUME NEW S, NEW list \in Seq(S), NEW s
    PROVE  /\ Without(s, list) \in Seq(S)
           /\ \A i \in DOMAIN Without(s, list) : \E j \in DOMAIN list : Without(s, list)[i] = list[j]
<1>1. CASE ~(\E i \in DOMAIN list : list[i] = s)
  BY <1>1 DEF Without
<1>2. CASE \E i \in DOMAIN list : list[i] = s
  <2> DEFINE k == CHOOSE i \in DOMAIN list : list[i] = s
             u == RemoveAt(list, k)
  <2>1. k \in 1 .. Len(list)
    BY <1>2
  <2>2. Without(s, list) = u
    BY <1>2 DEF Without
  <2> HIDE DEF k
  <2>3. /\ u \in Seq(S) /\ Len(u) = Len(list) - 1
        /\ \A i \in 1 .. Len(list) - 1 : u[i] = list[IF i < k THEN i ELSE i + 1]
    BY <2>1, RemoveAtElements
  <2> HIDE DEF u
  <2>4. DOMAIN u = 1 .. Len(list) - 1 /\ DOMAIN list = 1 .. Len(list) /\ Len(list) \in Nat
    BY <2>3
  <2>5. \A i \in 1 .. Len(list) - 1 : (IF i < k THEN i ELSE i + 1) \in 1 .. Len(list)
    BY <2>1, <2>4
  <2> QED BY <2>2, <2>3, <2>4, <2>5
<1> QED BY <1>1, <1>2

(* The other elements stay, each once, and the last one stays the last. *)
LEMMA WithoutOthers ==
    ASSUME NEW S, NEW list \in Seq(S), NEW s, IsInjective(list)
    PROVE  LET u == Without(s, list)
           IN  IsInjective(u) /\ Range(u) = Range(list) \ {s}
<1> DEFINE u == Without(s, list)
<1>1. CASE ~(\E i \in DOMAIN list : list[i] = s)
  BY <1>1 DEF Without, Range
<1>2. CASE \E i \in DOMAIN list : list[i] = s
  <2> DEFINE k == CHOOSE i \in DOMAIN list : list[i] = s
             n == Len(list)
             at(i) == IF i < k THEN i ELSE i + 1
  <2>1. k \in 1 .. n /\ list[k] = s
    BY <1>2
  <2>2. u = RemoveAt(list, k)
    BY <1>2 DEF Without
  <2> HIDE DEF k
  <2>3. /\ u \in Seq(S) /\ Len(u) = n - 1
        /\ \A i \in 1 .. n - 1 : u[i] = list[at(i)]
    BY <2>1, <2>2, RemoveAtElements
  <2> HIDE DEF u
  <2>4. DOMAIN u = 1 .. n - 1 /\ DOMAIN list = 1 .. n /\ n \in Nat
    BY <2>3
  <2> HIDE DEF n
  <2>5. \A i \in 1 .. n - 1 : at(i) \in 1 .. n /\ at(i) # k
    BY <2>1, <2>4
  <2>6. \A i, j \in 1 .. n - 1 : at(i) = at(j) => i = j
    BY <2>1, <2>4
  <2>7. \A j \in 1 .. n : j # k => \E i \in 1 .. n - 1 : at(i) = j
    <3> SUFFICES ASSUME NEW j \in 1 .. n, j # k PROVE \E i \in 1 .. n - 1 : at(i) = j
      OBVIOUS
    <3>1. CASE j < k
      <4>1. j \in 1 .. n - 1 /\ at(j) = j
        BY <3>1, <2>1, <2>4
      <4> QED BY <4>1
    <3>2. CASE j > k
      <4>1. j - 1 \in 1 .. n - 1 /\ at(j - 1) = j
        BY <3>2, <2>1, <2>4
      <4> QED BY <4>1
    <3> QED BY <3>1, <3>2, <2>1, <2>4
  <2> HIDE DEF at
  <2>8. IsInjective(u)
    BY <2>3, <2>4, <2>5, <2>6 DEF IsInjective
  <2>9. \A i \in DOMAIN u : u[i] \in Range(list) /\ u[i] # s
    BY <2>1, <2>3, <2>4, <2>5 DEF IsInjective, Range
  <2>10. \A j \in DOMAIN list : list[j] # s => list[j] \in Range(u)
    BY <2>1, <2>3, <2>4, <2>7 DEF Range
  <2>11. Range(u) = Range(list) \ {s}
    BY <2>9, <2>10 DEF Range
  <2> QED BY <2>8, <2>11 DEF u
<1> QED BY <1>1, <1>2

(* Filtering out another element keeps the last one last. *)
LEMMA WithoutLast ==
    ASSUME NEW S, NEW list \in Seq(S), NEW s, list # <<>>, Last(list) # s
    PROVE  Without(s, list) # <<>> /\ Last(Without(s, list)) = Last(list)
<1>1. CASE ~(\E i \in DOMAIN list : list[i] = s)
  BY <1>1 DEF Without
<1>2. CASE \E i \in DOMAIN list : list[i] = s
  <2> DEFINE k == CHOOSE i \in DOMAIN list : list[i] = s
             n == Len(list)
             u == RemoveAt(list, k)
  <2>1. k \in 1 .. n /\ list[k] = s
    BY <1>2
  <2>2. Without(s, list) = u
    BY <1>2 DEF Without
  <2> HIDE DEF k
  <2>3. /\ u \in Seq(S) /\ Len(u) = n - 1
        /\ \A i \in 1 .. n - 1 : u[i] = list[IF i < k THEN i ELSE i + 1]
    BY <2>1, RemoveAtElements
  <2> HIDE DEF u
  <2>4. k # n /\ n \in Nat
    BY <2>1 DEF Last
  <2>5. n - 1 \in 1 .. n - 1 /\ ~(n - 1 < k) /\ (n - 1) + 1 = n
    <3> HIDE DEF n
    <3> QED BY <2>1, <2>4
  <2>6. u[n - 1] = list[n] /\ u # <<>>
    BY <2>3, <2>5
  <2> QED BY <2>2, <2>3, <2>6 DEF Last
<1> QED BY <1>1, <1>2

-----------------------------------------------------------------------------
(* The calls. *)

(* Replacing one subtask leaves the others. *)
LEMMA SetSub ==
    ASSUME CallTypes, NEW s \in Sub, NEW x \in SubType
    PROVE  LET f == [sub EXCEPT ![s] = x]
           IN  f \in [Sub -> SubType] /\ f[s] = x /\ \A y \in Sub \ {s} : f[y] = sub[y]
BY DEF CallTypes

(* The fields of a subtask have their types. *)
LEMMA SubFields ==
    ASSUME CallTypes, NEW s \in Sub
    PROVE  /\ sub[s] \in SubType
           /\ sub[s].call \in CallKinds \cup {"none"} /\ sub[s].state \in States
           /\ sub[s].delivered \in BOOLEAN /\ sub[s].event \in BOOLEAN
           /\ sub[s].exposed \in BOOLEAN /\ sub[s].driver \in Drivers
           /\ sub[s].idx \in 0 .. MaxRep /\ sub[s].set \in WSet \cup {0}
           /\ told[s] \in Nat
<1>1. sub[s] \in SubType /\ told[s] \in Nat
  BY DEF CallTypes
<1> QED BY <1>1 DEF SubType

(* A subtask the step does not touch. *)
Untouched(y) ==
    /\ sub'[y] = sub[y] /\ told'[y] = told[y] /\ (InCall(y)' <=> InCall(y))
    /\ InCall(y) /\ subs # <<>> /\ Last(subs) = y => subs' # <<>> /\ Last(subs') = y

(* A subtask that a step does not touch stays sound. *)
LEMMA Unaffected ==
    ASSUME NEW y \in Sub, CallSound(y), ToldSound(y), Untouched(y)
    PROVE  CallSound(y)' /\ ToldSound(y)'
BY DEF CallSound, ToldSound, Untouched

(* Nobody is in a call while the guest runs. *)
LEMMA RunningIsNotInCall ==
    ASSUME NEW g, g = Running \/ g.at # "call", NEW y
    PROVE  g # [at |-> "call", obj |-> y]
BY DEF Running

(* The guest is inside one call at a time. *)
LEMMA InOneCall ==
    ASSUME NEW y, NEW s, [at |-> "call", obj |-> s] = [at |-> "call", obj |-> y]
    PROVE  y = s
<1>1. [at |-> "call", obj |-> s].obj = [at |-> "call", obj |-> y].obj
  OBVIOUS
<1> QED BY <1>1

(* A subtask that was not used yet. *)
LEMMA FreeIsNew ==
    ASSUME CallsInv, NEW s \in Sub, sub[s] = Free
    PROVE  told[s] = 0 /\ \A w \in WSet : \A i \in DOMAIN sets[w].members : sets[w].members[i] # s
<1>1. sub[s].state = "none" /\ sub[s].exposed = FALSE
  BY DEF Free
<1>2. told[s] \in Nat /\ told[s] <= 1 /\ told[s] # 1
  BY <1>1, SubFields DEF CallsInv, ToldSound
<1> QED BY <1>1, <1>2 DEF CallsInv, MembersExposed

(* Members stay exposed when the sets do not change. *)
LEMMA ExposedStay ==
    ASSUME CallsInv, UNCHANGED sets, \A y \in Sub : sub[y].exposed => sub'[y].exposed
    PROVE  MembersExposed'
<1>1. \A w \in WSet : sets[w].members \in Seq(Sub)
  BY DEF CallsInv, CallTypes, SetType
<1>2. \A w \in WSet : \A i \in DOMAIN sets[w].members : sets[w].members[i] \in Sub
  BY <1>1
<1> QED BY <1>2 DEF CallsInv, MembersExposed

(* What creation leaves. *)
NewSub(s, call, state, driver) ==
    /\ sub' \in [Sub -> SubType] /\ \A y \in Sub \ {s} : sub'[y] = sub[y]
    /\ sub'[s].call = call /\ sub'[s].state = state /\ sub'[s].driver = driver
    /\ sub'[s].exposed = (call = "fused") /\ ~sub'[s].delivered /\ ~sub'[s].event
    /\ sub'[s].set = 0 /\ sub'[s].idx = NextRep(tab) /\ sub'[s].target = 0
    /\ subs' \in Seq(Sub) /\ subs' # <<>> /\ Last(subs') = s

(* createSubtask puts a new subtask at the end of the list. *)
LEMMA CreatedIsNew ==
    ASSUME CallsInv, NEW s \in Sub, CanCreate(s), NEW call \in CallKinds, NEW state \in States,
           NEW driver \in Drivers, Created(s, call, state, driver)
    PROVE  NewSub(s, call, state, driver)
<1> DEFINE x == [Free EXCEPT !.call = call, !.state = state, !.idx = NextRep(tab),
                             !.driver = driver, !.exposed = (call = "fused")]
<1>1. NextRep(tab) \in 0 .. MaxRep /\ 0 \in WSet \cup {0} /\ 0 \in Sub \cup {0}
  BY DEF CanCreate, HasRoom, Reps
<1>2. Free \in SubType /\ ~Free.delivered /\ ~Free.event /\ Free.set = 0 /\ Free.target = 0
  <2>1. 0 \in 0 .. MaxRep
    BY MaxRepAssumption
  <2> QED BY <2>1, <1>1 DEF Free, SubType, States, Drivers
<1>3. x \in SubType
  BY <1>1, <1>2 DEF SubType
<1>4. sub' = [sub EXCEPT ![s] = x] /\ subs' = Append(subs, s)
  BY DEF Created
<1>5. /\ x.call = call /\ x.state = state /\ x.driver = driver /\ x.exposed = (call = "fused")
      /\ ~x.delivered /\ ~x.event /\ x.set = 0 /\ x.idx = NextRep(tab) /\ x.target = 0
  BY <1>2 DEF SubType
<1> HIDE DEF x
<1>6. sub' \in [Sub -> SubType] /\ sub'[s] = x /\ \A y \in Sub \ {s} : sub'[y] = sub[y]
  BY <1>3, <1>4, SetSub DEF CallsInv
<1>7. subs' \in Seq(Sub) /\ subs' # <<>> /\ Last(subs') = s
  BY <1>4 DEF CallsInv, CallTypes, Last
<1> QED
  BY <1>5, <1>6, <1>7 DEF NewSub

(* A call that has just been made is where CallSound says. *)
LEMMA NewCallSound ==
    ASSUME CallsInv, NEW s \in Sub, CanCreate(s), NEW call \in CallKinds, NEW state \in {"STARTING", "STARTED"},
           NEW driver \in {"queued", "callee"}, NewSub(s, call, state, driver),
           guest' = (IF call = "fused" THEN guest ELSE [at |-> "call", obj |-> s]),
           call # "sync", driver = "callee" <=> call = "symmetric",
           UNCHANGED <<sets, told>>
    PROVE  CallsInv'
<1>1. guest = Running /\ sub[s] = Free
  BY DEF CanCreate
<1>2. told[s] = 0 /\ ~sub[s].exposed
  BY <1>1, FreeIsNew DEF Free
<1>3. \A y \in Sub : ~InCall(y)
  BY <1>1, RunningIsNotInCall DEF InCall
<1>4. \A y \in Sub \ {s} : ~InCall(y)'
  BY <1>1, InOneCall, RunningIsNotInCall DEF InCall
<1>5. call # "fused" => InCall(s)'
  BY DEF InCall
<1>6. call = "fused" => ~InCall(s)'
  BY <1>1, RunningIsNotInCall DEF InCall
<1>7. ASSUME NEW y \in Sub \ {s} PROVE CallSound(y)' /\ ToldSound(y)'
  <2>1. Untouched(y)
    BY <1>3, <1>4 DEF Untouched, NewSub
  <2> QED BY <2>1, Unaffected DEF CallsInv
<1>8. CallSound(s)'
  BY <1>2, <1>5, <1>6 DEF CallSound, NewSub, Imports, CallKinds
<1>9. ToldSound(s)'
  BY <1>2 DEF ToldSound, NewSub
<1>10. MembersExposed'
  <2>1. \A y \in Sub : sub[y].exposed => sub'[y].exposed
    BY <1>2 DEF NewSub
  <2> QED BY <2>1, ExposedStay
<1>11. CallTypes'
  <2>1. guest' \in [at : {"run", "call", "wait", "woken"}, obj : Objects \cup {0}]
    BY DEF CallsInv, CallTypes, Objects
  <2> QED BY <2>1 DEF CallsInv, CallTypes, NewSub
<1>12. WaitSound'
  <2>1. guest'.at \in {"run", "call"}
    BY <1>1 DEF Running
  <2> QED BY <2>1 DEF WaitSound
<1> QED
  BY <1>7, <1>8, <1>9, <1>10, <1>11, <1>12 DEF CallsInv

(* A step that changes one subtask. *)
LEMMA OneCall ==
    ASSUME CallsInv, NEW s \in Sub, CallTypes', UNCHANGED sets,
           \A y \in Sub \ {s} : Untouched(y),
           CallSound(s)', ToldSound(s)', sub[s].exposed => sub'[s].exposed, WaitSound'
    PROVE  CallsInv'
<1>1. ASSUME NEW y \in Sub \ {s} PROVE CallSound(y)' /\ ToldSound(y)'
  BY Unaffected DEF CallsInv
<1>2. \A y \in Sub : sub[y].exposed => sub'[y].exposed
  BY DEF Untouched
<1>3. MembersExposed'
  BY <1>2, ExposedStay
<1> QED BY <1>1, <1>3 DEF CallsInv

(* A synchronous import keeps the calls sound. *)
LEMMA SyncImportKeeps ==
    ASSUME CallsInv, NEW s \in Sub, LowerImportBackwardsCompat(s, "sync")
    PROVE  CallsInv'
<1> DEFINE x == [Free EXCEPT !.call = "sync", !.state = "RETURNED", !.delivered = TRUE,
                             !.idx = NextRep(tab), !.driver = "done", !.target = s]
<1>1. CanCreate(s) /\ sub' = [sub EXCEPT ![s] = x] /\ told' = [told EXCEPT ![s] = told[s] + 1]
      /\ UNCHANGED <<subs, guest, sets>>
  BY DEF LowerImportBackwardsCompat
<1>2. guest = Running /\ sub[s] = Free /\ NextRep(tab) \in 0 .. MaxRep
  BY <1>1 DEF CanCreate, HasRoom, Reps
<1>3. told[s] = 0 /\ ~sub[s].exposed
  BY <1>2, FreeIsNew DEF Free
<1>4. /\ x \in SubType /\ x.call = "sync" /\ x.state = "RETURNED" /\ x.delivered
      /\ x.driver = "done" /\ x.target = s /\ ~x.exposed
  <2>1. sub[s] \in SubType
    BY SubFields DEF CallsInv
  <2> QED BY <2>1, <1>2 DEF SubType, Free, CallKinds, States, Drivers
<1> HIDE DEF x
<1>5. sub' \in [Sub -> SubType] /\ sub'[s] = x /\ \A y \in Sub \ {s} : sub'[y] = sub[y]
  BY <1>1, <1>4, SetSub DEF CallsInv
<1>6. told' \in [Sub -> Nat] /\ told'[s] = 1 /\ \A y \in Sub \ {s} : told'[y] = told[y]
  BY <1>1, <1>3 DEF CallsInv, CallTypes
<1>7. \A y \in Sub : ~InCall(y) /\ ~InCall(y)'
  BY <1>1, <1>2, RunningIsNotInCall DEF InCall
<1>8. \A y \in Sub \ {s} : Untouched(y)
  BY <1>5, <1>6, <1>7 DEF Untouched
<1>9. CallSound(s)' /\ ToldSound(s)'
  BY <1>4, <1>5, <1>6, <1>7 DEF CallSound, ToldSound, Imports
<1>10. CallTypes' /\ WaitSound'
  BY <1>1, <1>5, <1>6 DEF CallsInv, CallTypes, WaitSound
<1> QED
  BY <1>1, <1>3, <1>8, <1>9, <1>10, OneCall

(* The microtask of an import keeps the calls sound. *)
LEMMA RunImportKeeps ==
    ASSUME CallsInv, NEW s \in Sub, RunImport(s)
    PROVE  CallsInv'
<1> DEFINE x == IF IsCalled(sub[s].call)
                THEN [sub[s] EXCEPT !.driver = "callee", !.target = getLatestSubtask]
                ELSE [sub[s] EXCEPT !.driver = "failed"]
<1>1. /\ sub' = [sub EXCEPT ![s] = x] /\ UNCHANGED <<tab, subs, sets, guest, told>>
      /\ sub[s].driver = "queued" /\ sub[s].call \in Imports
  BY DEF RunImport, Imports
<1>2. CallSound(s) /\ ToldSound(s) /\ sub[s] \in SubType
  BY SubFields DEF CallsInv
<1>3. InCall(s) /\ getLatestSubtask = s
  BY <1>1, <1>2 DEF CallSound, getLatestSubtask
<1>4. /\ x \in SubType /\ x.call = sub[s].call /\ x.state = sub[s].state
      /\ x.delivered = sub[s].delivered /\ x.event = sub[s].event /\ x.exposed = sub[s].exposed
      /\ x.driver \in {"callee", "failed"} /\ (x.driver = "callee" => x.target = s)
  BY <1>2, <1>3 DEF SubType, Drivers
<1> HIDE DEF x
<1>5. sub' \in [Sub -> SubType] /\ sub'[s] = x /\ \A y \in Sub \ {s} : sub'[y] = sub[y]
  BY <1>1, <1>4, SetSub DEF CallsInv
<1>6. \A y \in Sub : InCall(y)' <=> InCall(y)
  BY <1>1 DEF InCall
<1>7. \A y \in Sub \ {s} : Untouched(y)
  BY <1>1, <1>5, <1>6 DEF Untouched
<1>8. CallSound(s)'
  <2>1. sub'[s].call # "none"
    BY <1>1, <1>4, <1>5 DEF Imports
  <2> QED BY <2>1, <1>1, <1>2, <1>3, <1>4, <1>5, <1>6 DEF CallSound
<1>9. ToldSound(s)'
  BY <1>1, <1>2, <1>4, <1>5, <1>6 DEF ToldSound
<1>10. CallTypes' /\ WaitSound'
  BY <1>1, <1>5 DEF CallsInv, CallTypes, WaitSound
<1> QED
  BY <1>1, <1>4, <1>5, <1>7, <1>8, <1>9, <1>10, OneCall

(* The timer that starts a fused call keeps the calls sound. *)
LEMMA StartTimerKeeps ==
    ASSUME CallsInv, NEW s \in Sub, StartTimer(s)
    PROVE  CallsInv'
<1> DEFINE x == [sub[s] EXCEPT !.driver = "callee", !.target = s,
                               !.event = TRUE, !.state = "STARTED"]
<1>1. /\ sub' = [sub EXCEPT ![s] = x] /\ UNCHANGED <<tab, subs, sets, guest, told>>
      /\ sub[s].driver = "queued" /\ sub[s].call = "fused"
  BY DEF StartTimer
<1>2. CallSound(s) /\ ToldSound(s) /\ sub[s] \in SubType
  BY SubFields DEF CallsInv
<1>3. sub[s].state # "RETURNED" /\ sub[s].exposed /\ told[s] # 1
  BY <1>1, <1>2 DEF CallSound, ToldSound
<1>4. /\ x \in SubType /\ x.call = sub[s].call /\ x.state = "STARTED"
      /\ x.delivered = sub[s].delivered /\ x.event /\ x.exposed = sub[s].exposed
      /\ x.driver = "callee" /\ x.target = s
  BY <1>2, <1>3 DEF SubType, Drivers, States
<1> HIDE DEF x
<1>5. sub' \in [Sub -> SubType] /\ sub'[s] = x /\ \A y \in Sub \ {s} : sub'[y] = sub[y]
  BY <1>1, <1>4, SetSub DEF CallsInv
<1>6. \A y \in Sub : InCall(y)' <=> InCall(y)
  BY <1>1 DEF InCall
<1>7. \A y \in Sub \ {s} : Untouched(y)
  BY <1>1, <1>5, <1>6 DEF Untouched
<1>8. CallSound(s)'
  BY <1>1, <1>2, <1>4, <1>5, <1>6 DEF CallSound, Imports
<1>9. ToldSound(s)'
  BY <1>1, <1>2, <1>3, <1>4, <1>5, <1>6 DEF ToldSound
<1>10. CallTypes' /\ WaitSound'
  BY <1>1, <1>5 DEF CallsInv, CallTypes, WaitSound
<1> QED
  BY <1>1, <1>4, <1>5, <1>7, <1>8, <1>9, <1>10, OneCall

(* A callee that traps keeps the calls sound. *)
LEMMA TrapKeeps ==
    ASSUME CallsInv, NEW s \in Sub, CalleeTraps(s)
    PROVE  CallsInv'
<1> DEFINE x == [sub[s] EXCEPT !.driver = "failed"]
<1>1. /\ sub' = [sub EXCEPT ![s] = x] /\ UNCHANGED <<tab, subs, sets, guest, told>>
      /\ sub[s].call = "fused"
  BY DEF CalleeTraps
<1>2. CallSound(s) /\ ToldSound(s) /\ sub[s] \in SubType
  BY SubFields DEF CallsInv
<1>3. /\ x \in SubType /\ x.call = sub[s].call /\ x.state = sub[s].state
      /\ x.delivered = sub[s].delivered /\ x.event = sub[s].event /\ x.exposed = sub[s].exposed
      /\ x.driver = "failed"
  BY <1>2 DEF SubType, Drivers
<1> HIDE DEF x
<1>4. sub' \in [Sub -> SubType] /\ sub'[s] = x /\ \A y \in Sub \ {s} : sub'[y] = sub[y]
  BY <1>1, <1>3, SetSub DEF CallsInv
<1>5. \A y \in Sub : InCall(y)' <=> InCall(y)
  BY <1>1 DEF InCall
<1>6. \A y \in Sub \ {s} : Untouched(y)
  BY <1>1, <1>4, <1>5 DEF Untouched
<1>7. CallSound(s)'
  BY <1>1, <1>2, <1>3, <1>4, <1>5 DEF CallSound, Imports
<1>8. ToldSound(s)'
  BY <1>1, <1>2, <1>3, <1>4, <1>5 DEF ToldSound
<1>9. CallTypes' /\ WaitSound'
  BY <1>1, <1>4 DEF CallsInv, CallTypes, WaitSound
<1> QED
  BY <1>1, <1>3, <1>4, <1>6, <1>7, <1>8, <1>9, OneCall

(* onResolve of the subtask's own driver. *)
Resolved(s) ==
    /\ sub' \in [Sub -> SubType] /\ \A y \in Sub \ {s} : sub'[y] = sub[y]
    /\ sub'[s].call = sub[s].call /\ sub'[s].state = "RETURNED"
    /\ (sub'[s].event <=> HasProgressFn(s)) /\ (sub'[s].delivered <=> ~isAsync(s))
    /\ sub'[s].driver = "done" /\ sub'[s].exposed = sub[s].exposed
    /\ sub'[s].target = sub[s].target /\ sub'[s].idx = sub[s].idx /\ sub'[s].set = sub[s].set
    /\ subs' = Without(s, subs) /\ tab' = HandleAfterResolve(s)
    /\ sub[s].state = "STARTED"

(* onResolve of a call resolves the call's own subtask. *)
LEMMA ResolveOwn ==
    ASSUME CallsInv, NEW s \in Sub, sub[s].driver = "callee", sub[s].call # "symmetric", Resolve(s)
    PROVE  Resolved(s)
<1> DEFINE x == [sub[s] EXCEPT !.state = "RETURNED", !.event = Progress(s),
                               !.delivered = ~isAsync(s)]
           z == [x EXCEPT !.driver = "done"]
<1>1. sub[s].target = s /\ sub[s] \in SubType
  BY SubFields DEF CallsInv, CallSound
<1>2. /\ sub' = [sub EXCEPT ![s] = [sub[s] EXCEPT !.state = "RETURNED", !.event = Progress(s),
                                                  !.delivered = ~isAsync(s)],
                            ![s].driver = "done"]
      /\ subs' = Without(s, subs) /\ tab' = HandleAfterResolve(s) /\ sub[s].state = "STARTED"
  BY <1>1 DEF Resolve
<1>3. Progress(s) \in BOOLEAN /\ (Progress(s) <=> HasProgressFn(s))
  BY DEF Progress, HasProgressFn
<1>4. /\ x \in SubType /\ x.state = "RETURNED" /\ (x.event <=> Progress(s))
      /\ (x.delivered <=> ~isAsync(s)) /\ x.call = sub[s].call /\ x.exposed = sub[s].exposed
      /\ x.target = sub[s].target /\ x.idx = sub[s].idx /\ x.set = sub[s].set
  <2>1. (~isAsync(s)) \in BOOLEAN
    BY DEF isAsync
  <2> QED BY <2>1, <1>1, <1>3 DEF SubType, States
<1>5. sub' = [sub EXCEPT ![s] = x, ![s].driver = "done"]
  BY <1>2
<1> HIDE DEF x
<1>6. /\ z \in SubType /\ z.state = "RETURNED" /\ (z.event <=> Progress(s))
      /\ (z.delivered <=> ~isAsync(s)) /\ z.call = sub[s].call /\ z.exposed = sub[s].exposed
      /\ z.target = sub[s].target /\ z.idx = sub[s].idx /\ z.set = sub[s].set /\ z.driver = "done"
  BY <1>4 DEF SubType, Drivers
<1>7. sub' = [sub EXCEPT ![s] = z]
  BY <1>5 DEF CallsInv, CallTypes
<1> HIDE DEF z
<1>8. sub' \in [Sub -> SubType] /\ sub'[s] = z /\ \A y \in Sub \ {s} : sub'[y] = sub[y]
  BY <1>6, <1>7, SetSub DEF CallsInv
<1> QED
  BY <1>2, <1>3, <1>6, <1>8 DEF Resolved

(* Removing a subtask from the list keeps another one last. *)
LEMMA OtherStaysLast ==
    ASSUME CallsInv, NEW s \in Sub, NEW y \in Sub \ {s}, subs' = Without(s, subs),
           subs # <<>>, Last(subs) = y
    PROVE  subs' # <<>> /\ Last(subs') = y
BY WithoutLast DEF CallsInv, CallTypes

(* The list stays one of subtasks. *)
LEMMA ResolveTypes ==
    ASSUME CallsInv, NEW s \in Sub, subs' = Without(s, subs)
    PROVE  subs' \in Seq(Sub)
BY WithoutType DEF CallsInv, CallTypes

(* An imported function that ends keeps the calls sound. *)
LEMMA ImportDoneKeeps ==
    ASSUME CallsInv, NEW s \in Sub, ImportDone(s)
    PROVE  CallsInv'
<1>1. /\ sub[s].driver = "callee" /\ sub[s].call \in {"async", "manual"}
      /\ Resolve(s) /\ ManualResult(s) /\ UNCHANGED sets
  BY DEF ImportDone
<1>2. Resolved(s)
  BY <1>1, ResolveOwn
<1>3. CallSound(s) /\ ToldSound(s) /\ told[s] \in Nat
  BY SubFields DEF CallsInv
<1>4. told[s] = 0 /\ (InCall(s) \/ sub[s].exposed) /\ sub[s].target = s
  BY <1>1, <1>2, <1>3 DEF CallSound, ToldSound, Resolved
<1>5. CASE sub[s].call = "manual"
  <2>1. guest' = Running /\ told' = [told EXCEPT ![s] = told[s] + 1]
    BY <1>1, <1>5 DEF ManualResult
  <2>2. told' \in [Sub -> Nat] /\ told'[s] = 1 /\ \A y \in Sub \ {s} : told'[y] = told[y]
    BY <2>1, <1>4 DEF CallsInv, CallTypes
  <2>3. InCall(s) /\ ~sub[s].exposed
    BY <1>3, <1>4, <1>5 DEF CallSound
  <2>4. (\A y \in Sub \ {s} : ~InCall(y)) /\ (\A y \in Sub : ~InCall(y)')
    BY <2>1, <2>3, InOneCall, RunningIsNotInCall DEF InCall
  <2>5. \A y \in Sub \ {s} : Untouched(y)
    BY <2>2, <2>4, <1>2 DEF Untouched, Resolved
  <2>6. CallSound(s)'
    BY <2>3, <2>4, <1>2, <1>4, <1>5 DEF CallSound, Resolved, Imports
  <2>7. ToldSound(s)'
    BY <2>2, <2>3, <1>2, <1>5 DEF ToldSound, Resolved, isAsync
  <2>8. CallTypes'
    <3>1. Running \in [at : {"run", "call", "wait", "woken"}, obj : Objects \cup {0}]
      BY DEF Running
    <3> QED BY <3>1, <2>1, <2>2, <1>1, <1>2, ResolveTypes DEF CallsInv, CallTypes, Resolved
  <2>9. WaitSound'
    BY <2>1 DEF WaitSound, Running
  <2>10. sub[s].exposed => sub'[s].exposed
    BY <1>2 DEF Resolved
  <2> QED BY <2>5, <2>6, <2>7, <2>8, <2>9, <2>10, <1>1, OneCall
<1>6. CASE sub[s].call = "async"
  <2>1. UNCHANGED <<guest, told>>
    BY <1>1, <1>6 DEF ManualResult
  <2>2. \A y \in Sub : InCall(y)' <=> InCall(y)
    BY <2>1 DEF InCall
  <2>3. \A y \in Sub \ {s} : Untouched(y)
    BY <2>1, <2>2, <1>2, OtherStaysLast DEF Untouched, Resolved
  <2>4. CallSound(s)'
    BY <2>1, <2>2, <1>2, <1>3, <1>4, <1>6 DEF CallSound, Resolved, Imports
  <2>5. ToldSound(s)'
    BY <2>1, <2>2, <1>2, <1>4, <1>6 DEF ToldSound, Resolved, isAsync, HasProgressFn
  <2>6. CallTypes' /\ WaitSound'
    BY <2>1, <1>1, <1>2, ResolveTypes DEF CallsInv, CallTypes, Resolved, WaitSound
  <2>7. sub[s].exposed => sub'[s].exposed
    BY <1>2 DEF Resolved
  <2> QED BY <2>3, <2>4, <2>5, <2>6, <2>7, <1>1, OneCall
<1> QED BY <1>1, <1>5, <1>6

(* A callee that returns keeps the calls sound. *)
LEMMA CalleeReturnsKeeps ==
    ASSUME CallsInv, NEW s \in Sub, CalleeReturns(s)
    PROVE  CallsInv'
<1>1. /\ sub[s].driver = "callee" /\ sub[s].call = "fused"
      /\ Resolve(s) /\ UNCHANGED <<sets, guest, told>>
  BY DEF CalleeReturns
<1>2. Resolved(s)
  BY <1>1, ResolveOwn
<1>3. CallSound(s) /\ ToldSound(s) /\ told[s] \in Nat
  BY SubFields DEF CallsInv
<1>4. told[s] = 0 /\ sub[s].exposed /\ sub[s].target = s /\ ~InCall(s)
  BY <1>1, <1>2, <1>3 DEF CallSound, ToldSound, Resolved
<1>5. \A y \in Sub : InCall(y)' <=> InCall(y)
  BY <1>1 DEF InCall
<1>6. \A y \in Sub \ {s} : Untouched(y)
  BY <1>1, <1>2, <1>5, OtherStaysLast DEF Untouched, Resolved
<1>7. CallSound(s)'
  BY <1>1, <1>2, <1>4, <1>5 DEF CallSound, Resolved, Imports
<1>8. ToldSound(s)'
  BY <1>1, <1>2, <1>4 DEF ToldSound, Resolved, isAsync, HasProgressFn
<1>9. CallTypes' /\ WaitSound'
  BY <1>1, <1>2, ResolveTypes DEF CallsInv, CallTypes, Resolved, WaitSound
<1>10. sub[s].exposed => sub'[s].exposed
  BY <1>2 DEF Resolved
<1> QED BY <1>1, <1>6, <1>7, <1>8, <1>9, <1>10, OneCall

(* The guest that runs is in no call. *)
LEMMA RunningType ==
    Running \in [at : {"run", "call", "wait", "woken"}, obj : Objects \cup {0}] /\ Running.at = "run"
BY DEF Running

(* The end of a symmetric synchronous call keeps the calls sound. *)
LEMMA ExitSymmetricKeeps ==
    ASSUME CallsInv, NEW s \in Sub, ExitSymmetric(s)
    PROVE  CallsInv'
<1> DEFINE x == [sub[s] EXCEPT !.state = "RETURNED", !.delivered = TRUE, !.driver = "done"]
<1>1. /\ InCall(s) /\ sub[s].call = "symmetric" /\ sub' = [sub EXCEPT ![s] = x]
      /\ subs' = Without(s, subs) /\ guest' = Running
      /\ told' = [told EXCEPT ![s] = told[s] + 1] /\ UNCHANGED sets
  BY DEF ExitSymmetric, InCall
<1>2. CallSound(s) /\ ToldSound(s) /\ sub[s] \in SubType
  BY SubFields DEF CallsInv
<1>3. told[s] = 0 /\ ~sub[s].exposed
  BY <1>1, <1>2 DEF CallSound
<1>4. /\ x \in SubType /\ x.call = "symmetric" /\ x.state = "RETURNED" /\ x.delivered
      /\ x.driver = "done" /\ x.exposed = sub[s].exposed
  BY <1>1, <1>2 DEF SubType, States, Drivers
<1> HIDE DEF x
<1>5. sub' \in [Sub -> SubType] /\ sub'[s] = x /\ \A y \in Sub \ {s} : sub'[y] = sub[y]
  BY <1>1, <1>4, SetSub DEF CallsInv
<1>6. told' \in [Sub -> Nat] /\ told'[s] = 1 /\ \A y \in Sub \ {s} : told'[y] = told[y]
  BY <1>1, <1>3 DEF CallsInv, CallTypes
<1>7. (\A y \in Sub \ {s} : ~InCall(y)) /\ (\A y \in Sub : ~InCall(y)')
  BY <1>1, InOneCall, RunningIsNotInCall DEF InCall
<1>8. \A y \in Sub \ {s} : Untouched(y)
  BY <1>5, <1>6, <1>7 DEF Untouched
<1>9. CallSound(s)' /\ ToldSound(s)'
  BY <1>3, <1>4, <1>5, <1>6, <1>7 DEF CallSound, ToldSound, Imports
<1>10. CallTypes' /\ WaitSound'
  BY <1>1, <1>5, <1>6, ResolveTypes, RunningType DEF CallsInv, CallTypes, WaitSound
<1>11. sub[s].exposed => sub'[s].exposed
  BY <1>3
<1> QED
  BY <1>1, <1>8, <1>9, <1>10, <1>11, OneCall

(* The timer that answers a call keeps the calls sound. *)
LEMMA CallTimerKeeps ==
    ASSUME CallsInv, NEW s \in Sub, CallTimer(s)
    PROVE  CallsInv'
<1> DEFINE ret == sub[s].state = "RETURNED"
           x == [sub[s] EXCEPT !.delivered = sub[s].delivered \/ ret, !.exposed = ~ret]
<1>1. /\ InCall(s) /\ sub[s].call = "async" /\ sub[s].driver # "queued"
      /\ sub' = [sub EXCEPT ![s] = x]
      /\ told' = [told EXCEPT ![s] = IF ret THEN told[s] + 1 ELSE told[s]]
      /\ guest' = Running /\ UNCHANGED <<subs, sets>>
  BY DEF CallTimer, InCall
<1>2. CallSound(s) /\ ToldSound(s) /\ sub[s] \in SubType
  BY SubFields DEF CallsInv
<1>3. told[s] = 0 /\ ~sub[s].exposed /\ ~sub[s].delivered
  BY <1>1, <1>2 DEF CallSound, ToldSound
<1>4. /\ x \in SubType /\ x.call = "async" /\ x.state = sub[s].state /\ (x.delivered <=> ret)
      /\ x.driver = sub[s].driver /\ (x.exposed <=> ~ret) /\ x.event = sub[s].event
      /\ x.target = sub[s].target
  BY <1>1, <1>2, <1>3 DEF SubType
<1> HIDE DEF x
<1>5. sub' \in [Sub -> SubType] /\ sub'[s] = x /\ \A y \in Sub \ {s} : sub'[y] = sub[y]
  BY <1>1, <1>4, SetSub DEF CallsInv
<1>6. /\ told' \in [Sub -> Nat] /\ told'[s] = (IF ret THEN 1 ELSE 0)
      /\ \A y \in Sub \ {s} : told'[y] = told[y]
  BY <1>1, <1>3 DEF CallsInv, CallTypes
<1>7. (\A y \in Sub \ {s} : ~InCall(y)) /\ (\A y \in Sub : ~InCall(y)')
  BY <1>1, InOneCall, RunningIsNotInCall DEF InCall
<1>8. \A y \in Sub \ {s} : Untouched(y)
  BY <1>5, <1>6, <1>7 DEF Untouched
<1>9. CallSound(s)'
  BY <1>1, <1>2, <1>4, <1>5, <1>7 DEF CallSound, Imports
<1>10. ToldSound(s)'
  BY <1>4, <1>5, <1>6, <1>7 DEF ToldSound
<1>11. CallTypes' /\ WaitSound'
  BY <1>1, <1>5, <1>6, RunningType DEF CallsInv, CallTypes, WaitSound
<1>12. sub[s].exposed => sub'[s].exposed
  BY <1>3
<1> QED
  BY <1>1, <1>8, <1>9, <1>10, <1>11, <1>12, OneCall

(* The calls that create a subtask. *)
LEMMA LowerImportKeeps ==
    ASSUME CallsInv, NEW s \in Sub, NEW call, LowerImport(s, call)
    PROVE  CallsInv'
<1>1. /\ call \in {"async", "syncOfAsync"} /\ CanCreate(s)
      /\ Created(s, call, "STARTED", "queued")
      /\ guest' = [at |-> "call", obj |-> s] /\ UNCHANGED <<sets, told>>
  BY DEF LowerImport
<1>2. call \in CallKinds /\ call \notin {"fused", "sync", "symmetric"}
  BY <1>1 DEF CallKinds
<1>3. "STARTED" \in States /\ "queued" \in Drivers
  BY DEF States, Drivers
<1>4. NewSub(s, call, "STARTED", "queued")
  BY <1>1, <1>2, <1>3, CreatedIsNew
<1> QED
  BY <1>1, <1>2, <1>4, NewCallSound

(* An import declared async by hand keeps the calls sound. *)
LEMMA ManualImportKeeps ==
    ASSUME CallsInv, NEW s \in Sub, LowerImportBackwardsCompat(s, "manual")
    PROVE  CallsInv'
<1>1. /\ CanCreate(s) /\ Created(s, "manual", "STARTED", "queued")
      /\ guest' = [at |-> "call", obj |-> s] /\ UNCHANGED <<sets, told>>
  BY DEF LowerImportBackwardsCompat
<1>2. "STARTED" \in States /\ "queued" \in Drivers /\ "manual" \in CallKinds
  BY DEF States, Drivers, CallKinds
<1>3. NewSub(s, "manual", "STARTED", "queued")
  BY <1>1, <1>2, CreatedIsNew
<1> QED
  BY <1>1, <1>2, <1>3, NewCallSound

(* The start of a fused call keeps the calls sound. *)
LEMMA StartCallKeeps ==
    ASSUME CallsInv, NEW s \in Sub, StartCall(s)
    PROVE  CallsInv'
<1>1. /\ CanCreate(s) /\ Created(s, "fused", "STARTING", "queued")
      /\ UNCHANGED <<sets, guest, told>>
  BY DEF StartCall
<1>2. "STARTING" \in States /\ "queued" \in Drivers /\ "fused" \in CallKinds
  BY DEF States, Drivers, CallKinds
<1>3. NewSub(s, "fused", "STARTING", "queued")
  BY <1>1, <1>2, CreatedIsNew
<1> QED
  BY <1>1, <1>2, <1>3, NewCallSound

(* The start of a symmetric synchronous call keeps the calls sound. *)
LEMMA EnterSymmetricKeeps ==
    ASSUME CallsInv, NEW s \in Sub, EnterSymmetric(s)
    PROVE  CallsInv'
<1>1. /\ CanCreate(s) /\ Created(s, "symmetric", "STARTED", "callee")
      /\ guest' = [at |-> "call", obj |-> s] /\ UNCHANGED <<sets, told>>
  BY DEF EnterSymmetric
<1>2. "STARTED" \in States /\ "callee" \in Drivers /\ "symmetric" \in CallKinds
  BY DEF States, Drivers, CallKinds
<1>3. NewSub(s, "symmetric", "STARTED", "callee")
  BY <1>1, <1>2, CreatedIsNew
<1> QED
  BY <1>1, <1>2, <1>3, NewCallSound

-----------------------------------------------------------------------------
(* The sets. *)

(* The fields of a waitable set have their types. *)
LEMMA SetFields ==
    ASSUME CallTypes, NEW w \in WSet
    PROVE  /\ sets[w] \in SetType /\ sets[w].made \in BOOLEAN
           /\ sets[w].members \in Seq(Sub) /\ sets[w].waiting \in Nat
<1>1. sets[w] \in SetType
  BY DEF CallTypes
<1> QED BY <1>1 DEF SetType

(* Replacing one set leaves the others. *)
LEMMA SetSet ==
    ASSUME CallTypes, NEW w \in WSet, NEW x \in SetType
    PROVE  LET f == [sets EXCEPT ![w] = x]
           IN  f \in [WSet -> SetType] /\ f[w] = x /\ \A v \in WSet \ {w} : f[v] = sets[v]
BY DEF CallTypes

(* A step that leaves every call as it is and no stranger in a set. *)
LEMMA CallsUntouched ==
    ASSUME CallsInv, UNCHANGED <<subs, sub, told>>, CallTypes', WaitSound',
           \A y \in Sub : InCall(y)' <=> InCall(y),
           \A w \in WSet : sets'[w].members = sets[w].members
    PROVE  CallsInv'
<1>1. \A y \in Sub : Untouched(y)
  BY DEF Untouched
<1>2. \A y \in Sub : CallSound(y)' /\ ToldSound(y)'
  BY <1>1, Unaffected DEF CallsInv
<1>3. MembersExposed'
  BY DEF CallsInv, MembersExposed
<1> QED BY <1>2, <1>3 DEF CallsInv

(* waitable-set.new keeps the calls sound. *)
LEMMA SetNewKeeps ==
    ASSUME CallsInv, NEW w \in WSet, WaitableSetNew(w)
    PROVE  CallsInv'
<1> DEFINE x == [sets[w] EXCEPT !.made = TRUE]
<1>1. sets' = [sets EXCEPT ![w] = x] /\ UNCHANGED <<subs, sub, guest, told>>
  BY DEF WaitableSetNew
<1>2. sets[w] \in SetType /\ CallTypes
  BY SetFields DEF CallsInv
<1>3. x \in SetType /\ x.members = sets[w].members /\ x.waiting = sets[w].waiting
  BY <1>2 DEF SetType
<1> HIDE DEF x
<1>4. sets' \in [WSet -> SetType] /\ sets'[w] = x /\ \A v \in WSet \ {w} : sets'[v] = sets[v]
  BY <1>1, <1>2, <1>3, SetSet
<1>5. \A v \in WSet : sets'[v].members = sets[v].members /\ sets'[v].waiting = sets[v].waiting
  BY <1>3, <1>4
<1>6. CallTypes' /\ \A y \in Sub : InCall(y)' <=> InCall(y)
  BY <1>1, <1>2, <1>4 DEF CallTypes, InCall
<1>7. WaitSound'
  BY <1>1, <1>5 DEF CallsInv, WaitSound
<1> QED BY <1>1, <1>5, <1>6, <1>7, CallsUntouched

(* Handles of the guest. *)
LEMMA SetWaitKeeps ==
    ASSUME CallsInv, NEW h \in Reps, WaitableSetWait(h)
    PROVE  CallsInv'
<1> DEFINE w == Get(tab, h)
           x == [sets[w] EXCEPT !.waiting = sets[w].waiting + 1]
<1>1. /\ w \in WSet /\ sets' = [sets EXCEPT ![w] = x] /\ UNCHANGED <<subs, sub, told>>
      /\ guest = Running /\ guest' = [at |-> "wait", obj |-> w]
  BY DEF WaitableSetWait, SetAt, incrementNumWaiting
<1> HIDE DEF w
<1>2. sets[w] \in SetType /\ sets[w].waiting \in Nat /\ CallTypes
  BY <1>1, SetFields DEF CallsInv
<1>3. x \in SetType /\ x.members = sets[w].members /\ x.waiting > 0
  BY <1>2 DEF SetType
<1> HIDE DEF x
<1>4. sets' \in [WSet -> SetType] /\ sets'[w] = x /\ \A v \in WSet \ {w} : sets'[v] = sets[v]
  BY <1>1, <1>2, <1>3, SetSet
<1>5. \A v \in WSet : sets'[v].members = sets[v].members
  BY <1>3, <1>4
<1>6. \A y \in Sub : InCall(y)' <=> InCall(y)
  BY <1>1, RunningIsNotInCall DEF InCall
<1>7. CallTypes'
  BY <1>1, <1>2, <1>4 DEF CallTypes, Objects
<1>8. WaitSound'
  BY <1>1, <1>3, <1>4 DEF WaitSound
<1> QED BY <1>1, <1>5, <1>6, <1>7, <1>8, CallsUntouched

(* Waking the task keeps the calls sound. *)
LEMMA TickKeeps ==
    ASSUME CallsInv, Tick
    PROVE  CallsInv'
<1>1. /\ guest.at = "wait" /\ guest' = [guest EXCEPT !.at = "woken"]
      /\ UNCHANGED <<subs, sub, sets, told>>
  BY DEF Tick
<1>2. guest \in [at : {"run", "call", "wait", "woken"}, obj : Objects \cup {0}]
  BY DEF CallsInv, CallTypes
<1>3. guest'.at = "woken" /\ guest'.obj = guest.obj
      /\ guest' \in [at : {"run", "call", "wait", "woken"}, obj : Objects \cup {0}]
  BY <1>1, <1>2
<1>4. \A y \in Sub : InCall(y)' <=> InCall(y)
  BY <1>1, <1>3, RunningIsNotInCall DEF InCall
<1>5. CallTypes' /\ WaitSound'
  BY <1>1, <1>3 DEF CallsInv, CallTypes, WaitSound
<1> QED BY <1>1, <1>4, <1>5, CallsUntouched

(* waitable-set.drop keeps the calls sound. *)
LEMMA SetDropKeeps ==
    ASSUME CallsInv, NEW h \in Reps, WaitableSetDrop(h)
    PROVE  CallsInv'
<1>1. UNCHANGED <<subs, sub, sets, guest, told>>
  BY DEF WaitableSetDrop
<1>2. \A y \in Sub : InCall(y)' <=> InCall(y)
  BY <1>1 DEF InCall
<1>3. CallTypes' /\ WaitSound'
  BY <1>1 DEF CallsInv, CallTypes, WaitSound
<1> QED BY <1>1, <1>2, <1>3, CallsUntouched

(* The first of some indices. *)
LEMMA LeastIndex ==
    ASSUME NEW T, T \subseteq Nat, T # {}
    PROVE  \E m \in T : \A k \in T : ~(k < m)
<1> DEFINE R == {ss \in Nat \X Nat : ss[1] < ss[2]}
<1>1. IsWellFoundedOn(R, Nat)
  BY NatLessThanWellFounded, Zenon DEF OpToRel
<1> HIDE DEF R
<1>2. PICK x \in T : \A y \in T : ~(<<y, x>> \in R)
  BY <1>1, WFMin, Zenon
<1>3. ASSUME NEW y \in T PROVE ~(y < x)
  <2>1. /\ <<y, x>> \notin R /\ <<y, x>> \in Nat \X Nat
        /\ <<y, x>>[1] = y /\ <<y, x>>[2] = x
    BY <1>2
  <2> QED BY <2>1, Zenon DEF R
<1> QED BY <1>3

(* getPendingEvent() finds a member that has one. *)
LEMMA FirstReadyIs ==
    ASSUME CallTypes, NEW w \in WSet, hasPendingEvent(w)
    PROVE  /\ FirstReady(w) \in Sub /\ sub[FirstReady(w)].event
           /\ \E i \in DOMAIN sets[w].members : FirstReady(w) = sets[w].members[i]
<1> DEFINE m == sets[w].members
           T == {i \in DOMAIN m : sub[m[i]].event}
           P(i) == sub[m[i]].event /\ \A j \in 1 .. i - 1 : ~sub[m[j]].event
           k == CHOOSE i \in DOMAIN m : P(i)
<1>1. m \in Seq(Sub)
  BY SetFields
<1>2. DOMAIN m = 1 .. Len(m) /\ Len(m) \in Nat
  BY <1>1
<1>3. T \subseteq Nat /\ T # {}
  BY <1>2 DEF hasPendingEvent
<1>4. PICK i \in T : \A j \in T : ~(j < i)
  BY <1>3, LeastIndex
<1>5. i \in DOMAIN m /\ P(i)
  <2> HIDE DEF m
  <2>1. ASSUME NEW j \in 1 .. i - 1 PROVE ~sub[m[j]].event
    <3>1. j \in DOMAIN m /\ j < i
      BY <1>2, <1>4
    <3> QED BY <3>1, <1>4
  <2> QED BY <2>1, <1>4
<1>6. k \in DOMAIN m /\ P(k)
  <2> HIDE DEF P
  <2> QED BY <1>5
<1>7. FirstReady(w) = m[k]
  BY DEF FirstReady
<1> HIDE DEF k
<1>8. m[k] \in Sub
  BY <1>1, <1>6
<1> QED BY <1>6, <1>7, <1>8

(* What is left when an event was taken. *)
Taken(s) ==
    /\ s \in Sub /\ sub[s].exposed /\ told[s] = 0
    /\ sub' \in [Sub -> SubType] /\ told' \in [Sub -> Nat]
    /\ \A y \in Sub \ {s} : sub'[y] = sub[y] /\ told'[y] = told[y]
    /\ sub'[s].call = sub[s].call /\ sub'[s].state = sub[s].state /\ ~sub'[s].event
    /\ (sub'[s].delivered <=> sub[s].state = "RETURNED")
    /\ told'[s] = (IF sub[s].state = "RETURNED" THEN 1 ELSE 0)
    /\ sub'[s].idx = sub[s].idx /\ sub'[s].set = sub[s].set /\ sub'[s].driver = sub[s].driver
    /\ sub'[s].target = sub[s].target /\ sub'[s].exposed = sub[s].exposed

(* getPendingEvent of a set takes the event of one subtask and tells it. *)
LEMMA TakeEventTakes ==
    ASSUME CallsInv, NEW w \in WSet, hasPendingEvent(w), TakeEvent(w)
    PROVE  Taken(FirstReady(w))
<1> DEFINE s == FirstReady(w)
           ret == sub[s].state = "RETURNED"
           x == [sub[s] EXCEPT !.event = FALSE, !.delivered = sub[s].delivered \/ ret]
<1>1. /\ sub' = [sub EXCEPT ![s] = x]
      /\ told' = [told EXCEPT ![s] = IF ret THEN told[s] + 1 ELSE told[s]]
  BY DEF TakeEvent
<1>2. s \in Sub /\ sub[s].event /\ \E i \in DOMAIN sets[w].members : s = sets[w].members[i]
  BY FirstReadyIs DEF CallsInv
<1> HIDE DEF s
<1>3. sub[s].exposed /\ ToldSound(s) /\ sub[s] \in SubType /\ told[s] \in Nat
  BY <1>2, SubFields DEF CallsInv, MembersExposed
<1>4. told[s] = 0 /\ ~sub[s].delivered
  BY <1>2, <1>3 DEF ToldSound
<1>5. /\ x \in SubType /\ x.call = sub[s].call /\ x.state = sub[s].state /\ ~x.event
      /\ (x.delivered <=> ret) /\ x.idx = sub[s].idx /\ x.set = sub[s].set
      /\ x.driver = sub[s].driver /\ x.target = sub[s].target /\ x.exposed = sub[s].exposed
  BY <1>3, <1>4 DEF SubType
<1> HIDE DEF x
<1>6. sub' \in [Sub -> SubType] /\ sub'[s] = x /\ \A y \in Sub \ {s} : sub'[y] = sub[y]
  BY <1>1, <1>2, <1>5, SetSub DEF CallsInv
<1>7. /\ told' \in [Sub -> Nat] /\ told'[s] = (IF ret THEN 1 ELSE 0)
      /\ \A y \in Sub \ {s} : told'[y] = told[y]
  BY <1>1, <1>2, <1>4 DEF CallsInv, CallTypes
<1>8. Taken(s)
  BY <1>2, <1>3, <1>4, <1>5, <1>6, <1>7 DEF Taken
<1> QED BY <1>8 DEF s

(* Calls and sets after that, for a guest that is in the same call. *)
LEMMA TakenSound ==
    ASSUME CallsInv, NEW s, Taken(s), UNCHANGED subs,
           \A y \in Sub : InCall(y)' <=> InCall(y),
           \A w \in WSet : sets'[w].members = sets[w].members
    PROVE  (\A y \in Sub : CallSound(y)' /\ ToldSound(y)') /\ MembersExposed'
<1>1. s \in Sub /\ CallSound(s) /\ ToldSound(s)
  BY DEF CallsInv, Taken
<1>2. \A y \in Sub \ {s} : Untouched(y)
  BY DEF Taken, Untouched
<1>3. \A y \in Sub \ {s} : CallSound(y)' /\ ToldSound(y)'
  BY <1>2, Unaffected DEF CallsInv
<1>4. sub[s].call # "none"
  BY <1>1 DEF CallSound, Taken, Free
<1>5. CallSound(s)'
  BY <1>1, <1>4 DEF CallSound, Taken, Imports
<1>6. ToldSound(s)'
  BY DEF ToldSound, Taken
<1>7. \A y \in Sub : sub[y].exposed => sub'[y].exposed
  BY DEF Taken
<1>8. MembersExposed'
  <2>1. \A w \in WSet : sets[w].members \in Seq(Sub)
    BY SetFields DEF CallsInv
  <2>2. \A w \in WSet : \A i \in DOMAIN sets[w].members : sets[w].members[i] \in Sub
    BY <2>1
  <2> QED BY <2>2, <1>7 DEF CallsInv, MembersExposed
<1> QED BY <1>3, <1>5, <1>6, <1>8

(* waitable-set.poll keeps the calls sound. *)
LEMMA SetPollKeeps ==
    ASSUME CallsInv, NEW h \in Reps, WaitableSetPoll(h)
    PROVE  CallsInv'
<1>1. /\ Get(tab, h) \in WSet /\ hasPendingEvent(Get(tab, h)) /\ TakeEvent(Get(tab, h))
      /\ UNCHANGED <<subs, sets, guest>>
  BY DEF WaitableSetPoll, SetAt
<1>2. PICK s : Taken(s)
  BY <1>1, TakeEventTakes
<1>3. (\A y \in Sub : CallSound(y)' /\ ToldSound(y)') /\ MembersExposed'
  <2>1. \A y \in Sub : InCall(y)' <=> InCall(y)
    BY <1>1 DEF InCall
  <2> QED BY <2>1, <1>1, <1>2, TakenSound
<1>4. CallTypes' /\ WaitSound'
  BY <1>1, <1>2 DEF CallsInv, CallTypes, WaitSound, Taken
<1> QED BY <1>3, <1>4 DEF CallsInv

(* The waiting task was counted, so the count stays a number. *)
LEMMA WaitReturnsKeeps ==
    ASSUME CallsInv, WaitReturns
    PROVE  CallsInv'
<1> DEFINE w == guest.obj
<1>1. guest.at = "woken" /\ guest' = Running /\ UNCHANGED subs
  BY DEF WaitReturns
<1>2. w \in WSet /\ sets[w].waiting > 0 /\ CallTypes
  BY <1>1 DEF CallsInv, WaitSound
<1>3. \A y \in Sub : InCall(y)' <=> InCall(y)
  BY <1>1, RunningIsNotInCall DEF InCall
<1>4. WaitSound'
  BY <1>1, RunningType DEF WaitSound
<1>5. CASE hasPendingEvent(w)
  <2> DEFINE x == [sets[w] EXCEPT !.waiting = sets[w].waiting - 1]
  <2>1. TakeEvent(w) /\ sets' = [sets EXCEPT ![w] = x]
    BY <1>5 DEF WaitReturns
  <2> HIDE DEF w
  <2>2. sets[w] \in SetType /\ sets[w].waiting - 1 \in Nat
    BY <1>2, SetFields
  <2>3. x \in SetType /\ x.members = sets[w].members
    BY <2>2 DEF SetType
  <2> HIDE DEF x
  <2>4. sets' \in [WSet -> SetType] /\ sets'[w] = x /\ \A v \in WSet \ {w} : sets'[v] = sets[v]
    BY <2>1, <2>3, <1>2, SetSet
  <2>5. \A v \in WSet : sets'[v].members = sets[v].members
    BY <2>3, <2>4
  <2>6. PICK s : Taken(s)
    BY <2>1, <1>2, <1>5, TakeEventTakes
  <2>7. (\A y \in Sub : CallSound(y)' /\ ToldSound(y)') /\ MembersExposed'
    BY <2>5, <2>6, <1>1, <1>3, TakenSound
  <2>8. CallTypes'
    BY <2>4, <2>6, <1>1, <1>2, RunningType DEF CallTypes, Taken
  <2> QED BY <2>7, <2>8, <1>4 DEF CallsInv
<1>6. CASE ~hasPendingEvent(w)
  <2>1. UNCHANGED <<sub, sets, told>>
    BY <1>6 DEF WaitReturns
  <2>2. CallTypes'
    BY <2>1, <1>1, <1>2, RunningType DEF CallTypes
  <2> QED BY <2>1, <2>2, <1>1, <1>3, <1>4, CallsUntouched
<1> QED BY <1>5, <1>6

(* join() changes members only. *)
LEMMA JoinFacts ==
    ASSUME CallTypes, NEW s \in Sub, NEW w, NEW v \in WSet
    PROVE  LET m == sets[v].members
           IN  /\ Join(s, w)[v] \in SetType
               /\ Join(s, w)[v].made = sets[v].made /\ Join(s, w)[v].waiting = sets[v].waiting
               /\ Join(s, w)[v].members =
                     IF v = w THEN Append(Without(s, m), s)
                     ELSE IF v = sub[s].set THEN Without(s, m) ELSE m
<1> DEFINE m == sets[v].members
           a == Append(Without(s, m), s)
           b == Without(s, m)
<1>1. sets[v] \in SetType /\ m \in Seq(Sub)
  BY SetFields
<1>2. b \in Seq(Sub)
  BY <1>1, WithoutType
<1>3. a \in Seq(Sub)
  BY <1>2
<1>4. Join(s, w)[v] = CASE v = w -> [sets[v] EXCEPT !.members = a]
                        [] v = sub[s].set /\ v # w -> [sets[v] EXCEPT !.members = b]
                        [] OTHER -> sets[v]
  BY DEF Join
<1> HIDE DEF a, b
<1>5. CASE v = w
  <2>1. Join(s, w)[v] = [sets[v] EXCEPT !.members = a]
    BY <1>4, <1>5
  <2> QED BY <2>1, <1>1, <1>3, <1>5 DEF SetType, a
<1>6. CASE v # w /\ v = sub[s].set
  <2>1. Join(s, w)[v] = [sets[v] EXCEPT !.members = b]
    BY <1>4, <1>6
  <2> QED BY <2>1, <1>1, <1>2, <1>6 DEF SetType, b
<1>7. CASE v # w /\ v # sub[s].set
  <2>1. Join(s, w)[v] = sets[v]
    BY <1>4, <1>7
  <2> QED BY <2>1, <1>1, <1>7
<1> QED BY <1>5, <1>6, <1>7

(* Joining gives sets of subtasks. *)
LEMMA JoinType ==
    ASSUME CallTypes, NEW s \in Sub, NEW w
    PROVE  Join(s, w) \in [WSet -> SetType]
<1>1. Join(s, w) = [v \in WSet |-> Join(s, w)[v]]
  BY DEF Join
<1> QED BY <1>1, JoinFacts

(* Joining adds no member but the one that joins. *)
LEMMA JoinMembers ==
    ASSUME CallTypes, NEW s \in Sub, NEW w, NEW v \in WSet,
           NEW i \in DOMAIN Join(s, w)[v].members
    PROVE  \/ Join(s, w)[v].members[i] = s
           \/ \E j \in DOMAIN sets[v].members : Join(s, w)[v].members[i] = sets[v].members[j]
<1> DEFINE m == sets[v].members
           b == Without(s, m)
           n == Join(s, w)[v].members
<1>1. m \in Seq(Sub)
  BY SetFields
<1>2. b \in Seq(Sub) /\ \A j \in DOMAIN b : \E k \in DOMAIN m : b[j] = m[k]
  BY <1>1, WithoutType
<1>3. n = IF v = w THEN Append(b, s) ELSE IF v = sub[s].set THEN b ELSE m
  BY JoinFacts
<1> HIDE DEF b, m, n
<1>4. CASE v = w
  <2>1. n = Append(b, s) /\ i \in DOMAIN n
    BY <1>3, <1>4 DEF n
  <2>2. i \in DOMAIN b \/ n[i] = s
    BY <2>1, <1>2
  <2>3. i \in DOMAIN b => n[i] = b[i]
    BY <2>1, <1>2
  <2> QED BY <2>2, <2>3, <1>2 DEF n, m
<1>5. CASE v # w
  BY <1>2, <1>3, <1>5 DEF n, m
<1> QED BY <1>4, <1>5

(* A guest moves a subtask it has the handle of. *)
LEMMA JoinKeeps ==
    ASSUME CallsInv, NEW s \in Sub, sub[s].exposed, NEW w \in WSet \cup {0},
           sets' = Join(s, w), sub' = [sub EXCEPT ![s].set = w], UNCHANGED <<subs, guest, told>>
    PROVE  CallsInv'
<1> DEFINE x == [sub[s] EXCEPT !.set = w]
<1>1. sub' = [sub EXCEPT ![s] = x] /\ CallTypes
  BY DEF CallsInv
<1>2. CallSound(s) /\ ToldSound(s) /\ sub[s] \in SubType
  BY SubFields DEF CallsInv
<1>3. /\ x \in SubType /\ x.call = sub[s].call /\ x.state = sub[s].state
      /\ x.delivered = sub[s].delivered /\ x.event = sub[s].event /\ x.exposed = sub[s].exposed
      /\ x.driver = sub[s].driver /\ x.target = sub[s].target
  BY <1>2 DEF SubType
<1> HIDE DEF x
<1>4. sub' \in [Sub -> SubType] /\ sub'[s] = x /\ \A y \in Sub \ {s} : sub'[y] = sub[y]
  BY <1>1, <1>3, SetSub
<1>5. \A y \in Sub : InCall(y)' <=> InCall(y)
  BY DEF InCall
<1>6. \A y \in Sub \ {s} : Untouched(y)
  BY <1>4, <1>5 DEF Untouched
<1>7. \A y \in Sub \ {s} : CallSound(y)' /\ ToldSound(y)'
  BY <1>6, Unaffected DEF CallsInv
<1>8. CallSound(s)'
  <2>1. sub[s].call # "none"
    BY <1>2 DEF CallSound, Free
  <2> QED BY <2>1, <1>2, <1>3, <1>4, <1>5 DEF CallSound, Imports
<1>9. ToldSound(s)'
  BY <1>2, <1>3, <1>4, <1>5 DEF ToldSound
<1>10. CallTypes'
  BY <1>1, <1>4, JoinType DEF CallTypes
<1>11. WaitSound'
  <2>1. \A v \in WSet : sets'[v].waiting = sets[v].waiting
    BY <1>1, JoinFacts
  <2> QED BY <2>1 DEF CallsInv, WaitSound
<1>12. MembersExposed'
  <2>1. \A y \in Sub : sub'[y].exposed = sub[y].exposed
    BY <1>3, <1>4
  <2>2. ASSUME NEW v \in WSet, NEW i \in DOMAIN sets'[v].members
        PROVE  sub'[sets'[v].members[i]].exposed
    <3> DEFINE y == sets'[v].members[i]
    <3>1. y = s \/ \E j \in DOMAIN sets[v].members : y = sets[v].members[j]
      BY <2>2, <1>1, JoinMembers
    <3>2. y \in Sub /\ sub[y].exposed
      <4>1. sets[v].members \in Seq(Sub)
        BY <1>1, SetFields
      <4>2. \A j \in DOMAIN sets[v].members : sets[v].members[j] \in Sub
        BY <4>1
      <4> HIDE DEF y
      <4> QED BY <4>2, <3>1 DEF CallsInv, MembersExposed
    <3> QED BY <3>2, <2>1
  <2> QED BY <2>2 DEF MembersExposed
<1> QED
  BY <1>7, <1>8, <1>9, <1>10, <1>11, <1>12 DEF CallsInv

(* waitable.join keeps the calls sound. *)
LEMMA WaitableJoinKeeps ==
    ASSUME CallsInv, NEW h \in Reps, NEW hs \in 0 .. MaxRep, WaitableJoin(h, hs)
    PROVE  CallsInv'
<1> DEFINE s == Get(tab, h)
           w == IF hs = 0 THEN 0 ELSE Get(tab, hs)
<1>1. /\ s \in Sub /\ sub[s].exposed /\ w \in WSet \cup {0}
      /\ sets' = Join(s, w) /\ sub' = [sub EXCEPT ![s].set = w] /\ UNCHANGED <<subs, guest, told>>
  BY DEF WaitableJoin, SubAt, SetAt
<1> HIDE DEF s, w
<1> QED BY <1>1, JoinKeeps

(* subtask.drop keeps the calls sound. *)
LEMMA SubtaskDropKeeps ==
    ASSUME CallsInv, NEW h \in Reps, SubtaskDrop(h)
    PROVE  CallsInv'
<1> DEFINE s == Get(tab, h)
           dropped == sub[s].delivered /\ ~sub[s].event
<1>1. /\ s \in Sub /\ sub[s].exposed /\ UNCHANGED <<subs, guest, told>>
      /\ sets' = IF dropped THEN Join(s, 0) ELSE sets
      /\ sub' = IF dropped THEN [sub EXCEPT ![s].set = 0] ELSE sub
  BY DEF SubtaskDrop, SubAt
<1> HIDE DEF s
<1>2. CASE dropped
  BY <1>1, <1>2, JoinKeeps
<1>3. CASE ~dropped
  <2>1. UNCHANGED <<sub, sets>>
    BY <1>1, <1>3
  <2>2. CallTypes' /\ WaitSound' /\ \A y \in Sub : InCall(y)' <=> InCall(y)
    BY <2>1, <1>1 DEF CallsInv, CallTypes, WaitSound, InCall
  <2> QED BY <2>1, <2>2, <1>1, CallsUntouched
<1> QED BY <1>2, <1>3

-----------------------------------------------------------------------------
(* A task that has made no call is sound. *)
LEMMA CallsInit == Init => CallsInv
<1> SUFFICES ASSUME Init PROVE CallsInv
  OBVIOUS
<1> USE DEF Init
<1>1. Free \in SubType /\ Free.call = "none" /\ ~Free.exposed /\ Free.driver = "none"
      /\ ~Free.delivered /\ Free.state = "none"
  <2>1. 0 \in 0 .. MaxRep
    BY MaxRepAssumption
  <2> QED BY <2>1 DEF Free, SubType, States, Drivers
<1>2. \A y \in Sub : sub[y] = Free /\ told[y] = 0 /\ ~InCall(y)
  BY RunningIsNotInCall DEF InCall
<1>3. /\ \A w \in WSet : sets[w].members = <<>>
      /\ [made |-> FALSE, members |-> <<>>, waiting |-> 0] \in SetType
  BY DEF SetType
<1>4. CallTypes
  BY <1>1, <1>3, RunningType DEF CallTypes
<1>5. \A y \in Sub : CallSound(y) /\ ToldSound(y)
  BY <1>1, <1>2 DEF CallSound, ToldSound, Imports
<1>6. MembersExposed /\ WaitSound
  BY <1>3, RunningType DEF MembersExposed, WaitSound
<1> QED BY <1>4, <1>5, <1>6 DEF CallsInv

(* Every step keeps the calls sound. *)
LEMMA CallsStep == CallsInv /\ [Next]_vars => CallsInv'
<1> SUFFICES ASSUME CallsInv, [Next]_vars PROVE CallsInv'
  OBVIOUS
<1>1. CASE UNCHANGED vars
  <2>1. UNCHANGED <<subs, sub, sets, guest, told>>
    BY <1>1 DEF vars
  <2>2. CallTypes' /\ WaitSound' /\ \A y \in Sub : InCall(y)' <=> InCall(y)
    BY <2>1 DEF CallsInv, CallTypes, WaitSound, InCall
  <2> QED BY <2>1, <2>2, CallsUntouched
<1>2. CASE GuestStep
  <2>1. ASSUME NEW s \in Sub, NEW c \in Calls,
               LowerImport(s, c) \/ LowerImportBackwardsCompat(s, c)
        PROVE  CallsInv'
    <3>1. LowerImportBackwardsCompat(s, c) => c = "sync" \/ c = "manual"
      BY DEF LowerImportBackwardsCompat
    <3> QED BY <2>1, <3>1, LowerImportKeeps, SyncImportKeeps, ManualImportKeeps
  <2> QED
    BY <1>2, <2>1, StartCallKeeps, EnterSymmetricKeeps, SetNewKeeps, WaitableJoinKeeps,
       SetPollKeeps, SetWaitKeeps, SetDropKeeps, SubtaskDropKeeps DEF GuestStep
<1>3. ASSUME NEW s \in Sub, LoopStep(s) PROVE CallsInv'
  BY <1>3, RunImportKeeps, StartTimerKeeps, ImportDoneKeeps, CalleeReturnsKeeps,
     ExitSymmetricKeeps, CallTimerKeeps DEF LoopStep
<1> QED
  BY <1>1, <1>2, <1>3, TrapKeeps, TickKeeps, WaitReturnsKeeps DEF Next

(* The calls of a guest are where their code left them, in every reachable   *)
(* state.                                                                    *)
THEOREM CallsInvariant == Spec => []CallsInv
BY CallsInit, CallsStep, PTL DEF Spec

(* The microtask of an imported function, which takes the latest subtask of  *)
(* the task when it runs, finds the subtask of its own call, whatever other  *)
(* calls the task and its callees have made.                                 *)
THEOREM ImportsResolveThemselves == Spec => []ImportResolvesItself
<1>1. CallsInv => ImportResolvesItself
  BY DEF CallsInv, CallSound, ImportResolvesItself
<1> QED BY <1>1, CallsInvariant, PTL

(* No interleaving of the timer, the microtask, the resolution and the       *)
(* taking of events loses the news that a call returned or tells it twice.   *)
THEOREM ResolutionsToldOnce == Spec => []ResolutionToldOnce
<1>1. CallsInv => ResolutionToldOnce
  <2> SUFFICES ASSUME CallsInv, NEW s \in Sub
               PROVE  /\ told[s] <= 1
                      /\ sub[s].state = "RETURNED" /\ told[s] = 0 =>
                            sub[s].event \/ guest = [at |-> "call", obj |-> s]
                      /\ told[s] = 1 => sub[s].delivered
    BY DEF ResolutionToldOnce
  <2>1. ToldSound(s)
    BY DEF CallsInv
  <2> QED BY <2>1 DEF ToldSound, InCall
<1> QED BY <1>1, CallsInvariant, PTL

-----------------------------------------------------------------------------
(* The handles. *)

(* Subtasks, sets and reps are told apart. *)
LEMMA ObjectsApart ==
    /\ Apart(Objects) /\ \A s \in Sub : s \in Objects /\ s \notin WSet
    /\ \A w \in WSet : w \in Objects /\ w \notin Sub /\ w # 0
<1>1. 0 \in 0 .. MaxRep
  BY MaxRepAssumption
<1> QED BY <1>1, ObjectsAssumption DEF Apart, Objects

(* What insert() and remove() leave of the table. *)
Inserted(x) ==
    /\ NextRep(tab) \in Reps /\ tab.slot[NextRep(tab)] \notin Objects
    /\ tab'.slot[NextRep(tab)] = x
    /\ \A r \in Reps \ {NextRep(tab)} : tab'.slot[r] = tab.slot[r]

Removed(q) ==
    /\ q \in Reps /\ tab.slot[q] \in Objects /\ tab'.slot[q] \notin Objects
    /\ \A r \in Reps \ {q} : tab'.slot[r] = tab.slot[r]

SameSlots(x) == \A r \in Reps : tab'.slot[r] = x <=> tab.slot[r] = x

(* insert() keeps the table sound and adds one object. *)
LEMMA InsertInserts ==
    ASSUME HandlesInv, HasRoom(tab), NEW x \in Objects, tab' = Insert(tab, x)
    PROVE  Sound(tab, Objects)' /\ Inserted(x)
<1>1. Apart(Objects) /\ Sound(tab, Objects)
  BY ObjectsApart DEF HandlesInv
<1> QED
  BY <1>1, NextIsFree, InsertKeeps DEF Inserted

(* remove() of a rep in use keeps the table sound and takes one object. *)
LEMMA RemoveRemoves ==
    ASSUME HandlesInv, NEW r \in Reps, tab.slot[r] \in Objects, tab' = RemoveRep(tab, r)
    PROVE  Sound(tab, Objects)' /\ Removed(r)
<1>1. Apart(Objects) /\ Sound(tab, Objects)
  BY ObjectsApart DEF HandlesInv
<1> QED
  BY <1>1, RemoveKeeps DEF Removed

(* insert() and remove() leave the reps of other objects. *)
LEMMA OthersStay ==
    /\ \A x, y \in Objects : Inserted(x) /\ x # y => SameSlots(y)
    /\ \A r \in Reps, y \in Objects : Removed(r) /\ tab.slot[r] # y => SameSlots(y)
    /\ \A y \in Objects : UNCHANGED tab => SameSlots(y)
BY DEF Inserted, Removed, SameSlots

(* The list. *)
LEMMA ListStays ==
    ASSUME HandlesInv, UNCHANGED subs, \A s \in Sub : Live(s)' <=> Live(s)
    PROVE  ListSound'
BY DEF HandlesInv, ListSound

(* A subtask that starts joins the task's list. *)
LEMMA ListGrows ==
    ASSUME CallsInv, HandlesInv, NEW s \in Sub, subs' = Append(subs, s), ~Live(s), Live(s)',
           \A y \in Sub \ {s} : Live(y)' <=> Live(y)
    PROVE  ListSound'
<1>1. subs \in Seq(Sub) /\ ListSound
  BY DEF CallsInv, CallTypes, HandlesInv
<1>2. s \notin Range(subs)
  BY <1>1 DEF ListSound
<1>3. /\ DOMAIN subs' = 1 .. Len(subs) + 1 /\ subs'[Len(subs) + 1] = s
      /\ \A i \in 1 .. Len(subs) : subs'[i] = subs[i]
      /\ DOMAIN subs = 1 .. Len(subs) /\ Len(subs) \in Nat
  BY <1>1
<1>4. \A i \in 1 .. Len(subs) : subs[i] # s
  BY <1>2, <1>3 DEF Range
<1>5. \A i \in 1 .. Len(subs) + 1 : i \in 1 .. Len(subs) \/ i = Len(subs) + 1
  BY <1>3
<1>6. IsInjective(subs')
  <2>1. \A i, j \in DOMAIN subs : subs[i] = subs[j] => i = j
    BY <1>1 DEF ListSound, IsInjective
  <2> QED BY <2>1, <1>3, <1>4, <1>5 DEF IsInjective
<1>7. Range(subs') = Range(subs) \cup {s}
  <2>1. \A i \in 1 .. Len(subs) : i \in DOMAIN subs'
    BY <1>3
  <2>2. Len(subs) + 1 \in DOMAIN subs'
    BY <1>3
  <2> QED BY <2>1, <2>2, <1>3, <1>5 DEF Range
<1> QED BY <1>1, <1>6, <1>7 DEF ListSound

(* A subtask that is resolved leaves it. *)
LEMMA ListShrinks ==
    ASSUME CallsInv, HandlesInv, NEW s \in Sub, subs' = Without(s, subs), ~Live(s)',
           \A y \in Sub \ {s} : Live(y)' <=> Live(y)
    PROVE  ListSound'
<1>1. subs \in Seq(Sub) /\ ListSound
  BY DEF CallsInv, CallTypes, HandlesInv
<1>2. IsInjective(subs') /\ Range(subs') = Range(subs) \ {s}
  BY <1>1, WithoutOthers DEF ListSound
<1> QED BY <1>1, <1>2 DEF ListSound

(* The reps. *)
LEMMA RepsStay ==
    ASSUME HandlesInv, \A x \in Objects, r \in Reps : tab'.slot[r] = x => tab.slot[r] = x,
           \A s \in Sub : sub[s].state # "none" => sub'[s].state # "none" /\ sub'[s].idx = sub[s].idx,
           \A w \in WSet : sets[w].made => sets'[w].made
    PROVE  RepsSound'
<1>1. \A s \in Sub, r \in Reps : tab'.slot[r] = s => tab.slot[r] = s
  BY ObjectsApart
<1>2. \A w \in WSet, r \in Reps : tab'.slot[r] = w => tab.slot[r] = w
  BY ObjectsApart
<1> QED BY <1>1, <1>2 DEF HandlesInv, RepsSound

(* remove() puts no object anywhere. *)
LEMMA RemovedStay ==
    ASSUME NEW q, Removed(q)
    PROVE  \A x \in Objects, r \in Reps : tab'.slot[r] = x => tab.slot[r] = x
BY DEF Removed

(* The rep of a new subtask is its only one. *)
LEMMA RepsAfterSub ==
    ASSUME HandlesInv, NEW s \in Sub, Inserted(s), sub[s].state = "none",
           sub'[s].state # "none", sub'[s].idx = NextRep(tab),
           \A y \in Sub \ {s} : sub'[y] = sub[y], UNCHANGED sets
    PROVE  RepsSound'
<1>1. RepsSound
  BY DEF HandlesInv
<1>2. \A w \in WSet : SameSlots(w)
  BY OthersStay, ObjectsApart
<1>3. \A y \in Sub \ {s} : SameSlots(y)
  BY OthersStay, ObjectsApart
<1>4. \A r \in Reps : tab'.slot[r] = s => r = NextRep(tab)
  BY <1>1 DEF RepsSound, Inserted
<1> QED BY <1>1, <1>2, <1>3, <1>4 DEF RepsSound, SameSlots

(* The rep of a new set is its only one. *)
LEMMA RepsAfterSet ==
    ASSUME HandlesInv, NEW w \in WSet, Inserted(w), ~sets[w].made, sets'[w].made,
           \A v \in WSet \ {w} : sets'[v] = sets[v], UNCHANGED sub
    PROVE  RepsSound'
<1>1. RepsSound
  BY DEF HandlesInv
<1>2. \A y \in Sub : SameSlots(y)
  BY OthersStay, ObjectsApart
<1>3. \A v \in WSet \ {w} : SameSlots(v)
  BY OthersStay, ObjectsApart
<1>4. \A r \in Reps : tab'.slot[r] = w => r = NextRep(tab)
  BY <1>1 DEF RepsSound, Inserted
<1> QED BY <1>1, <1>2, <1>3, <1>4 DEF RepsSound, SameSlots

(* What a step leaves alone. *)
StaysThere(y) ==
    /\ (Live(y)' <=> Live(y)) /\ (sub'[y].state = "RETURNED" <=> sub[y].state = "RETURNED")
    /\ sub'[y].idx = sub[y].idx /\ sub'[y].set = sub[y].set
    /\ (sub'[y].exposed <=> sub[y].exposed) /\ (InCall(y)' <=> InCall(y))
    /\ SameSlots(y)

(* A subtask whose rep and state stay keeps its handle sound. *)
LEMMA HandleStays ==
    ASSUME NEW y \in Sub, HandleSound(y), StaysThere(y)
    PROVE  HandleSound(y)'
BY DEF HandleSound, StaysThere, SameSlots

SetStays(w) ==
    /\ sets'[w].members = sets[w].members
    /\ \A s \in Sub : sub'[s].set = w <=> sub[s].set = w
    /\ SameSlots(w) /\ (WaitsOn(w)' => WaitsOn(w) \/ HasHandle(w))

(* A set whose members and rep stay is still sound. *)
LEMMA SetStaysSound ==
    ASSUME NEW w \in WSet, SetSound(w), SetStays(w)
    PROVE  SetSound(w)'
<1>1. HasHandle(w)' <=> HasHandle(w)
  BY DEF HasHandle, SetStays, SameSlots
<1> QED BY <1>1 DEF SetSound, SetStays

(* A step about one subtask keeps the handles sound. *)
LEMMA OneHandle ==
    ASSUME HandlesInv, Sound(tab, Objects)', ListSound', RepsSound', NEW s \in Sub,
           \A y \in Sub \ {s} : StaysThere(y), HandleSound(s)', \A w \in WSet : SetStays(w)
    PROVE  HandlesInv'
<1>1. \A y \in Sub \ {s} : HandleSound(y)'
  BY HandleStays DEF HandlesInv
<1>2. \A w \in WSet : SetSound(w)'
  BY SetStaysSound DEF HandlesInv
<1> QED BY <1>1, <1>2 DEF HandlesInv

(* A step that leaves the table and the list keeps the handles sound. *)
LEMMA NoHandle ==
    ASSUME HandlesInv, UNCHANGED <<tab, subs>>, \A y \in Sub : StaysThere(y),
           \A s \in Sub : sub[s].state # "none" => sub'[s].state # "none",
           \A w \in WSet : SetStays(w) /\ sets'[w].made = sets[w].made
    PROVE  HandlesInv'
<1>1. \A y \in Sub : HandleSound(y)'
  BY HandleStays DEF HandlesInv
<1>2. \A w \in WSet : SetSound(w)'
  BY SetStaysSound DEF HandlesInv
<1>3. ListSound'
  BY ListStays DEF StaysThere
<1>4. RepsSound'
  BY RepsStay DEF StaysThere
<1>5. Sound(tab, Objects)'
  BY DEF HandlesInv
<1> QED BY <1>1, <1>2, <1>3, <1>4, <1>5 DEF HandlesInv

(* A call moves on without a handle or a set being touched. *)
LEMMA CallMoves ==
    ASSUME CallsInv, HandlesInv, NEW s \in Sub, NEW x \in SubType, sub' = [sub EXCEPT ![s] = x],
           UNCHANGED <<tab, subs, sets, guest>>,
           x.idx = sub[s].idx, x.set = sub[s].set, x.exposed = sub[s].exposed,
           x.state = sub[s].state \/ (Live(s) /\ x.state \in {"STARTING", "STARTED"})
    PROVE  HandlesInv'
<1>1. sub'[s] = x /\ \A y \in Sub \ {s} : sub'[y] = sub[y]
  BY SetSub DEF CallsInv
<1>2. \A y \in Sub : SameSlots(y)
  BY DEF SameSlots
<1>3. ASSUME NEW y \in Sub PROVE StaysThere(y)
  <2>1. InCall(y)' <=> InCall(y)
    BY DEF InCall
  <2> QED BY <2>1, <1>1, <1>2 DEF StaysThere, Live
<1>4. \A y \in Sub : sub[y].state # "none" => sub'[y].state # "none"
  BY <1>1
<1>5. \A w \in WSet : SetStays(w) /\ sets'[w].made = sets[w].made
  BY <1>1 DEF SetStays, SameSlots, WaitsOn
<1> QED BY <1>3, <1>4, <1>5, NoHandle

(* The microtask of an import keeps the handles sound. *)
LEMMA RunImportHandles ==
    ASSUME CallsInv, HandlesInv, NEW s \in Sub, RunImport(s)
    PROVE  HandlesInv'
<1> DEFINE x == IF IsCalled(sub[s].call)
                THEN [sub[s] EXCEPT !.driver = "callee", !.target = getLatestSubtask]
                ELSE [sub[s] EXCEPT !.driver = "failed"]
<1>1. /\ sub' = [sub EXCEPT ![s] = x] /\ UNCHANGED <<tab, subs, sets, guest, told>>
      /\ sub[s].driver = "queued" /\ sub[s].call \in Imports
  BY DEF RunImport, Imports
<1>2. sub[s] \in SubType /\ getLatestSubtask = s
  BY <1>1, SubFields DEF CallsInv, CallSound, getLatestSubtask
<1>3. /\ x \in SubType /\ x.state = sub[s].state
      /\ x.idx = sub[s].idx /\ x.set = sub[s].set /\ x.exposed = sub[s].exposed
  BY <1>2 DEF SubType, Drivers
<1> HIDE DEF x
<1> QED BY <1>1, <1>3, CallMoves

(* The timer that starts a fused call keeps the handles sound. *)
LEMMA StartTimerHandles ==
    ASSUME CallsInv, HandlesInv, NEW s \in Sub, StartTimer(s)
    PROVE  HandlesInv'
<1> DEFINE x == [sub[s] EXCEPT !.driver = "callee", !.target = s,
                               !.event = TRUE, !.state = "STARTED"]
<1>1. /\ sub' = [sub EXCEPT ![s] = x] /\ UNCHANGED <<tab, subs, sets, guest, told>>
      /\ sub[s].driver = "queued"
  BY DEF StartTimer
<1>2. sub[s] \in SubType /\ Live(s)
  BY <1>1, SubFields DEF CallsInv, CallSound, Live
<1>3. /\ x \in SubType /\ x.state = "STARTED"
      /\ x.idx = sub[s].idx /\ x.set = sub[s].set /\ x.exposed = sub[s].exposed
  BY <1>2 DEF SubType, Drivers, States
<1> HIDE DEF x
<1> QED BY <1>1, <1>2, <1>3, CallMoves

(* A callee that traps keeps the handles sound. *)
LEMMA TrapHandles ==
    ASSUME CallsInv, HandlesInv, NEW s \in Sub, CalleeTraps(s)
    PROVE  HandlesInv'
<1> DEFINE x == [sub[s] EXCEPT !.driver = "failed"]
<1>1. sub' = [sub EXCEPT ![s] = x] /\ UNCHANGED <<tab, subs, sets, guest, told>>
  BY DEF CalleeTraps
<1>2. sub[s] \in SubType
  BY SubFields DEF CallsInv
<1>3. /\ x \in SubType /\ x.state = sub[s].state
      /\ x.idx = sub[s].idx /\ x.set = sub[s].set /\ x.exposed = sub[s].exposed
  BY <1>2 DEF SubType, Drivers
<1> HIDE DEF x
<1> QED BY <1>1, <1>3, CallMoves

(* waitable-set.poll keeps the handles sound. *)
LEMMA SetPollHandles ==
    ASSUME CallsInv, HandlesInv, NEW h \in Reps, WaitableSetPoll(h)
    PROVE  HandlesInv'
<1>1. /\ Get(tab, h) \in WSet /\ hasPendingEvent(Get(tab, h)) /\ TakeEvent(Get(tab, h))
      /\ UNCHANGED <<tab, subs, sets, guest>>
  BY DEF WaitableSetPoll, SetAt
<1>2. PICK s : Taken(s)
  BY <1>1, TakeEventTakes
<1>3. \A y \in Sub : StaysThere(y) /\ (sub[y].state # "none" => sub'[y].state # "none")
  BY <1>1, <1>2 DEF StaysThere, SameSlots, InCall, Live, Taken
<1>4. \A w \in WSet : SetStays(w) /\ sets'[w].made = sets[w].made
  BY <1>1, <1>2 DEF SetStays, SameSlots, WaitsOn, Taken
<1> QED BY <1>1, <1>3, <1>4, NoHandle

(* The return of waitable-set.wait keeps the handles sound. *)
LEMMA WaitReturnsHandles ==
    ASSUME CallsInv, HandlesInv, WaitReturns
    PROVE  HandlesInv'
<1> DEFINE w == guest.obj
<1>1. guest.at = "woken" /\ guest' = Running /\ UNCHANGED <<tab, subs>>
  BY DEF WaitReturns
<1>2. w \in WSet /\ CallTypes
  BY <1>1 DEF CallsInv, WaitSound
<1>3. \A y \in Sub : InCall(y)' <=> InCall(y)
  BY <1>1, RunningIsNotInCall DEF InCall
<1>4. \A v \in WSet : ~WaitsOn(v)'
  BY <1>1, RunningType DEF WaitsOn
<1>5. /\ \A v \in WSet : sets'[v].members = sets[v].members /\ sets'[v].made = sets[v].made
      /\ \A y \in Sub : /\ sub'[y].state = sub[y].state /\ sub'[y].idx = sub[y].idx
                        /\ sub'[y].set = sub[y].set /\ sub'[y].exposed = sub[y].exposed
  <2>1. CASE hasPendingEvent(w)
    <3> DEFINE x == [sets[w] EXCEPT !.waiting = sets[w].waiting - 1]
    <3>1. TakeEvent(w) /\ sets' = [sets EXCEPT ![w] = x]
      BY <2>1 DEF WaitReturns
    <3> HIDE DEF w
    <3>2. sets[w] \in SetType
      BY <1>2, SetFields
    <3>3. x.members = sets[w].members /\ x.made = sets[w].made
      BY <3>2 DEF SetType
    <3> HIDE DEF x
    <3>4. \A v \in WSet : sets'[v].members = sets[v].members /\ sets'[v].made = sets[v].made
      BY <3>1, <3>3, <1>2 DEF CallTypes
    <3>5. PICK s : Taken(s)
      BY <3>1, <2>1, <1>2, TakeEventTakes
    <3> QED BY <3>4, <3>5 DEF Taken
  <2>2. CASE ~hasPendingEvent(w)
    BY <2>2 DEF WaitReturns
  <2> QED BY <2>1, <2>2
<1>6. \A y \in Sub : StaysThere(y) /\ (sub[y].state # "none" => sub'[y].state # "none")
  BY <1>1, <1>3, <1>5 DEF StaysThere, SameSlots, Live
<1>7. \A v \in WSet : SetStays(v) /\ sets'[v].made = sets[v].made
  BY <1>1, <1>4, <1>5 DEF SetStays, SameSlots
<1> QED BY <1>1, <1>6, <1>7, NoHandle

(* Waking the task keeps the handles sound. *)
LEMMA TickHandles ==
    ASSUME CallsInv, HandlesInv, Tick
    PROVE  HandlesInv'
<1>1. /\ guest.at = "wait" /\ guest' = [guest EXCEPT !.at = "woken"]
      /\ UNCHANGED <<tab, subs, sub, sets, told>>
  BY DEF Tick
<1>2. guest'.at = "woken" /\ guest'.obj = guest.obj
  BY <1>1 DEF CallsInv, CallTypes
<1>3. \A y \in Sub : InCall(y)' <=> InCall(y)
  BY <1>1, <1>2, RunningIsNotInCall DEF InCall
<1>4. \A y \in Sub : StaysThere(y) /\ (sub[y].state # "none" => sub'[y].state # "none")
  BY <1>1, <1>3 DEF StaysThere, SameSlots, Live
<1>5. \A v \in WSet : SetStays(v) /\ sets'[v].made = sets[v].made
  BY <1>1, <1>2 DEF SetStays, SameSlots, WaitsOn
<1> QED BY <1>1, <1>4, <1>5, NoHandle

(* waitable-set.wait keeps the handles sound. *)
LEMMA SetWaitHandles ==
    ASSUME CallsInv, HandlesInv, NEW h \in Reps, WaitableSetWait(h)
    PROVE  HandlesInv'
<1> DEFINE w == Get(tab, h)
           x == [sets[w] EXCEPT !.waiting = sets[w].waiting + 1]
<1>1. /\ w \in WSet /\ sets' = [sets EXCEPT ![w] = x] /\ UNCHANGED <<tab, subs, sub, told>>
      /\ guest = Running /\ guest' = [at |-> "wait", obj |-> w]
  BY DEF WaitableSetWait, SetAt, incrementNumWaiting
<1>2. HasHandle(w)
  BY DEF HasHandle, Get
<1> HIDE DEF w
<1>3. sets[w] \in SetType /\ CallTypes
  BY <1>1, SetFields DEF CallsInv
<1>4. x.members = sets[w].members /\ x.made = sets[w].made
  BY <1>3 DEF SetType
<1> HIDE DEF x
<1>5. \A v \in WSet : sets'[v].members = sets[v].members /\ sets'[v].made = sets[v].made
  BY <1>1, <1>3, <1>4 DEF CallTypes
<1>6. \A y \in Sub : InCall(y)' <=> InCall(y)
  BY <1>1, RunningIsNotInCall DEF InCall
<1>7. \A y \in Sub : StaysThere(y) /\ (sub[y].state # "none" => sub'[y].state # "none")
  BY <1>1, <1>6 DEF StaysThere, SameSlots, Live
<1>8. \A v \in WSet : SetStays(v) /\ sets'[v].made = sets[v].made
  BY <1>1, <1>2, <1>5 DEF SetStays, SameSlots, WaitsOn
<1> QED BY <1>1, <1>7, <1>8, NoHandle

(* A subtask is created. *)
LEMMA NewHandle ==
    ASSUME CallsInv, HandlesInv, NEW s \in Sub, CanCreate(s), NEW call, NEW state \in {"STARTING", "STARTED"},
           NEW driver, NewSub(s, call, state, driver), Created(s, call, state, driver),
           guest' = guest \/ guest' = [at |-> "call", obj |-> s], UNCHANGED sets
    PROVE  HandlesInv'
<1>1. guest = Running /\ HasRoom(tab) /\ sub[s] = Free /\ s \in Objects
  BY ObjectsApart DEF CanCreate
<1>2. sub[s].state = "none" /\ sub[s].set = 0 /\ ~Live(s)
  BY <1>1 DEF Free, Live
<1>3. Sound(tab, Objects)' /\ Inserted(s)
  BY <1>1, InsertInserts DEF Created
<1>4. \A y \in Sub \ {s} : SameSlots(y)
  BY <1>1, <1>3, OthersStay, ObjectsApart
<1>5. \A w \in WSet : SameSlots(w)
  BY <1>1, <1>3, OthersStay, ObjectsApart
<1>6. \A y \in Sub \ {s} : InCall(y)' <=> InCall(y)
  BY <1>1, InOneCall, RunningIsNotInCall DEF InCall
<1>7. \A y \in Sub \ {s} : StaysThere(y)
  BY <1>4, <1>6 DEF StaysThere, NewSub, Live
<1>8. HandleSound(s)'
  BY <1>3 DEF HandleSound, NewSub, Inserted, Live
<1>9. ListSound'
  <2>1. Live(s)' /\ subs' = Append(subs, s) /\ \A y \in Sub \ {s} : Live(y)' <=> Live(y)
    BY DEF Live, NewSub, Created
  <2> QED BY <2>1, <1>2, ListGrows
<1>10. RepsSound'
  BY <1>2, <1>3, RepsAfterSub DEF NewSub
<1>11. \A w \in WSet : ~WaitsOn(w)'
  BY <1>1, RunningType DEF WaitsOn
<1>12. \A w \in WSet : SetStays(w)
  BY <1>2, <1>5, <1>11 DEF SetStays, NewSub
<1> QED BY <1>3, <1>7, <1>8, <1>9, <1>10, <1>12, OneHandle

(* An import by type keeps the handles sound. *)
LEMMA LowerImportHandles ==
    ASSUME CallsInv, HandlesInv, NEW s \in Sub, NEW call, LowerImport(s, call)
    PROVE  HandlesInv'
<1>1. /\ call \in {"async", "syncOfAsync"} /\ CanCreate(s)
      /\ Created(s, call, "STARTED", "queued")
      /\ guest' = [at |-> "call", obj |-> s] /\ UNCHANGED sets
  BY DEF LowerImport
<1>2. call \in CallKinds /\ "STARTED" \in States /\ "queued" \in Drivers
  BY <1>1 DEF CallKinds, States, Drivers
<1>3. NewSub(s, call, "STARTED", "queued")
  BY <1>1, <1>2, CreatedIsNew
<1> QED BY <1>1, <1>3, NewHandle

(* An import declared async by hand keeps the handles sound. *)
LEMMA ManualImportHandles ==
    ASSUME CallsInv, HandlesInv, NEW s \in Sub, LowerImportBackwardsCompat(s, "manual")
    PROVE  HandlesInv'
<1>1. /\ CanCreate(s) /\ Created(s, "manual", "STARTED", "queued")
      /\ guest' = [at |-> "call", obj |-> s] /\ UNCHANGED sets
  BY DEF LowerImportBackwardsCompat
<1>2. "manual" \in CallKinds /\ "STARTED" \in States /\ "queued" \in Drivers
  BY DEF CallKinds, States, Drivers
<1>3. NewSub(s, "manual", "STARTED", "queued")
  BY <1>1, <1>2, CreatedIsNew
<1> QED BY <1>1, <1>3, NewHandle

(* The start of a fused call keeps the handles sound. *)
LEMMA StartCallHandles ==
    ASSUME CallsInv, HandlesInv, NEW s \in Sub, StartCall(s)
    PROVE  HandlesInv'
<1>1. /\ CanCreate(s) /\ Created(s, "fused", "STARTING", "queued")
      /\ UNCHANGED <<sets, guest>>
  BY DEF StartCall
<1>2. "fused" \in CallKinds /\ "STARTING" \in States /\ "queued" \in Drivers
  BY DEF CallKinds, States, Drivers
<1>3. NewSub(s, "fused", "STARTING", "queued")
  BY <1>1, <1>2, CreatedIsNew
<1> QED BY <1>1, <1>3, NewHandle

(* The start of a symmetric synchronous call keeps the handles sound. *)
LEMMA EnterSymmetricHandles ==
    ASSUME CallsInv, HandlesInv, NEW s \in Sub, EnterSymmetric(s)
    PROVE  HandlesInv'
<1>1. /\ CanCreate(s) /\ Created(s, "symmetric", "STARTED", "callee")
      /\ guest' = [at |-> "call", obj |-> s] /\ UNCHANGED sets
  BY DEF EnterSymmetric
<1>2. "symmetric" \in CallKinds /\ "STARTED" \in States /\ "callee" \in Drivers
  BY DEF CallKinds, States, Drivers
<1>3. NewSub(s, "symmetric", "STARTED", "callee")
  BY <1>1, <1>2, CreatedIsNew
<1> QED BY <1>1, <1>3, NewHandle

(* A synchronous import is in the table only while it runs. *)
LEMMA SyncImportHandles ==
    ASSUME CallsInv, HandlesInv, NEW s \in Sub, LowerImportBackwardsCompat(s, "sync")
    PROVE  HandlesInv'
<1> DEFINE x == [Free EXCEPT !.call = "sync", !.state = "RETURNED", !.delivered = TRUE,
                             !.idx = NextRep(tab), !.driver = "done", !.target = s]
           n == NextRep(tab)
           U == Insert(tab, s)
<1>1. /\ CanCreate(s) /\ sub' = [sub EXCEPT ![s] = x] /\ tab' = RemoveRep(U, n)
      /\ UNCHANGED <<subs, guest, sets>>
  BY DEF LowerImportBackwardsCompat
<1>2. guest = Running /\ HasRoom(tab) /\ sub[s] = Free /\ s \in Objects /\ n \in 0 .. MaxRep
  BY <1>1, ObjectsApart DEF CanCreate, HasRoom, Reps
<1>3. x \in SubType /\ x.state = "RETURNED" /\ x.idx = n /\ x.set = 0 /\ ~x.exposed
  <2>1. sub[s] \in SubType
    BY SubFields DEF CallsInv
  <2> QED BY <2>1, <1>2 DEF SubType, Free, CallKinds, States, Drivers
<1> HIDE DEF x
<1>4. sub'[s] = x /\ \A y \in Sub \ {s} : sub'[y] = sub[y]
  BY <1>1, <1>3, SetSub DEF CallsInv
<1>5. Apart(Objects) /\ Sound(tab, Objects)
  BY ObjectsApart DEF HandlesInv
<1>6. n \in Reps /\ tab.slot[n] \notin Objects
  BY <1>2, <1>5, NextIsFree
<1>7. /\ Sound(U, Objects) /\ U.slot[n] = s
      /\ \A r \in Reps \ {n} : U.slot[r] = tab.slot[r]
  BY <1>2, <1>5, InsertKeeps
<1> HIDE DEF n, U
<1>8. /\ Sound(tab, Objects)' /\ tab'.slot[n] \notin Objects
      /\ \A r \in Reps \ {n} : tab'.slot[r] = U.slot[r]
  BY <1>1, <1>2, <1>5, <1>6, <1>7, RemoveKeeps
<1>9. \A y \in Objects : SameSlots(y)
  BY <1>6, <1>7, <1>8 DEF SameSlots
<1>10. \A y \in Sub : ~InCall(y) /\ ~InCall(y)'
  BY <1>1, <1>2, RunningIsNotInCall DEF InCall
<1>11. \A y \in Sub \ {s} : StaysThere(y)
  BY <1>4, <1>9, <1>10, ObjectsApart DEF StaysThere, Live
<1>12. sub[s].state = "none" /\ sub[s].set = 0
  BY <1>2 DEF Free
<1>13. HandleSound(s)'
  <2>1. \A r \in Reps : tab.slot[r] # s
    BY <1>12 DEF HandlesInv, RepsSound
  <2> QED BY <2>1, <1>2, <1>3, <1>4, <1>9, <1>10 DEF HandleSound, SameSlots, Live
<1>14. ListSound'
  <2>1. \A y \in Sub : Live(y)' <=> Live(y)
    BY <1>3, <1>4, <1>12 DEF Live
  <2> QED BY <2>1, <1>1, ListStays
<1>15. RepsSound'
  <2>1. \A y \in Objects, r \in Reps : tab'.slot[r] = y => tab.slot[r] = y
    BY <1>9 DEF SameSlots
  <2>2. \A y \in Sub : sub[y].state # "none" => sub'[y].state # "none" /\ sub'[y].idx = sub[y].idx
    BY <1>4, <1>12
  <2> QED BY <2>1, <2>2, <1>1, RepsStay
<1>16. \A w \in WSet : SetStays(w)
  BY <1>1, <1>3, <1>4, <1>9, <1>12, ObjectsApart DEF SetStays, WaitsOn
<1> QED BY <1>8, <1>11, <1>13, <1>14, <1>15, <1>16, OneHandle

(* Only a subtask whose handle the guest has is in a set. *)
LEMMA UnexposedIsAlone ==
    ASSUME CallsInv, HandlesInv, NEW s \in Sub, ~sub[s].exposed
    PROVE  sub[s].set = 0
<1>1. sub[s].set \in WSet \cup {0}
  BY SubFields DEF CallsInv
<1>2. ASSUME NEW w \in WSet PROVE sub[s].set # w
  <2>1. SetSound(w)
    BY DEF HandlesInv
  <2>2. s \notin Range(sets[w].members)
    BY DEF CallsInv, MembersExposed, Range
  <2> QED BY <2>1, <2>2 DEF SetSound
<1> QED BY <1>1, <1>2

(* A subtask that stays in the table is over. *)
LEMMA ResolvedInTable ==
    ASSUME CallsInv, HandlesInv, NEW s \in Sub, Resolved(s), UNCHANGED <<tab, sets, guest>>,
           InCall(s) \/ sub[s].exposed
    PROVE  HandlesInv'
<1>1. /\ sub'[s].state = "RETURNED" /\ subs' = Without(s, subs) /\ sub[s].state = "STARTED"
      /\ \A y \in Sub \ {s} : sub'[y] = sub[y]
  BY DEF Resolved
<1>2. \A y \in Sub : InCall(y)' <=> InCall(y)
  BY DEF InCall
<1>3. \A y \in Sub \ {s} : StaysThere(y)
  BY <1>1, <1>2 DEF StaysThere, SameSlots, Live
<1>4. HandleSound(s)'
  <2>1. HandleSound(s) /\ Live(s)
    BY <1>1 DEF HandlesInv, Live
  <2> QED BY <2>1, <1>2 DEF HandleSound, Resolved
<1>5. ListSound'
  <2>1. ~Live(s)' /\ \A y \in Sub \ {s} : Live(y)' <=> Live(y)
    BY <1>1 DEF Live
  <2> QED BY <2>1, <1>1, ListShrinks
<1>6. RepsSound'
  <2>1. \A y \in Sub : sub[y].state # "none" => sub'[y].state # "none" /\ sub'[y].idx = sub[y].idx
    BY DEF Resolved
  <2> QED BY <2>1, RepsStay
<1>7. \A w \in WSet : SetStays(w)
  BY DEF SetStays, SameSlots, WaitsOn, Resolved
<1>8. Sound(tab, Objects)'
  BY DEF HandlesInv
<1> QED BY <1>3, <1>4, <1>5, <1>6, <1>7, <1>8, OneHandle

(* A subtask the guest never had the handle of leaves the table. *)
LEMMA HandleEnds ==
    ASSUME CallsInv, HandlesInv, NEW s \in Sub, ~sub[s].exposed,
           tab' = RemoveRep(tab, sub[s].idx), guest' = Running,
           InCall(s), UNCHANGED sets,
           sub'[s].state = "RETURNED", sub'[s].idx = sub[s].idx, sub'[s].set = sub[s].set,
           \A y \in Sub \ {s} : sub'[y] = sub[y],
           subs' = Without(s, subs) \/ (UNCHANGED subs /\ ~Live(s))
    PROVE  HandlesInv'
<1> DEFINE r == sub[s].idx
<1>1. HandleSound(s) /\ RepsSound /\ s \in Objects
  BY ObjectsApart DEF HandlesInv
<1>2. r \in Reps /\ tab.slot[r] = s
  BY <1>1 DEF HandleSound
<1>3. Sound(tab, Objects)' /\ Removed(r)
  BY <1>1, <1>2, RemoveRemoves
<1>4. (\A y \in Sub \ {s} : SameSlots(y)) /\ (\A w \in WSet : SameSlots(w))
  BY <1>2, <1>3, OthersStay, ObjectsApart
<1>5. (\A y \in Sub \ {s} : ~InCall(y)) /\ (\A y \in Sub : ~InCall(y)')
  BY InOneCall, RunningIsNotInCall DEF InCall
<1>6. \A y \in Sub \ {s} : StaysThere(y)
  BY <1>4, <1>5 DEF StaysThere, Live
<1>7. sub'[s].set = 0
  BY UnexposedIsAlone
<1>8. \A q \in Reps : tab'.slot[q] # s
  BY <1>1, <1>3 DEF Removed, RepsSound
<1>9. HandleSound(s)'
  BY <1>5, <1>7, <1>8 DEF HandleSound, Live
<1>10. ~Live(s)' /\ \A y \in Sub \ {s} : Live(y)' <=> Live(y)
  BY DEF Live
<1>11. ListSound'
  BY <1>10, ListShrinks, ListStays
<1>12. RepsSound'
  <2>1. \A x \in Objects, q \in Reps : tab'.slot[q] = x => tab.slot[q] = x
    BY <1>3, RemovedStay
  <2>2. \A y \in Sub : sub[y].state # "none" => sub'[y].state # "none" /\ sub'[y].idx = sub[y].idx
    OBVIOUS
  <2> QED BY <2>1, <2>2, RepsStay
<1>13. \A w \in WSet : ~WaitsOn(w)'
  BY RunningType DEF WaitsOn
<1>14. \A w \in WSet : SetStays(w)
  BY <1>4, <1>13 DEF SetStays
<1> QED BY <1>3, <1>6, <1>9, <1>11, <1>12, <1>14, OneHandle

(* An imported function that ends keeps the handles sound. *)
LEMMA ImportDoneHandles ==
    ASSUME CallsInv, HandlesInv, NEW s \in Sub, ImportDone(s)
    PROVE  HandlesInv'
<1>1. /\ sub[s].driver = "callee" /\ sub[s].call \in {"async", "manual"}
      /\ Resolve(s) /\ ManualResult(s) /\ UNCHANGED sets
  BY DEF ImportDone
<1>2. Resolved(s) /\ CallSound(s)
  BY <1>1, ResolveOwn DEF CallsInv
<1>3. InCall(s) \/ sub[s].exposed
  BY <1>1, <1>2 DEF CallSound
<1>4. CASE sub[s].call = "async"
  <2>1. UNCHANGED <<tab, guest>>
    BY <1>1, <1>2, <1>4 DEF ManualResult, Resolved, HandleAfterResolve, isAsync
  <2> QED BY <2>1, <1>1, <1>2, <1>3, ResolvedInTable
<1>5. CASE sub[s].call = "manual"
  <2>1. tab' = RemoveRep(tab, sub[s].idx) /\ guest' = Running
    BY <1>1, <1>2, <1>5 DEF ManualResult, Resolved, HandleAfterResolve, isAsync
  <2>2. InCall(s) /\ ~sub[s].exposed
    BY <1>2, <1>3, <1>5 DEF CallSound
  <2>3. /\ sub'[s].state = "RETURNED" /\ sub'[s].idx = sub[s].idx /\ sub'[s].set = sub[s].set
        /\ subs' = Without(s, subs) /\ \A y \in Sub \ {s} : sub'[y] = sub[y]
    BY <1>2 DEF Resolved
  <2> QED BY <2>1, <2>2, <2>3, <1>1, HandleEnds
<1> QED BY <1>1, <1>4, <1>5

(* A callee that returns keeps the handles sound. *)
LEMMA CalleeReturnsHandles ==
    ASSUME CallsInv, HandlesInv, NEW s \in Sub, CalleeReturns(s)
    PROVE  HandlesInv'
<1>1. /\ sub[s].driver = "callee" /\ sub[s].call = "fused"
      /\ Resolve(s) /\ UNCHANGED <<sets, guest, told>>
  BY DEF CalleeReturns
<1>2. Resolved(s) /\ CallSound(s)
  BY <1>1, ResolveOwn DEF CallsInv
<1>3. sub[s].exposed /\ UNCHANGED tab
  BY <1>1, <1>2 DEF CallSound, Resolved, HandleAfterResolve, isAsync
<1> QED BY <1>1, <1>2, <1>3, ResolvedInTable

(* The end of a symmetric synchronous call keeps the handles sound. *)
LEMMA ExitSymmetricHandles ==
    ASSUME CallsInv, HandlesInv, NEW s \in Sub, ExitSymmetric(s)
    PROVE  HandlesInv'
<1> DEFINE x == [sub[s] EXCEPT !.state = "RETURNED", !.delivered = TRUE, !.driver = "done"]
<1>1. /\ InCall(s) /\ sub' = [sub EXCEPT ![s] = x] /\ subs' = Without(s, subs)
      /\ tab' = RemoveRep(tab, sub[s].idx) /\ guest' = Running /\ UNCHANGED sets
  BY DEF ExitSymmetric, InCall
<1>2. ~sub[s].exposed /\ sub[s] \in SubType
  BY <1>1, SubFields DEF CallsInv, CallSound
<1>3. x \in SubType /\ x.state = "RETURNED" /\ x.idx = sub[s].idx /\ x.set = sub[s].set
  BY <1>2 DEF SubType, States, Drivers
<1> HIDE DEF x
<1>4. sub'[s] = x /\ \A y \in Sub \ {s} : sub'[y] = sub[y]
  BY <1>1, <1>3, SetSub DEF CallsInv
<1> QED BY <1>1, <1>2, <1>3, <1>4, HandleEnds

(* The timer that answers a call keeps the handles sound. *)
LEMMA CallTimerHandles ==
    ASSUME CallsInv, HandlesInv, NEW s \in Sub, CallTimer(s)
    PROVE  HandlesInv'
<1> DEFINE ret == sub[s].state = "RETURNED"
           x == [sub[s] EXCEPT !.delivered = sub[s].delivered \/ ret, !.exposed = ~ret]
<1>1. /\ InCall(s) /\ sub' = [sub EXCEPT ![s] = x]
      /\ tab' = IF ret THEN RemoveRep(tab, sub[s].idx) ELSE tab
      /\ guest' = Running /\ UNCHANGED <<subs, sets>>
  BY DEF CallTimer, InCall, TimerRemovesHandle
<1>2. ~sub[s].exposed /\ sub[s] \in SubType
  BY <1>1, SubFields DEF CallsInv, CallSound
<1>3. /\ x \in SubType /\ x.state = sub[s].state /\ x.idx = sub[s].idx /\ x.set = sub[s].set
      /\ (x.exposed <=> ~ret)
  BY <1>2 DEF SubType
<1> HIDE DEF x
<1>4. sub'[s] = x /\ \A y \in Sub \ {s} : sub'[y] = sub[y]
  BY <1>1, <1>3, SetSub DEF CallsInv
<1>5. CASE ret
  <2>1. ~Live(s)
    BY <1>5 DEF Live
  <2> QED BY <2>1, <1>1, <1>2, <1>3, <1>4, <1>5, HandleEnds
<1>6. CASE ~ret
  <2>1. UNCHANGED tab
    BY <1>1, <1>6
  <2>2. (\A y \in Sub \ {s} : ~InCall(y)) /\ (\A y \in Sub : ~InCall(y)')
    BY <1>1, InOneCall, RunningIsNotInCall DEF InCall
  <2>3. \A y \in Sub \ {s} : StaysThere(y)
    BY <2>1, <2>2, <1>4 DEF StaysThere, SameSlots, Live
  <2>4. HandleSound(s)'
    <3>1. HandleSound(s)
      BY DEF HandlesInv
    <3>2. sub[s].idx \in Reps /\ tab.slot[sub[s].idx] = s
      BY <3>1, <1>1, <1>2 DEF HandleSound
    <3> QED BY <3>2, <2>1, <1>3, <1>4, <1>6 DEF HandleSound
  <2>5. ListSound'
    <3>1. \A y \in Sub : Live(y)' <=> Live(y)
      BY <1>3, <1>4 DEF Live
    <3> QED BY <3>1, <1>1, ListStays
  <2>6. RepsSound'
    <3>1. \A y \in Sub : sub[y].state # "none" => sub'[y].state # "none" /\ sub'[y].idx = sub[y].idx
      BY <1>3, <1>4
    <3> QED BY <3>1, <2>1, <1>1, RepsStay
  <2>7. \A w \in WSet : ~WaitsOn(w)'
    BY <1>1, RunningType DEF WaitsOn
  <2>8. \A w \in WSet : SetStays(w)
    BY <2>1, <2>7, <1>1, <1>3, <1>4 DEF SetStays, SameSlots
  <2>9. Sound(tab, Objects)'
    BY <2>1 DEF HandlesInv
  <2> QED BY <2>3, <2>4, <2>5, <2>6, <2>8, <2>9, OneHandle
<1> QED BY <1>5, <1>6

(* The sets. *)
LEMMA SetNewHandles ==
    ASSUME CallsInv, HandlesInv, NEW w \in WSet, WaitableSetNew(w)
    PROVE  HandlesInv'
<1> DEFINE x == [sets[w] EXCEPT !.made = TRUE]
<1>1. /\ HasRoom(tab) /\ ~sets[w].made /\ sets' = [sets EXCEPT ![w] = x]
      /\ tab' = Insert(tab, w) /\ UNCHANGED <<subs, sub, guest, told>>
  BY DEF WaitableSetNew
<1>2. sets[w] \in SetType /\ CallTypes /\ w \in Objects
  BY SetFields, ObjectsApart DEF CallsInv
<1>3. x.members = sets[w].members /\ x.made
  BY <1>2 DEF SetType
<1> HIDE DEF x
<1>4. sets'[w] = x /\ \A v \in WSet \ {w} : sets'[v] = sets[v]
  BY <1>1, <1>2 DEF CallTypes
<1>5. Sound(tab, Objects)' /\ Inserted(w)
  BY <1>1, <1>2, InsertInserts
<1>6. (\A y \in Sub : SameSlots(y)) /\ (\A v \in WSet \ {w} : SameSlots(v))
  BY <1>2, <1>5, OthersStay, ObjectsApart
<1>7. \A y \in Sub : StaysThere(y)
  BY <1>1, <1>6 DEF StaysThere, Live, InCall
<1>8. \A y \in Sub : HandleSound(y)'
  BY <1>7, HandleStays DEF HandlesInv
<1>9. ListSound'
  BY <1>1, <1>7, ListStays DEF StaysThere
<1>10. RepsSound'
  BY <1>1, <1>3, <1>4, <1>5, RepsAfterSet
<1>11. \A v \in WSet \ {w} : SetStays(v)
  BY <1>1, <1>4, <1>6 DEF SetStays, WaitsOn
<1>12. \A v \in WSet \ {w} : SetSound(v)'
  BY <1>11, SetStaysSound DEF HandlesInv
<1>13. SetSound(w)'
  <2>1. HasHandle(w)' /\ SetSound(w)
    BY <1>5 DEF HasHandle, Inserted, HandlesInv
  <2> QED BY <2>1, <1>1, <1>3, <1>4 DEF SetSound
<1> QED BY <1>5, <1>8, <1>9, <1>10, <1>12, <1>13 DEF HandlesInv

(* A set that is in use is not dropped: its task is counted. *)
LEMMA SetDropHandles ==
    ASSUME CallsInv, HandlesInv, NEW h \in Reps, WaitableSetDrop(h)
    PROVE  HandlesInv'
<1>0. PICK w : w = Get(tab, h)
  OBVIOUS
<1>1. /\ w \in WSet /\ sets[w].members = <<>> /\ sets[w].waiting = 0
      /\ tab' = RemoveRep(tab, h) /\ UNCHANGED <<subs, sub, sets, guest, told>>
  BY <1>0 DEF WaitableSetDrop, SetAt, MayRemoveSet
<1>2. w = tab.slot[h] /\ w \in Objects
  BY <1>0, <1>1, ObjectsApart DEF Get
<1>3. Sound(tab, Objects)' /\ Removed(h)
  BY <1>1, <1>2, RemoveRemoves
<1>4. (\A y \in Sub : SameSlots(y)) /\ (\A v \in WSet \ {w} : SameSlots(v))
  BY <1>1, <1>2, <1>3, OthersStay, ObjectsApart
<1>5. \A y \in Sub : StaysThere(y)
  BY <1>1, <1>4 DEF StaysThere, Live, InCall
<1>6. \A y \in Sub : HandleSound(y)'
  BY <1>5, HandleStays DEF HandlesInv
<1>7. ListSound'
  BY <1>1, <1>5, ListStays DEF StaysThere
<1>8. RepsSound'
  <2>1. \A x \in Objects, q \in Reps : tab'.slot[q] = x => tab.slot[q] = x
    BY <1>3, RemovedStay
  <2> QED BY <2>1, <1>1, RepsStay
<1>9. \A v \in WSet \ {w} : SetSound(v)'
  <2>1. \A v \in WSet \ {w} : SetStays(v)
    BY <1>1, <1>4 DEF SetStays, WaitsOn
  <2> QED BY <2>1, SetStaysSound DEF HandlesInv
<1>10. SetSound(w)'
  <2>1. ~WaitsOn(w)
    BY <1>1 DEF CallsInv, WaitSound, WaitsOn
  <2>2. ~WaitsOn(w)' /\ SetSound(w)
    BY <2>1, <1>1 DEF WaitsOn, HandlesInv
  <2> QED BY <2>2, <1>1 DEF SetSound
<1> QED BY <1>3, <1>6, <1>7, <1>8, <1>9, <1>10 DEF HandlesInv

(* Where a subtask is after join(). *)
LEMMA JoinSets ==
    ASSUME CallsInv, HandlesInv, NEW s \in Sub, NEW w \in WSet \cup {0},
           sets' = Join(s, w), sub' = [sub EXCEPT ![s].set = w], UNCHANGED guest,
           \A v \in WSet : SameSlots(v), w \in WSet => HasHandle(w)
    PROVE  \A v \in WSet : SetSound(v)'
<1> SUFFICES ASSUME NEW v \in WSet PROVE SetSound(v)'
  OBVIOUS
<1> DEFINE m == sets[v].members
           b == Without(s, m)
           n == sets'[v].members
<1>1. m \in Seq(Sub) /\ CallTypes
  BY SetFields DEF CallsInv
<1>2. SetSound(v) /\ SameSlots(v)
  BY DEF HandlesInv
<1>3. n = IF v = w THEN Append(b, s) ELSE IF v = sub[s].set THEN b ELSE m
  BY <1>1, JoinFacts
<1>4. IsInjective(m) /\ \A y \in Sub : sub[y].set = v <=> y \in Range(m)
  BY <1>2 DEF SetSound
<1>5. b \in Seq(Sub) /\ IsInjective(b) /\ Range(b) = Range(m) \ {s}
  BY <1>1, <1>4, WithoutType, WithoutOthers
<1>6. sub'[s].set = w /\ \A y \in Sub \ {s} : sub'[y] = sub[y]
  <2> DEFINE x == [sub[s] EXCEPT !.set = w]
  <2>1. sub' = [sub EXCEPT ![s] = x] /\ sub[s] \in SubType
    BY <1>1, SubFields DEF CallTypes
  <2>2. x \in SubType /\ x.set = w
    BY <2>1 DEF SubType
  <2> HIDE DEF x
  <2> QED BY <2>1, <2>2, <1>1, SetSub
<1>7. (HasHandle(v)' <=> HasHandle(v)) /\ (WaitsOn(v)' <=> WaitsOn(v))
  BY <1>2 DEF HasHandle, SameSlots, WaitsOn
<1> HIDE DEF b, m
<1>8. CASE v = w
  <2>1. n = Append(b, s)
    BY <1>3, <1>8
  <2>2. /\ DOMAIN n = 1 .. Len(b) + 1 /\ n[Len(b) + 1] = s /\ Len(b) \in Nat
        /\ \A i \in 1 .. Len(b) : n[i] = b[i]
        /\ DOMAIN b = 1 .. Len(b)
    BY <2>1, <1>5
  <2>3. \A i \in 1 .. Len(b) + 1 : i \in 1 .. Len(b) \/ i = Len(b) + 1
    BY <2>2
  <2>4. \A i \in 1 .. Len(b) : b[i] # s
    BY <2>2, <1>5 DEF Range
  <2>5. IsInjective(n)
    <3>1. \A i, j \in DOMAIN b : b[i] = b[j] => i = j
      BY <1>5 DEF IsInjective
    <3> QED BY <3>1, <2>2, <2>3, <2>4 DEF IsInjective
  <2>6. Range(n) = Range(b) \cup {s}
    <3>1. Len(b) + 1 \in DOMAIN n /\ \A i \in 1 .. Len(b) : i \in DOMAIN n
      BY <2>2
    <3> QED BY <3>1, <2>2, <2>3 DEF Range
  <2>7. \A y \in Sub : sub'[y].set = v <=> y \in Range(n)
    BY <2>6, <1>4, <1>5, <1>6, <1>8
  <2> QED BY <2>5, <2>7, <1>7, <1>8 DEF SetSound
<1>9. CASE v # w /\ v = sub[s].set
  <2>1. n = b
    BY <1>3, <1>9
  <2>2. \A y \in Sub : sub'[y].set = v <=> y \in Range(n)
    BY <2>1, <1>4, <1>5, <1>6, <1>9
  <2>3. m # <<>>
    BY <1>4, <1>9 DEF Range
  <2> QED BY <2>1, <2>2, <2>3, <1>2, <1>5, <1>7 DEF SetSound, m
<1>10. CASE v # w /\ v # sub[s].set
  <2>1. n = m
    BY <1>3, <1>10
  <2>2. \A y \in Sub : sub'[y].set = v <=> y \in Range(n)
    BY <2>1, <1>4, <1>6, <1>10
  <2> QED BY <2>1, <2>2, <1>2, <1>4, <1>7 DEF SetSound, m
<1> QED BY <1>8, <1>9, <1>10

(* Setting the set of a subtask changes no other field. *)
LEMMA SetField ==
    ASSUME CallTypes, NEW s \in Sub, NEW w \in WSet \cup {0}, sub' = [sub EXCEPT ![s].set = w]
    PROVE  /\ sub'[s].set = w /\ sub'[s].state = sub[s].state /\ sub'[s].idx = sub[s].idx
           /\ sub'[s].exposed = sub[s].exposed /\ \A y \in Sub \ {s} : sub'[y] = sub[y]
<1> DEFINE x == [sub[s] EXCEPT !.set = w]
<1>1. sub' = [sub EXCEPT ![s] = x] /\ sub[s] \in SubType
  BY SubFields DEF CallTypes
<1>2. /\ x \in SubType /\ x.set = w /\ x.state = sub[s].state /\ x.idx = sub[s].idx
      /\ x.exposed = sub[s].exposed
  BY <1>1 DEF SubType
<1> HIDE DEF x
<1> QED BY <1>1, <1>2, SetSub

(* waitable.join keeps the handles sound. *)
LEMMA WaitableJoinHandles ==
    ASSUME CallsInv, HandlesInv, NEW h \in Reps, NEW hs \in 0 .. MaxRep, WaitableJoin(h, hs)
    PROVE  HandlesInv'
<1>0. PICK s, w : s = Get(tab, h) /\ w = IF hs = 0 THEN 0 ELSE Get(tab, hs)
  OBVIOUS
<1>1. /\ s \in Sub /\ sub[s].exposed /\ w \in WSet \cup {0}
      /\ sets' = Join(s, w) /\ sub' = [sub EXCEPT ![s].set = w]
      /\ UNCHANGED <<tab, subs, guest, told>>
  BY <1>0 DEF WaitableJoin, SubAt, SetAt
<1>2. w \in WSet => HasHandle(w)
  <2>1. w \in WSet => hs \in Reps /\ tab.slot[hs] = w
    BY <1>0, ObjectsApart, MaxRepAssumption DEF Get, Reps
  <2> QED BY <2>1 DEF HasHandle
<1>3. CallTypes /\ tab.slot[h] = s
  BY <1>0 DEF CallsInv, Get
<1>4. \A x \in Objects : SameSlots(x)
  BY <1>1 DEF SameSlots
<1>5. \A v \in WSet : SetSound(v)'
  BY <1>1, <1>2, <1>4, JoinSets, ObjectsApart
<1>6. /\ sub'[s].set = w /\ sub'[s].state = sub[s].state /\ sub'[s].idx = sub[s].idx
      /\ sub'[s].exposed = sub[s].exposed /\ \A y \in Sub \ {s} : sub'[y] = sub[y]
  BY <1>1, <1>3, SetField
<1>7. \A y \in Sub : InCall(y)' <=> InCall(y)
  BY <1>1 DEF InCall
<1>8. \A y \in Sub \ {s} : HandleSound(y)'
  <2>1. \A y \in Sub \ {s} : StaysThere(y)
    BY <1>4, <1>6, <1>7, ObjectsApart DEF StaysThere, Live
  <2> QED BY <2>1, HandleStays DEF HandlesInv
<1>9. HandleSound(s)'
  <2>1. sub[s].idx = h
    BY <1>1, <1>3 DEF HandlesInv, RepsSound
  <2> QED BY <2>1, <1>1, <1>3, <1>6 DEF HandleSound
<1>10. ListSound'
  <2>1. \A y \in Sub : Live(y)' <=> Live(y)
    BY <1>6 DEF Live
  <2> QED BY <2>1, <1>1, ListStays
<1>11. RepsSound'
  <2>1. \A y \in Sub : sub[y].state # "none" => sub'[y].state # "none" /\ sub'[y].idx = sub[y].idx
    BY <1>6
  <2>2. \A v \in WSet : sets[v].made => sets'[v].made
    BY <1>1, <1>3, JoinFacts
  <2> QED BY <2>1, <2>2, <1>1, RepsStay
<1>12. Sound(tab, Objects)'
  BY <1>1 DEF HandlesInv
<1> QED BY <1>5, <1>8, <1>9, <1>10, <1>11, <1>12 DEF HandlesInv

(* A subtask that is told to have returned leaves its set with its handle;   *)
(* one that is dropped early stays in its set.                               *)
LEMMA SubtaskDropHandles ==
    ASSUME CallsInv, HandlesInv, NEW h \in Reps, SubtaskDrop(h)
    PROVE  HandlesInv'
<1>0. PICK s : s = Get(tab, h)
  OBVIOUS
<1> DEFINE dropped == sub[s].delivered /\ ~sub[s].event
<1>1. /\ guest = Running /\ s \in Sub /\ sub[s].exposed /\ UNCHANGED <<subs, guest, told>>
      /\ sets' = (IF dropped THEN Join(s, 0) ELSE sets)
      /\ sub' = (IF dropped THEN [sub EXCEPT ![s].set = 0] ELSE sub)
      /\ EarlyDrop \/ sub[s].delivered
      /\ tab' = RemoveRep(tab, h)
  BY <1>0 DEF SubtaskDrop, SubAt
<1>2. CallTypes /\ tab.slot[h] = s /\ s \in Objects
  BY <1>0, <1>1, ObjectsApart DEF CallsInv, Get
<1>3. sub[s].idx = h
  BY <1>1, <1>2 DEF HandlesInv, RepsSound
<1>4. Sound(tab, Objects)' /\ Removed(h)
  BY <1>1, <1>2, RemoveRemoves
<1>5. (\A y \in Sub \ {s} : SameSlots(y)) /\ (\A v \in WSet : SameSlots(v))
  BY <1>1, <1>2, <1>4, OthersStay, ObjectsApart
<1>6. \A y \in Sub : ~InCall(y) /\ ~InCall(y)'
  BY <1>1, RunningIsNotInCall DEF InCall
<1>7. /\ dropped => sub'[s].set = 0
      /\ ~dropped => UNCHANGED <<sub, sets>>
      /\ sub'[s].state = sub[s].state /\ sub'[s].idx = sub[s].idx
      /\ sub'[s].exposed = sub[s].exposed /\ \A y \in Sub \ {s} : sub'[y] = sub[y]
  BY <1>1, <1>2, SetField
<1>8. \A v \in WSet : SetSound(v)'
  <2>1. CASE dropped
    <3>1. 0 \notin WSet /\ 0 \in WSet \cup {0}
      BY ObjectsApart
    <3> QED BY <3>1, <2>1, <1>1, <1>5, JoinSets
  <2>2. CASE ~dropped
    <3>1. \A v \in WSet : SetStays(v)
      BY <2>2, <1>1, <1>5, <1>7 DEF SetStays, WaitsOn
    <3> QED BY <3>1, SetStaysSound DEF HandlesInv
  <2> QED BY <2>1, <2>2
<1>9. \A y \in Sub \ {s} : HandleSound(y)'
  <2>1. \A y \in Sub \ {s} : StaysThere(y)
    BY <1>5, <1>6, <1>7 DEF StaysThere, Live
  <2> QED BY <2>1, HandleStays DEF HandlesInv
<1>10. HandleSound(s)'
  <2>1. ToldSound(s)
    BY <1>1 DEF CallsInv
  <2>2. sub[s].delivered => ~Live(s) /\ dropped
    BY <2>1, <1>1 DEF ToldSound, Live
  <2>3. CASE sub[s].delivered
    BY <2>2, <2>3, <1>1, <1>6, <1>7 DEF HandleSound, Live
  <2>4. CASE ~sub[s].delivered
    BY <2>4, <1>1, <1>3, <1>7 DEF HandleSound
  <2> QED BY <2>3, <2>4
<1>11. ListSound'
  <2>1. \A y \in Sub : Live(y)' <=> Live(y)
    BY <1>7 DEF Live
  <2> QED BY <2>1, <1>1, ListStays
<1>12. RepsSound'
  <2>1. \A x \in Objects, q \in Reps : tab'.slot[q] = x => tab.slot[q] = x
    BY <1>4, RemovedStay
  <2>2. \A y \in Sub : sub[y].state # "none" => sub'[y].state # "none" /\ sub'[y].idx = sub[y].idx
    BY <1>7
  <2>3. \A v \in WSet : sets[v].made => sets'[v].made
    BY <1>1, <1>2, JoinFacts
  <2> QED BY <2>1, <2>2, <2>3, RepsStay
<1> QED BY <1>4, <1>8, <1>9, <1>10, <1>11, <1>12 DEF HandlesInv

-----------------------------------------------------------------------------
(* A new table, list and no sets are sound. *)
LEMMA HandlesInit == Init => HandlesInv
<1> SUFFICES ASSUME Init PROVE HandlesInv
  OBVIOUS
<1> USE DEF Init
<1>1. Sound(tab, Objects)
  BY EmptySound, ObjectsApart
<1>2. \A r \in Reps : tab.slot[r] \notin Objects
  <2>1. \A r \in Reps : r \in 0 .. MaxRep /\ EmptyTable.slot[r] = 0
    BY MaxRepAssumption DEF EmptyTable, Reps
  <2>2. 0 \notin Objects
    BY ObjectsAssumption, MaxRepAssumption
  <2> QED BY <2>1, <2>2
<1>3. \A s \in Sub : ~Live(s) /\ ~InCall(s) /\ sub[s].set = 0 /\ sub[s].state # "RETURNED"
  BY RunningIsNotInCall DEF Live, InCall, Free
<1>4. \A w \in WSet : sets[w].members = <<>> /\ ~WaitsOn(w)
  BY RunningType DEF WaitsOn
<1>5. IsInjective(<<>>) /\ Range(<<>>) = {}
  BY DEF IsInjective, Range
<1>6. ListSound
  BY <1>3, <1>5 DEF ListSound
<1>7. RepsSound
  BY <1>2, ObjectsApart DEF RepsSound
<1>8. \A s \in Sub : HandleSound(s)
  BY <1>3 DEF HandleSound
<1>9. \A w \in WSet : SetSound(w)
  BY <1>3, <1>4, <1>5, ObjectsApart DEF SetSound
<1> QED BY <1>1, <1>6, <1>7, <1>8, <1>9 DEF HandlesInv

(* Every step keeps the handles sound. *)
LEMMA HandlesStep == CallsInv /\ HandlesInv /\ [Next]_vars => HandlesInv'
<1> SUFFICES ASSUME CallsInv, HandlesInv, [Next]_vars PROVE HandlesInv'
  OBVIOUS
<1>1. CASE UNCHANGED vars
  <2>1. UNCHANGED <<tab, subs, sub, sets, guest>>
    BY <1>1 DEF vars
  <2>2. \A y \in Sub : StaysThere(y)
    BY <2>1 DEF StaysThere, SameSlots, Live, InCall
  <2>3. \A w \in WSet : SetStays(w)
    BY <2>1 DEF SetStays, SameSlots, WaitsOn
  <2> QED BY <2>1, <2>2, <2>3, NoHandle
<1>2. CASE GuestStep
  <2>1. ASSUME NEW s \in Sub, NEW c \in Calls,
               LowerImport(s, c) \/ LowerImportBackwardsCompat(s, c)
        PROVE  HandlesInv'
    <3>1. LowerImportBackwardsCompat(s, c) => c = "sync" \/ c = "manual"
      BY DEF LowerImportBackwardsCompat
    <3> QED BY <2>1, <3>1, LowerImportHandles, SyncImportHandles, ManualImportHandles
  <2> QED
    BY <1>2, <2>1, StartCallHandles, EnterSymmetricHandles, SetNewHandles, WaitableJoinHandles,
       SetPollHandles, SetWaitHandles, SetDropHandles, SubtaskDropHandles DEF GuestStep
<1>3. ASSUME NEW s \in Sub, LoopStep(s) PROVE HandlesInv'
  BY <1>3, RunImportHandles, StartTimerHandles, ImportDoneHandles, CalleeReturnsHandles,
     ExitSymmetricHandles, CallTimerHandles DEF LoopStep
<1> QED
  BY <1>1, <1>2, <1>3, TrapHandles, TickHandles, WaitReturnsHandles DEF Next

(* The table, the list of subtasks and the sets agree in every reachable     *)
(* state.                                                                    *)
THEOREM HandlesInvariant == Spec => []HandlesInv
<1>1. Init => CallsInv /\ HandlesInv
  BY CallsInit, HandlesInit
<1>2. CallsInv /\ HandlesInv /\ [Next]_vars => (CallsInv /\ HandlesInv)'
  BY CallsStep, HandlesStep
<1> QED BY <1>1, <1>2, PTL DEF Spec

(* The variables keep their types: #waiting never goes below zero, however   *)
(* polls take events under a task that was woken.                            *)
THEOREM SubtaskTypes == Spec => []TypeOK
<1>1. CallsInv /\ HandlesInv => TypeOK
  BY DEF CallsInv, HandlesInv, Sound, TypeOK
<1> QED BY <1>1, CallsInvariant, HandlesInvariant, PTL

(* A sound table has a complete free list. *)
LEMMA FreeListFromLinks ==
    ASSUME Sound(tab, Objects)
    PROVE  FreeListSound
<1> SUFFICES ASSUME NEW r \in 1 .. tab.len - 1, tab.slot[r] \notin Objects
             PROVE  \E q \in 0 .. tab.len - 1 :
                        /\ tab.slot[q] = r
                        /\ \A p \in 0 .. tab.len - 1 : tab.slot[p] = r => p = q
  BY DEF FreeListSound
<1>1. tab.len \in 1 .. MaxRep + 1 /\ MaxRep \in Nat
  BY TableFields, MaxRepAssumption DEF Sound
<1>2. r \in Reps /\ r < tab.len /\ r # 0 /\ \A p \in 0 .. tab.len - 1 : p \in 0 .. MaxRep
  BY <1>1 DEF Reps
<1>3. PICK q \in 0 .. MaxRep : tab.slot[q] = r
  BY <1>2 DEF Sound, LinksSound
<1>4. q \in 0 .. tab.len - 1
  <2>1. q >= tab.len => q \in Reps /\ tab.slot[q] = 0
    BY <1>1 DEF Sound, LinksSound, Reps
  <2> QED BY <2>1, <1>1, <1>2, <1>3
<1>5. \A p \in 0 .. tab.len - 1 : tab.slot[p] = r => p = q
  BY <1>2, <1>3 DEF Sound, LinksSound
<1> QED BY <1>3, <1>4, <1>5

(* A handle finds its object as long as someone needs it and no longer, and  *)
(* the free list of the table loses no rep, however the microtask, the timer *)
(* and the resolution of a call interleave with the guest's own drops.       *)
THEOREM HandlesStaySound == Spec => []HandlesSound
<1>1. CallsInv /\ HandlesInv => HandlesSound
  <2> SUFFICES ASSUME CallsInv, HandlesInv PROVE HandlesSound
    OBVIOUS
  <2>1. Sound(tab, Objects) /\ ListSound /\ RepsSound /\ Apart(Objects)
    BY ObjectsApart DEF HandlesInv
  <2>2. \A x \in Objects : RepsOf(tab, x) = {r \in Reps : tab.slot[r] = x}
    BY <2>1, RepsOfValue
  <2>3. \A x \in Objects : \A q, r \in RepsOf(tab, x) : q = r
    BY <2>1, <2>2 DEF RepsSound, Objects
  <2>4. ASSUME NEW s \in Sub
        PROVE  /\ s \in Range(subs) \/ sub[s].set # 0 =>
                     tab.slot[sub[s].idx] = s \/ (EarlyDrop /\ sub[s].exposed)
               /\ sub[s].state = "RETURNED" /\ ~sub[s].exposed
                     /\ guest # [at |-> "call", obj |-> s] => RepsOf(tab, s) = {}
    <3>1. HandleSound(s) /\ s \in Objects
      BY ObjectsApart DEF HandlesInv
    <3> QED BY <3>1, <2>1, <2>2 DEF HandleSound, ListSound, InCall
  <2> QED BY <2>1, <2>3, <2>4, FreeListFromLinks DEF HandlesSound
<1> QED BY <1>1, CallsInvariant, HandlesInvariant, PTL

(* In a list without repetition a member is counted once. *)
LEMMA CountedOnce ==
    ASSUME NEW m \in Seq(Sub), IsInjective(m), NEW s \in Sub
    PROVE  s \in Range(m) <=> Cardinality({i \in DOMAIN m : m[i] = s}) = 1
<1> DEFINE C == {i \in DOMAIN m : m[i] = s}
<1>1. CASE s \in Range(m)
  <2>1. PICK k \in DOMAIN m : m[k] = s
    BY <1>1 DEF Range
  <2>2. C = {k}
    BY <2>1 DEF IsInjective
  <2> QED BY <2>2, <1>1, FS_Singleton
<1>2. CASE s \notin Range(m)
  <2>1. C = {}
    BY <1>2 DEF Range
  <2>2. Cardinality(C) = 0
    BY <2>1, FS_EmptySet
  <2> QED BY <2>2, <1>2
<1> QED BY <1>1, <1>2

(* A waitable and its set agree on the membership, and a set that has        *)
(* members or a waiting task is never without its handle.                    *)
THEOREM SetsStaySound == Spec => []SetsSound
<1>1. CallsInv /\ HandlesInv => SetsSound
  <2> SUFFICES ASSUME CallsInv, HandlesInv, NEW w \in WSet
               PROVE  /\ \A s \in Sub : (sub[s].set = w) <=>
                            (Cardinality({i \in DOMAIN sets[w].members : sets[w].members[i] = s}) = 1)
                      /\ IsInjective(sets[w].members)
                      /\ sets[w].members # <<>> \/ (guest.at \in {"wait", "woken"} /\ guest.obj = w)
                            => RepsOf(tab, w) # {}
    BY DEF SetsSound
  <2>1. SetSound(w) /\ sets[w].members \in Seq(Sub)
    BY SetFields DEF CallsInv, HandlesInv
  <2>2. \A s \in Sub : (sub[s].set = w) <=>
            (Cardinality({i \in DOMAIN sets[w].members : sets[w].members[i] = s}) = 1)
    BY <2>1, CountedOnce DEF SetSound
  <2>3. RepsOf(tab, w) = {r \in Reps : tab.slot[r] = w}
    BY ObjectsApart, RepsOfValue DEF HandlesInv
  <2> QED BY <2>1, <2>2, <2>3 DEF SetSound, WaitsOn, HasHandle
<1> QED BY <1>1, CallsInvariant, HandlesInvariant, PTL
=============================================================================
