-------------------------- MODULE HighlightProofs --------------------------
(***************************************************************************)
(* The properties of JobList for any set of jobs and nodes, any growth of  *)
(* the list and any number of fetches; then that Highlight implements      *)
(* JobList, and keeps its fills in range, for any numbers of jobs, nodes,  *)
(* classes and alpha levels.                                               *)
(***************************************************************************)
EXTENDS Highlight, TLAPS

Slot == [id : Id, old : BOOLEAN]

-----------------------------------------------------------------------------
(* What a sequence becomes when a run of new elements is appended to it.   *)
LEMMA Appended ==
    ASSUME NEW S, NEW s \in Seq(S), NEW k \in Nat, NEW f \in [1 .. k -> S]
    PROVE  /\ s \o f \in Seq(S) /\ Len(s \o f) = Len(s) + k
           /\ \A n \in 1 .. Len(s) : (s \o f)[n] = s[n]
           /\ \A n \in 1 .. k : (s \o f)[Len(s) + n] = f[n]
<1>1. f \in Seq(S) /\ Len(f) = k
  OBVIOUS
<1> QED BY <1>1

LEMMA IsSeq ==
    ASSUME NEW S, NEW k \in Nat, NEW f \in [1 .. k -> S]
    PROVE  f \in Seq(S) /\ Len(f) = k
OBVIOUS

LEMMA NewId ==
    ASSUME NEW s \in Seq(Slot), NEW o, NEW j \in Id
    PROVE  /\ [s EXCEPT ![o].id = j] \in Seq(Slot)
           /\ Len([s EXCEPT ![o].id = j]) = Len(s)
<1> DEFINE t == [s EXCEPT ![o].id = j]
<1>1. ASSUME NEW n \in 1 .. Len(s) PROVE t[n] \in Slot
  <2>1. s[n] \in Slot
    OBVIOUS
  <2> QED BY <2>1 DEF Slot
<1>2. t \in [1 .. Len(s) -> Slot]
  <2>1. t = [n \in 1 .. Len(s) |-> IF n = o THEN [s[n] EXCEPT !.id = j] ELSE s[n]]
    OBVIOUS
  <2> HIDE DEF t
  <2> QED BY <1>1, <2>1
<1> HIDE DEF t
<1> QED BY <1>2, IsSeq DEF t

LEMMA Growth ==
    ASSUME TypeOK
    PROVE  /\ grown \in Seq(Nat) /\ grown_obj \in Seq(Slot) /\ grown_alpha \in Seq(Level)
           /\ Len(grown_obj) = Len(grown) /\ Len(grown_alpha) = Len(grown)
           /\ Len(data) <= Len(grown) /\ tcur + 1 \in 1 .. Len(grown)
           /\ \A n \in 1 .. Len(data) : grown[n] = data[n] /\ grown_obj[n] = obj[n]
           /\ \A n \in 1 .. Len(grown) :
                 n > Len(data) => grown[n] = n /\ grown_obj[n] = [id |-> 0, old |-> FALSE]
<1>0. /\ data \in Seq(Nat) /\ obj \in Seq(Slot) /\ alpha \in Seq(Level)
      /\ Len(data) = Len(obj) /\ Len(alpha) = Len(obj)
      /\ Len(data) \in Nat /\ tcur \in Nat /\ tcur <= Len(data)
      /\ Incr \in Nat /\ Incr > 0
  BY JobListAssumption DEF TypeOK, Slot
<1>1. CASE ~full
  BY <1>0, <1>1 DEF full, grown, grown_obj, grown_alpha
<1>2. CASE full
  <2> DEFINE d == [i \in 1 .. Incr |-> Len(data) + i]
             o == [i \in 1 .. Incr |-> [id |-> 0, old |-> FALSE]]
             a == [i \in 1 .. Incr |-> 0]
  <2>1. d \in [1 .. Incr -> Nat] /\ \A i \in 1 .. Incr : d[i] = Len(data) + i
    BY <1>0
  <2>2. o \in [1 .. Incr -> Slot] /\ \A i \in 1 .. Incr : o[i] = [id |-> 0, old |-> FALSE]
    BY DEF Slot, Id
  <2>3. a \in [1 .. Incr -> Level]
    BY JobListAssumption DEF Level
  <2>4. grown = data \o d /\ grown_obj = obj \o o /\ grown_alpha = alpha \o a
    BY <1>2 DEF grown, grown_obj, grown_alpha
  <2> HIDE DEF d, o, a
  <2>5. /\ grown \in Seq(Nat) /\ Len(grown) = Len(data) + Incr
        /\ \A n \in 1 .. Len(data) : grown[n] = data[n]
        /\ \A i \in 1 .. Incr : grown[Len(data) + i] = Len(data) + i
    <3>1. /\ data \o d \in Seq(Nat) /\ Len(data \o d) = Len(data) + Incr
          /\ \A n \in 1 .. Len(data) : (data \o d)[n] = data[n]
          /\ \A i \in 1 .. Incr : (data \o d)[Len(data) + i] = d[i]
      <4> DEFINE S == Nat
      <4>1. data \in Seq(S) /\ d \in [1 .. Incr -> S]
        BY <1>0, <2>1
      <4> HIDE DEF S
      <4>2. data \o d \in Seq(S)
        BY <1>0, <4>1, Appended
      <4>3. /\ Len(data \o d) = Len(data) + Incr
            /\ \A n \in 1 .. Len(data) : (data \o d)[n] = data[n]
            /\ \A i \in 1 .. Incr : (data \o d)[Len(data) + i] = d[i]
        <5>1. data \in Seq(S) /\ Incr \in Nat /\ d \in [1 .. Incr -> S]
          BY <1>0, <4>1
        <5> HIDE <1>0, <4>1
        <5> QED BY <5>1, Appended
      <4> QED BY <4>2, <4>3 DEF S
    <3> QED BY <2>1, <2>4, <3>1
  <2>6. /\ grown_obj \in Seq(Slot) /\ Len(grown_obj) = Len(data) + Incr
        /\ \A n \in 1 .. Len(data) : grown_obj[n] = obj[n]
        /\ \A i \in 1 .. Incr : grown_obj[Len(data) + i] = [id |-> 0, old |-> FALSE]
    <3>1. /\ obj \o o \in Seq(Slot) /\ Len(obj \o o) = Len(obj) + Incr
          /\ \A n \in 1 .. Len(obj) : (obj \o o)[n] = obj[n]
          /\ \A i \in 1 .. Incr : (obj \o o)[Len(obj) + i] = o[i]
      BY <1>0, <2>2, Appended
    <3> QED BY <1>0, <2>2, <2>4, <3>1
  <2>7. grown_alpha \in Seq(Level) /\ Len(grown_alpha) = Len(data) + Incr
    <3>1. alpha \o a \in Seq(Level) /\ Len(alpha \o a) = Len(alpha) + Incr
      <4>1. alpha \in Seq(Level) /\ Incr \in Nat /\ a \in [1 .. Incr -> Level]
        BY <1>0, <2>3
      <4> QED BY <4>1, Appended
    <3> QED BY <1>0, <2>4, <3>1
  <2>8. \A n \in 1 .. Len(data) + Incr :
           n > Len(data) => grown[n] = n /\ grown_obj[n] = [id |-> 0, old |-> FALSE]
    <3> SUFFICES ASSUME NEW n \in 1 .. Len(data) + Incr, n > Len(data)
                 PROVE  grown[n] = n /\ grown_obj[n] = [id |-> 0, old |-> FALSE]
      OBVIOUS
    <3> DEFINE i == n - Len(data)
    <3>1. i \in 1 .. Incr /\ Len(data) + i = n
      BY <1>0
    <3> HIDE DEF i
    <3> QED BY <2>5, <2>6, <3>1
  <2> QED BY <1>0, <2>5, <2>6, <2>7, <2>8
<1> QED BY <1>1, <1>2

-----------------------------------------------------------------------------
(* Types and sizes.                                                        *)

LEMMA TypeInit == Init => TypeOK
BY JobListAssumption DEF Init, TypeOK, NULL, NodeInfo

LEMMA BatchEndType ==
    ASSUME TypeOK, NEW t \in Nat, t <= Len(data), obj_batch_end(t),
           data' = data, Len(alpha') = Len(alpha), alpha' \in Seq(Level),
           node' \in [Node -> NodeInfo], pc' \in {"idle", "nodes", "jobs"}
    PROVE  TypeOK'
<1>0. /\ data \in Seq(Nat) /\ obj \in Seq(Slot) /\ Len(data) = Len(obj) /\ Len(obj) \in Nat
      /\ max \in Nat /\ max <= Len(data) /\ Len(alpha) = Len(obj)
  BY DEF TypeOK, Slot
<1>1. obj' \in Seq(Slot) /\ Len(obj') = Len(obj)
  <2>1. \A o \in Object : flags(t)[o] \in Slot
    <3> SUFFICES ASSUME NEW o \in Object PROVE flags(t)[o] \in Slot
      OBVIOUS
    <3>1. obj[o] \in Slot
      BY <1>0 DEF Object
    <3> QED BY <3>1 DEF flags, Slot
  <2>2. flags(t) \in [1 .. Len(obj) -> Slot]
    BY <2>1 DEF flags, Object
  <2> QED BY <1>0, <2>2, SMTT(40) DEF obj_batch_end
<1>2. cur' \in Nat /\ tcur' \in Nat /\ max' \in Nat /\ cur' <= max' /\ max' <= Len(data)
      /\ tcur' <= Len(data)
  BY <1>0 DEF obj_batch_end, larger
<1>3. was' \in [Job -> Nat]
  <2>1. \A n \in 1 .. t : data[n] \in Nat
    BY <1>0
  <2>2. ASSUME NEW j \in Job, \E n \in 1 .. t : id_at(n) = j
        PROVE  data[CHOOSE n \in 1 .. t : id_at(n) = j] \in Nat
    BY <2>1, <2>2
  <2> QED BY <2>2 DEF obj_batch_end, NULL
<1> QED BY <1>0, <1>1, <1>2, <1>3 DEF TypeOK, Slot

LEMMA TypeStep == TypeOK /\ [Next]_vars => TypeOK'
<1> SUFFICES ASSUME TypeOK, [Next]_vars PROVE TypeOK'
  OBVIOUS
<1>0. /\ data \in Seq(Nat) /\ obj \in Seq(Slot) /\ alpha \in Seq(Level)
      /\ Len(data) = Len(obj) /\ Len(alpha) = Len(obj) /\ Len(obj) \in Nat
      /\ tcur \in Nat /\ cur \in Nat /\ max \in Nat
      /\ cur <= max /\ max <= Len(data) /\ tcur <= Len(data)
      /\ node \in [Node -> NodeInfo] /\ was \in [Job -> Nat]
      /\ pc \in {"idle", "nodes", "jobs"}
  BY DEF TypeOK, Slot
<1>a. ASSUME NEW N, NEW o \in Nat, allocate(N, o) PROVE node' \in [Node -> NodeInfo]
  BY <1>0, <1>a DEF allocate, NodeInfo
<1>1. CASE UNCHANGED vars
  BY <1>1 DEF vars, list, TypeOK
<1>2. CASE fetch_malformed
  BY <1>0, <1>2, BatchEndType DEF fetch_malformed
<1>3. CASE parse_begin
  BY <1>0, <1>3 DEF parse_begin, TypeOK, NodeInfo, NULL, Slot
<1>4. CASE parse_out
  <2>1. alpha' \in [1 .. Len(alpha) -> Level]
    BY <1>0, <1>4, JobListAssumption DEF parse_out, Object, Level
  <2>2. alpha' \in Seq(Level) /\ Len(alpha') = Len(alpha)
    BY <1>0, <2>1, IsSeq
  <2> QED BY <1>0, <1>4, <2>2, BatchEndType DEF parse_out
<1>5. ASSUME NEW N \in SUBSET Node, apply_nodes(N) PROVE TypeOK'
  <2>1. node' \in [Node -> NodeInfo]
    BY <1>0, <1>5 DEF apply_nodes, NodeInfo
  <2> QED BY <1>0, <1>5, <2>1 DEF apply_nodes, list, TypeOK, Slot
<1>6. ASSUME NEW j \in Job, NEW N \in SUBSET Node, apply_job_again(j, N) PROVE TypeOK'
  <2>1. node' \in [Node -> NodeInfo]
    BY <1>0, <1>6, <1>a DEF apply_job_again
  <2> QED BY <1>0, <1>6, <2>1 DEF apply_job_again, list, TypeOK, Slot
<1>7. ASSUME NEW j \in Job, NEW N \in SUBSET Node, apply_job_known(j, N) PROVE TypeOK'
  <2> PICK n \in tcur + 1 .. max : /\ data' = swapped(n) /\ tcur' = tcur + 1
                                   /\ allocate(N, data[n])
                                   /\ UNCHANGED <<obj, alpha, cur, max, pc, was>>
    BY <1>7 DEF apply_job_known
  <2>1. node' \in [Node -> NodeInfo]
    BY <1>0, <1>a
  <2>2. data' \in Seq(Nat) /\ Len(data') = Len(data)
    BY <1>0 DEF swapped
  <2> QED BY <1>0, <2>1, <2>2 DEF TypeOK, Slot
<1>8. ASSUME NEW j \in Job, NEW N \in SUBSET Node, apply_job_new(j, N) PROVE TypeOK'
  <2> DEFINE o == grown[tcur + 1]
  <2>1. /\ grown \in Seq(Nat) /\ grown_obj \in Seq(Slot) /\ grown_alpha \in Seq(Level)
        /\ Len(grown_obj) = Len(grown) /\ Len(grown_alpha) = Len(grown)
        /\ Len(data) <= Len(grown) /\ tcur + 1 \in 1 .. Len(grown)
    BY Growth
  <2>2. o \in Nat
    BY <2>1
  <2> HIDE DEF o
  <2>3. node' \in [Node -> NodeInfo]
    BY <1>8, <1>a, <2>2 DEF apply_job_new, o
  <2>4. obj' = [grown_obj EXCEPT ![o].id = j] /\ j \in Id
    BY <1>8 DEF apply_job_new, o, Id
  <2>5. obj' \in Seq(Slot) /\ Len(obj') = Len(grown_obj)
    BY <2>1, <2>4, NewId, ZenonT(40)
  <2>6. data' = grown /\ alpha' = grown_alpha /\ tcur' = tcur + 1 /\ UNCHANGED <<cur, max, pc, was>>
    BY <1>8 DEF apply_job_new
  <2>7. tcur' \in Nat /\ tcur' <= Len(data') /\ max' <= Len(data')
    BY <1>0, <2>1, <2>6
  <2> QED BY <1>0, <2>1, <2>3, <2>5, <2>6, <2>7 DEF TypeOK, Slot
<1>9. CASE paint
  <2>1. alpha' \in Seq(Level) /\ Len(alpha') = Len(obj)
    BY <1>0, <1>9, IsSeq DEF paint, Object
  <2> QED BY <1>0, <1>9, <2>1 DEF paint, TypeOK, Slot
<1> QED BY <1>1, <1>2, <1>3, <1>4, <1>5, <1>6, <1>7, <1>8, <1>9 DEF Next, Fetch

-----------------------------------------------------------------------------
(* The list: every position has an object of its own, the jobs of the      *)
(* fetch are at its start, and what lies beyond ol_max was never used.     *)

Pos == 1 .. Len(data)

ListInv ==
    /\ \A n \in Pos : data[n] \in Object
    /\ OneObjectPerJob
    /\ \A n \in Pos : n > larger(tcur, max) => id_at(n) = 0 /\ ~obj[data[n]].old
    /\ \A n \in 1 .. tcur : id_at(n) # 0
    /\ pc = "idle" => tcur <= max

LEMMA ListInit == Init => ListInv
BY DEF Init, ListInv, OneObjectPerJob, larger, Pos, Object

(* The end of a batch of t jobs changes no id and leaves the flag set on   *)
(* those t objects only; the history has them, and no others.              *)
LEMMA EndBatch ==
    ASSUME TypeOK, ListInv, NEW t \in Nat, t <= tcur,
           larger(t, max) = larger(tcur, max), obj_batch_end(t)
    PROVE  /\ Len(obj') = Len(obj)
           /\ \A o \in Object : obj'[o].id = obj[o].id
           /\ \A n \in Pos : obj'[data[n]].old <=> n <= t
           /\ \A n \in 1 .. t : id_at(n) \in Job /\ was'[id_at(n)] = data[n]
           /\ \A j \in Job : was'[j] # NULL =>
                 \E n \in 1 .. t : id_at(n) = j /\ was'[j] = data[n]
<1>0. /\ data \in Seq(Nat) /\ obj \in Seq(Slot) /\ Len(data) = Len(obj) /\ Len(obj) \in Nat
      /\ tcur \in Nat /\ max \in Nat /\ max <= Len(data) /\ tcur <= Len(data)
  BY DEF TypeOK, Slot
<1>o. \A o \in Object : obj[o] \in Slot
  BY <1>0 DEF Object
<1>1. obj' = flags(t) /\ Len(obj') = Len(obj)
  <2>1. flags(t) = [o \in 1 .. Len(obj) |-> flags(t)[o]]
    BY DEF flags, Object
  <2>2. \A o \in 1 .. Len(obj) : flags(t)[o] \in Slot
    BY <1>o DEF flags, Slot, Object
  <2>3. flags(t) \in [1 .. Len(obj) -> Slot]
    BY <2>1, <2>2
  <2> QED BY <1>0, <2>3, IsSeq DEF obj_batch_end
<1>2. \A o \in Object : obj'[o].id = obj[o].id
  BY <1>o, <1>1 DEF flags, Slot
<1>3. ASSUME NEW n \in Pos PROVE obj'[data[n]].old <=> n <= t
  <2>1. data[n] \in Object /\ obj[data[n]] \in Slot
    BY <1>o DEF ListInv
  <2>2. \A m \in Pos : data[m] = data[n] => m = n
    BY DEF ListInv, OneObjectPerJob, Pos
  <2>3. 1 .. t \subseteq Pos /\ t + 1 .. larger(max, t) \subseteq Pos
    BY <1>0 DEF larger, Pos
  <2>4. CASE n <= t
    <3>1. \E m \in 1 .. t : data[m] = data[n]
      BY <2>4 DEF Pos
    <3> QED BY <1>1, <2>1, <2>4, <3>1 DEF flags, Slot
  <2>5. CASE n > t /\ n <= larger(max, t)
    <3>1. ~ \E m \in 1 .. t : data[m] = data[n]
      BY <2>2, <2>3, <2>5
    <3>2. \E m \in t + 1 .. larger(max, t) : data[m] = data[n]
      BY <1>0, <2>5 DEF Pos, larger
    <3>3. obj'[data[n]].old = FALSE
      BY <1>1, <2>1, <3>1, <3>2 DEF flags, Slot
    <3> QED BY <1>0, <2>5, <3>3 DEF Pos
  <2>6. CASE n > t /\ n > larger(max, t)
    <3>1. ~ \E m \in 1 .. t : data[m] = data[n]
      BY <2>2, <2>3, <2>6
    <3>2. ~ \E m \in t + 1 .. larger(max, t) : data[m] = data[n]
      BY <1>0, <2>2, <2>3, <2>6 DEF larger
    <3>3. ~obj[data[n]].old
      BY <1>0, <2>6 DEF ListInv, larger
    <3>4. obj'[data[n]].old = obj[data[n]].old
      BY <1>1, <2>1, <3>1, <3>2 DEF flags, Slot
    <3> QED BY <1>0, <2>6, <3>3, <3>4 DEF Pos
  <2> QED BY <1>0, <2>4, <2>5, <2>6 DEF Pos, larger
<1>4. ASSUME NEW n \in 1 .. t PROVE id_at(n) \in Job /\ was'[id_at(n)] = data[n]
  <2>1. n \in Pos /\ id_at(n) # 0 /\ obj[data[n]] \in Slot
    BY <1>0, <1>o DEF Pos, ListInv
  <2>2. id_at(n) \in Job
    BY <2>1 DEF id_at, Slot, Id
  <2>3. \A m \in 1 .. t : id_at(m) = id_at(n) => m = n
    BY <1>0, <2>1 DEF ListInv, OneObjectPerJob, Pos
  <2>4. (CHOOSE m \in 1 .. t : id_at(m) = id_at(n)) = n
    BY <2>3
  <2> QED BY <2>2, <2>4 DEF obj_batch_end
<1>5. ASSUME NEW j \in Job, was'[j] # NULL
      PROVE  \E n \in 1 .. t : id_at(n) = j /\ was'[j] = data[n]
  <2>1. \E n \in 1 .. t : id_at(n) = j
    BY <1>5 DEF obj_batch_end
  <2> QED BY <1>4, <2>1
<1> QED BY <1>1, <1>2, <1>3, <1>4, <1>5

(* obj_get() swaps two positions ...                                       *)
LEMMA KnownView ==
    ASSUME TypeOK, NEW n \in tcur + 1 .. max, data' = swapped(n)
    PROVE  /\ Len(data') = Len(data) /\ n \in Pos /\ tcur + 1 \in Pos
           /\ data'[tcur + 1] = data[n]
           /\ n # tcur + 1 => data'[n] = data[tcur + 1]
           /\ \A m \in Pos : m # n /\ m # tcur + 1 => data'[m] = data[m]
<1>0. /\ data \in Seq(Nat) /\ tcur \in Nat /\ max \in Nat /\ max <= Len(data)
  BY DEF TypeOK
<1>1. n \in Pos /\ tcur + 1 \in Pos
  BY <1>0 DEF Pos
<1> QED BY <1>0, <1>1 DEF swapped, Pos

(* ... or hands out the object at ol_tcur, which may be a fresh one.       *)
LEMMA NewView ==
    ASSUME TypeOK, ListInv, NEW j \in Job, NEW N, apply_job_new(j, N)
    PROVE  /\ Len(data) <= Len(data') /\ Len(obj') = Len(data') /\ tcur + 1 \in Pos'
           /\ \A n \in Pos : n \in Pos' /\ data'[n] = data[n]
           /\ \A n \in Pos' : data'[n] \in Object'
           /\ \A m, n \in Pos' : data'[m] = data'[n] => m = n
           /\ obj'[data'[tcur + 1]].id = j
           /\ tcur + 1 \in Pos => obj'[data'[tcur + 1]].old = obj[data[tcur + 1]].old
           /\ tcur + 1 \notin Pos => ~obj'[data'[tcur + 1]].old
           /\ \A n \in Pos : n # tcur + 1 => obj'[data'[n]] = obj[data[n]]
           /\ \A n \in Pos' : n \notin Pos /\ n # tcur + 1
                 => obj'[data'[n]] = [id |-> 0, old |-> FALSE]
<1>0. /\ data \in Seq(Nat) /\ obj \in Seq(Slot) /\ Len(data) = Len(obj) /\ Len(obj) \in Nat
      /\ tcur \in Nat /\ tcur <= Len(data)
  BY DEF TypeOK, Slot
<1>1. /\ grown \in Seq(Nat) /\ grown_obj \in Seq(Slot)
      /\ Len(grown_obj) = Len(grown)
      /\ Len(data) <= Len(grown) /\ tcur + 1 \in 1 .. Len(grown)
      /\ \A n \in 1 .. Len(data) : grown[n] = data[n] /\ grown_obj[n] = obj[n]
      /\ \A n \in 1 .. Len(grown) :
            n > Len(data) => grown[n] = n /\ grown_obj[n] = [id |-> 0, old |-> FALSE]
  BY Growth
<1> DEFINE o == grown[tcur + 1]
<1>2. data' = grown /\ obj' = [grown_obj EXCEPT ![o].id = j]
  BY DEF apply_job_new
<1>3. \A n \in Pos : data[n] \in 1 .. Len(data)
  BY <1>0 DEF ListInv, Object
<1>4. \A m, n \in Pos : data[m] = data[n] => m = n
  BY DEF ListInv, OneObjectPerJob, Pos
<1>5. \A n \in 1 .. Len(grown) : grown[n] \in 1 .. Len(grown)
  <2> SUFFICES ASSUME NEW n \in 1 .. Len(grown) PROVE grown[n] \in 1 .. Len(grown)
    OBVIOUS
  <2>1. n \in Nat /\ Len(grown) \in Nat
    BY <1>1
  <2>2. CASE n > Len(data)
    BY <1>1, <2>2
  <2>3. CASE n <= Len(data)
    <3>1. grown[n] = data[n] /\ data[n] \in 1 .. Len(data)
      BY <1>1, <1>3, <2>3 DEF Pos
    <3> QED BY <1>0, <1>1, <2>1, <3>1
  <2> QED BY <1>0, <2>1, <2>2, <2>3
<1>6. \A m, n \in 1 .. Len(grown) : grown[m] = grown[n] => m = n
  <2>1. \A n \in 1 .. Len(grown) :
           \/ n \in Pos /\ grown[n] = data[n]
           \/ n > Len(data) /\ grown[n] = n
    <3> TAKE n \in 1 .. Len(grown)
    <3>1. CASE n > Len(data)
      <4>1. grown[n] = n
        BY <1>1, <3>1
      <4> QED BY <3>1, <4>1
    <3>2. CASE ~(n > Len(data))
      <4>1. n \in 1 .. Len(data)
        BY <1>0, <1>1, <3>2
      <4>2. grown[n] = data[n]
        BY <1>1, <4>1
      <4> QED BY <4>1, <4>2 DEF Pos
    <3> QED BY <3>1, <3>2
  <2> QED BY <1>0, <1>3, <1>4, <2>1
<1>7. o \in 1 .. Len(grown)
  BY <1>1, <1>5
<1> HIDE DEF o
<1>8. obj' \in Seq(Slot) /\ Len(obj') = Len(grown)
  BY <1>1, <1>2, NewId DEF Id
<1>9. /\ \A q \in 1 .. Len(grown) : q # o => obj'[q] = grown_obj[q]
      /\ obj'[o] = [grown_obj[o] EXCEPT !.id = j]
  BY <1>1, <1>2, <1>7, SMTT(40)
<1>10. grown_obj[o] \in Slot
  BY <1>1, <1>7
<1>11. obj'[o].id = j /\ obj'[o].old = grown_obj[o].old
  BY <1>9, <1>10 DEF Slot
<1>12. \A n \in 1 .. Len(grown) : n # tcur + 1 => obj'[grown[n]] = grown_obj[grown[n]]
  BY <1>1, <1>5, <1>6, <1>9 DEF o
<1>13. \A n \in Pos : n \in 1 .. Len(grown) /\ grown_obj[grown[n]] = obj[data[n]]
  BY <1>0, <1>1, <1>3 DEF Pos
<1>14. \A n \in 1 .. Len(grown) : n \notin Pos => grown_obj[grown[n]] = [id |-> 0, old |-> FALSE]
  BY <1>0, <1>1 DEF Pos
<1> QED
  <2>1. /\ Len(data) <= Len(data') /\ Len(obj') = Len(data') /\ tcur + 1 \in Pos'
        /\ \A n \in Pos : n \in Pos' /\ data'[n] = data[n]
        /\ \A n \in Pos' : data'[n] \in Object'
        /\ \A m, n \in Pos' : data'[m] = data'[n] => m = n
    BY <1>1, <1>2, <1>5, <1>6, <1>8, <1>13 DEF Pos, Object
  <2>2. /\ obj'[data'[tcur + 1]].id = j
        /\ tcur + 1 \in Pos => obj'[data'[tcur + 1]].old = obj[data[tcur + 1]].old
        /\ tcur + 1 \notin Pos => ~obj'[data'[tcur + 1]].old
    BY <1>1, <1>2, <1>11, <1>13, <1>14 DEF o
  <2>3. \A n \in Pos : n # tcur + 1 => obj'[data'[n]] = obj[data[n]]
    BY <1>2, <1>12, <1>13
  <2>4. \A n \in Pos' : n \notin Pos /\ n # tcur + 1
                 => obj'[data'[n]] = [id |-> 0, old |-> FALSE]
    BY <1>2, <1>12, <1>14 DEF Pos
  <2> QED BY <2>1, <2>2, <2>3, <2>4

(* The end of a batch keeps the list as it is.                             *)
LEMMA EndBatchList ==
    ASSUME TypeOK, ListInv, NEW t \in Nat, t <= tcur,
           larger(t, max) = larger(tcur, max), obj_batch_end(t), data' = data
    PROVE  ListInv'
<1>0. /\ Len(obj') = Len(obj) /\ Len(data) = Len(obj) /\ Len(obj) \in Nat
      /\ tcur \in Nat /\ max \in Nat /\ max <= Len(data) /\ tcur <= Len(data)
      /\ tcur' = t /\ max' = larger(max, t)
  <2>1. Len(obj') = Len(obj)
    BY EndBatch
  <2> QED BY <2>1 DEF TypeOK, obj_batch_end
<1>1. \A n \in Pos : data[n] \in Object /\ id_at(n)' = id_at(n)
  BY EndBatch DEF ListInv, id_at
<1>2. \A n \in Pos : obj'[data[n]].old <=> n <= t
  BY EndBatch
<1>3. OneObjectPerJob'
  BY <1>1 DEF ListInv, OneObjectPerJob, Pos
<1>4. larger(tcur', max') = larger(tcur, max) /\ tcur' <= max'
  BY <1>0 DEF larger
<1>5. \A n \in Pos : n > larger(tcur, max) => id_at(n)' = 0 /\ ~obj'[data[n]].old
  <2>1. \A n \in Pos : n > larger(tcur, max) => ~(n <= t)
    BY <1>0 DEF larger, Pos
  <2> QED BY <1>1, <1>2, <2>1 DEF ListInv
<1>6. \A n \in 1 .. t : id_at(n)' # 0
  <2>1. \A n \in 1 .. t : n \in Pos /\ n \in 1 .. tcur
    BY <1>0 DEF Pos
  <2> QED BY <1>1, <2>1 DEF ListInv
<1> QED BY <1>0, <1>1, <1>3, <1>4, <1>5, <1>6 DEF ListInv, Pos, Object

LEMMA ListStep == TypeOK /\ TypeOK' /\ ListInv /\ [Next]_vars => ListInv'
<1> SUFFICES ASSUME TypeOK, TypeOK', ListInv, [Next]_vars PROVE ListInv'
  OBVIOUS
<1>0. /\ Len(data) = Len(obj) /\ Len(obj) \in Nat
      /\ tcur \in Nat /\ max \in Nat /\ max <= Len(data) /\ tcur <= Len(data)
  BY DEF TypeOK
<1>a. ASSUME UNCHANGED <<data, obj, tcur, max>>, pc' # "idle" \/ pc' = pc
      PROVE  ListInv'
  BY <1>a DEF ListInv, OneObjectPerJob, larger, id_at, Pos, Object
<1>1. CASE UNCHANGED vars
  BY <1>1, <1>a DEF vars, list
<1>2. CASE fetch_malformed
  <2>1. larger(0, max) = larger(tcur, max)
    BY <1>0, <1>2 DEF fetch_malformed, ListInv, larger
  <2> QED BY <1>0, <1>2, <2>1, EndBatchList DEF fetch_malformed
<1>3. CASE parse_begin
  <2>1. larger(tcur', max') = larger(tcur, max) /\ tcur' = 0 /\ pc' = "nodes"
        /\ UNCHANGED <<data, obj, max>>
    BY <1>0, <1>3 DEF parse_begin, ListInv, larger
  <2> QED BY <2>1 DEF ListInv, OneObjectPerJob, id_at, Pos, Object
<1>4. CASE parse_out
  BY <1>0, <1>4, EndBatchList DEF parse_out
<1>5. ASSUME NEW N \in SUBSET Node, apply_nodes(N) PROVE ListInv'
  BY <1>5, <1>a DEF apply_nodes, list
<1>6. ASSUME NEW j \in Job, NEW N \in SUBSET Node, apply_job_again(j, N) PROVE ListInv'
  BY <1>6, <1>a DEF apply_job_again, list
<1>7. ASSUME NEW j \in Job, NEW N \in SUBSET Node, apply_job_known(j, N) PROVE ListInv'
  <2> PICK n \in tcur + 1 .. max : /\ data' = swapped(n) /\ tcur' = tcur + 1
                                   /\ pc = "jobs" /\ id_at(n) = j
                                   /\ UNCHANGED <<obj, alpha, cur, max, pc, was>>
    BY <1>7 DEF apply_job_known
  <2>1. /\ Len(data') = Len(data) /\ n \in Pos /\ tcur + 1 \in Pos
        /\ data'[tcur + 1] = data[n]
        /\ n # tcur + 1 => data'[n] = data[tcur + 1]
        /\ \A m \in Pos : m # n /\ m # tcur + 1 => data'[m] = data[m]
    BY KnownView
  (* The object now at a position is one that was at some position before. *)
  <2> DEFINE from(m) == IF m = tcur + 1 THEN n ELSE IF m = n THEN tcur + 1 ELSE m
  <2>2. \A m \in Pos : from(m) \in Pos /\ data'[m] = data[from(m)]
    BY <2>1
  <2>3. \A m, q \in Pos : from(m) = from(q) => m = q
    OBVIOUS
  <2>4. \A m \in Pos : m > larger(tcur', max') =>
           from(m) = m /\ m > larger(tcur, max)
    BY <1>0 DEF larger, Pos
  <2>5. \A m \in 1 .. tcur : m \in Pos /\ from(m) = m
    BY <1>0 DEF Pos
  <2>6. j # 0 /\ from(tcur + 1) = n
    BY JobListAssumption
  <2> HIDE DEF from
  <2>7. \A m \in Pos : data'[m] \in Object /\ obj'[data'[m]].id = id_at(from(m))
                        /\ obj'[data'[m]].old = obj[data[from(m)]].old
    BY <2>2 DEF ListInv, id_at
  <2>8. OneObjectPerJob'
    <3>1. /\ \A m, q \in Pos : data[m] = data[q] => m = q
          /\ \A m, q \in Pos : id_at(m) = id_at(q) /\ id_at(m) # 0 => m = q
      BY DEF ListInv, OneObjectPerJob, Pos
    <3>2. \A m, q \in Pos : data'[m] = data'[q] => m = q
      BY <2>2, <2>3, <3>1
    <3>3. \A m, q \in Pos :
             obj'[data'[m]].id = obj'[data'[q]].id /\ obj'[data'[m]].id # 0 => m = q
      BY <2>2, <2>3, <2>7, <3>1
    <3> QED BY <2>1, <3>2, <3>3 DEF OneObjectPerJob, Pos, id_at
  <2>9. \A m \in Pos : m > larger(tcur', max') => obj'[data'[m]].id = 0 /\ ~obj'[data'[m]].old
    <3> SUFFICES ASSUME NEW m \in Pos, m > larger(tcur', max')
                 PROVE  obj'[data'[m]].id = 0 /\ ~obj'[data'[m]].old
      OBVIOUS
    <3>1. from(m) = m /\ m > larger(tcur, max)
      BY <2>4
    <3>2. id_at(m) = 0 /\ ~obj[data[m]].old
      BY <3>1 DEF ListInv
    <3> QED BY <2>7, <3>1, <3>2
  <2>10. \A m \in 1 .. tcur' : obj'[data'[m]].id # 0
    <3>1. \A m \in 1 .. tcur' : m \in 1 .. tcur \/ m = tcur + 1
      BY <1>0
    <3>2. \A m \in 1 .. tcur : obj'[data'[m]].id # 0
      BY <2>5, <2>7 DEF ListInv
    <3>3. obj'[data'[tcur + 1]].id # 0
      BY <2>1, <2>6, <2>7
    <3> QED BY <3>1, <3>2, <3>3
  <2> QED BY <2>1, <2>7, <2>8, <2>9, <2>10 DEF ListInv, Pos, Object, id_at
<1>8. ASSUME NEW j \in Job, NEW N \in SUBSET Node, apply_job_new(j, N) PROVE ListInv'
  <2>0. /\ tcur' = tcur + 1 /\ UNCHANGED <<max, pc>> /\ pc = "jobs"
        /\ \A n \in 1 .. larger(tcur, max) : id_at(n) # j
    BY <1>8 DEF apply_job_new
  <2>1. /\ Len(data) <= Len(data') /\ Len(obj') = Len(data') /\ tcur + 1 \in Pos'
        /\ \A n \in Pos : n \in Pos' /\ data'[n] = data[n]
        /\ \A n \in Pos' : data'[n] \in Object'
        /\ \A m, n \in Pos' : data'[m] = data'[n] => m = n
        /\ obj'[data'[tcur + 1]].id = j
        /\ \A n \in Pos : n # tcur + 1 => obj'[data'[n]] = obj[data[n]]
        /\ \A n \in Pos' : n \notin Pos /\ n # tcur + 1
              => obj'[data'[n]] = [id |-> 0, old |-> FALSE]
    BY <1>8, NewView
  <2>2. \A n \in Pos : n # tcur + 1 => obj'[data'[n]].id = id_at(n)
    BY <2>1 DEF id_at
  <2>3. \A n \in Pos' : n \notin Pos /\ n # tcur + 1 => obj'[data'[n]].id = 0
    BY <2>1 DEF id_at
  <2>4. obj'[data'[tcur + 1]].id = j /\ j # 0
    BY <2>1, JobListAssumption DEF id_at
  <2>5. \A n \in Pos : id_at(n) # j
    <3>1. \A n \in Pos : n \in 1 .. larger(tcur, max) \/ n > larger(tcur, max)
      BY <1>0 DEF larger, Pos
    <3> QED BY <2>0, <2>4, <3>1 DEF ListInv
  <2>6. \A m, n \in Pos' : obj'[data'[m]].id = obj'[data'[n]].id /\ obj'[data'[m]].id # 0 => m = n
    <3> SUFFICES ASSUME NEW m \in Pos', NEW n \in Pos',
                        obj'[data'[m]].id = obj'[data'[n]].id, obj'[data'[m]].id # 0
                 PROVE  m = n
      OBVIOUS
    <3>1. (m \in Pos \/ m = tcur + 1) /\ (n \in Pos \/ n = tcur + 1)
      BY <2>3
    <3>2. CASE m # tcur + 1 /\ n # tcur + 1
      BY <2>2, <3>1, <3>2 DEF ListInv, OneObjectPerJob, Pos
    <3> QED BY <2>2, <2>4, <2>5, <3>1, <3>2
  <2>7. OneObjectPerJob'
    BY <2>1, <2>6 DEF OneObjectPerJob, Pos, id_at
  <2>8. \A n \in Pos' : n > larger(tcur', max') => obj'[data'[n]].id = 0 /\ ~obj'[data'[n]].old
    <3> SUFFICES ASSUME NEW n \in Pos', n > larger(tcur', max')
                 PROVE  obj'[data'[n]].id = 0 /\ ~obj'[data'[n]].old
      OBVIOUS
    <3>1. n # tcur + 1 /\ n > larger(tcur, max)
      BY <1>0, <2>0 DEF larger, Pos
    <3>2. CASE n \in Pos
      BY <2>1, <2>2, <3>1, <3>2 DEF ListInv
    <3>3. CASE n \notin Pos
      BY <2>1, <2>3, <3>1, <3>3
    <3> QED BY <3>2, <3>3
  <2>9. \A n \in 1 .. tcur' : obj'[data'[n]].id # 0
    <3>1. \A n \in 1 .. tcur' : n = tcur + 1 \/ (n \in 1 .. tcur /\ n \in Pos /\ n # tcur + 1)
      BY <1>0, <2>0 DEF Pos
    <3>2. \A n \in 1 .. tcur : n \in Pos /\ n # tcur + 1 => obj'[data'[n]].id # 0
      BY <2>2 DEF ListInv
    <3> QED BY <2>4, <3>1, <3>2
  <2> QED BY <2>0, <2>1, <2>7, <2>8, <2>9 DEF ListInv, id_at
<1>9. CASE paint
  BY <1>9, <1>a DEF paint
<1> QED BY <1>1, <1>2, <1>3, <1>4, <1>5, <1>6, <1>7, <1>8, <1>9 DEF Next, Fetch

-----------------------------------------------------------------------------
(* The list against the history: the flag marks the objects of the last    *)
(* fetch, and those objects are still of the same jobs as long as no job   *)
(* has come up that the last fetch did not list.                           *)

NoNew == \A n \in 1 .. tcur : was[id_at(n)] # NULL

HistInv ==
    /\ \A j \in Job : was[j] # NULL => \E n \in Pos : data[n] = was[j]
    /\ \A n \in Pos : obj[data[n]].old <=> \E j \in Job : was[j] = data[n]
    /\ NoNew => \A j \in Job : was[j] # NULL => obj[was[j]].id = j
    /\ pc = "idle" => cur = tcur /\ \A n \in 1 .. tcur : was[id_at(n)] = data[n]
    /\ pc = "nodes" => tcur = 0

LEMMA HistInit == Init => HistInv
BY DEF Init, HistInv, NoNew, Pos, NULL

LEMMA Ids ==
    ASSUME TypeOK, ListInv
    PROVE  /\ Len(data) = Len(obj) /\ Len(obj) \in Nat
           /\ tcur \in Nat /\ max \in Nat /\ tcur <= Len(data) /\ max <= Len(data)
           /\ \A n \in Pos : data[n] \in Object /\ data[n] # NULL
           /\ \A n \in 1 .. tcur : n \in Pos /\ id_at(n) \in Job /\ id_at(n) # 0
           /\ \A m, n \in Pos : data[m] = data[n] => m = n
           /\ \A m, n \in Pos : id_at(m) = id_at(n) /\ id_at(m) # 0 => m = n
<1>0. /\ obj \in Seq(Slot) /\ Len(data) = Len(obj) /\ Len(obj) \in Nat
      /\ tcur \in Nat /\ max \in Nat /\ tcur <= Len(data) /\ max <= Len(data)
  BY DEF TypeOK, Slot
<1>1. \A n \in Pos : data[n] \in Object /\ data[n] # NULL
  BY <1>0 DEF ListInv, Object, NULL
<1>2. \A n \in Pos : id_at(n) \in Id
  <2>1. \A o \in Object : obj[o] \in Slot
    BY <1>0 DEF Object
  <2> QED BY <1>1, <2>1 DEF id_at, Slot
<1>3. \A n \in 1 .. tcur : n \in Pos
  BY <1>0 DEF Pos
<1>4. \A n \in 1 .. tcur : id_at(n) \in Job /\ id_at(n) # 0
  BY <1>2, <1>3 DEF ListInv, Id
<1> QED BY <1>0, <1>1, <1>3, <1>4 DEF ListInv, OneObjectPerJob, Pos

LEMMA EndBatchHist ==
    ASSUME TypeOK, ListInv, NEW t \in Nat, t <= tcur,
           larger(t, max) = larger(tcur, max), obj_batch_end(t), data' = data, pc' = "idle"
    PROVE  HistInv'
<1>1. /\ \A o \in Object : obj'[o].id = obj[o].id
      /\ \A n \in Pos : obj'[data[n]].old <=> n <= t
      /\ \A n \in 1 .. t : id_at(n) \in Job /\ was'[id_at(n)] = data[n]
      /\ \A j \in Job : was'[j] # NULL =>
            \E n \in 1 .. t : id_at(n) = j /\ was'[j] = data[n]
  BY EndBatch
<1>2. /\ \A n \in Pos : data[n] \in Object /\ data[n] # NULL
      /\ \A m, n \in Pos : data[m] = data[n] => m = n
  BY Ids
<1>3. \A n \in 1 .. t : n \in Pos
  BY Ids DEF Pos
<1>4. cur' = t /\ tcur' = t
  BY DEF obj_batch_end
<1>5. \A n \in Pos : obj'[data[n]].old <=> \E j \in Job : was'[j] = data[n]
  <2> TAKE n \in Pos
  <2>1. ASSUME n <= t PROVE \E j \in Job : was'[j] = data[n]
    <3>1. n \in 1 .. t
      BY <2>1 DEF Pos
    <3> QED BY <1>1, <3>1
  <2>2. ASSUME NEW j \in Job, was'[j] = data[n] PROVE n <= t
    <3>1. PICK m \in 1 .. t : was'[j] = data[m]
      BY <1>1, <1>2, <2>2
    <3>2. m = n
      BY <1>2, <1>3, <2>2, <3>1
    <3> QED BY <3>2
  <2> QED BY <1>1, <2>1, <2>2
<1>6. \A j \in Job : was'[j] # NULL => \E n \in Pos : data[n] = was'[j]
  BY <1>1, <1>3
<1>7. \A j \in Job : was'[j] # NULL => obj'[was'[j]].id = j
  BY <1>1, <1>2, <1>3 DEF id_at
<1>8. \A n \in 1 .. t : obj'[data[n]].id = id_at(n)
  BY <1>1, <1>2, <1>3 DEF id_at
<1>9. \A n \in 1 .. t : was'[obj'[data[n]].id] = data[n]
  BY <1>1, <1>8
<1> QED BY <1>4, <1>5, <1>6, <1>7, <1>9 DEF HistInv, Pos, id_at

LEMMA HistStep == TypeOK /\ ListInv /\ HistInv /\ [Next]_vars => HistInv'
<1> SUFFICES ASSUME TypeOK, ListInv, HistInv, [Next]_vars PROVE HistInv'
  OBVIOUS
<1>0. /\ tcur \in Nat /\ max \in Nat /\ tcur <= Len(data) /\ Len(data) \in Nat
      /\ \A n \in Pos : data[n] \in Object /\ data[n] # NULL
      /\ \A n \in 1 .. tcur : n \in Pos /\ id_at(n) \in Job /\ id_at(n) # 0
      /\ \A m, n \in Pos : data[m] = data[n] => m = n
      /\ \A m, n \in Pos : id_at(m) = id_at(n) /\ id_at(m) # 0 => m = n
  BY Ids
<1>a. ASSUME UNCHANGED <<data, obj, tcur, cur, was>>, pc' = "jobs" \/ pc' = pc
      PROVE  HistInv'
  BY <1>a DEF HistInv, NoNew, id_at, Pos
<1>1. CASE UNCHANGED vars
  BY <1>1, <1>a DEF vars, list
<1>2. CASE fetch_malformed
  <2>1. larger(0, max) = larger(tcur, max)
    BY <1>0, <1>2 DEF fetch_malformed, ListInv, larger
  <2> QED BY <1>0, <1>2, <2>1, EndBatchHist DEF fetch_malformed
<1>3. CASE parse_begin
  <2>1. NoNew
    BY <1>0, <1>3 DEF parse_begin, HistInv, NoNew
  <2> QED BY <1>3, <2>1 DEF parse_begin, HistInv, NoNew, Pos
<1>4. CASE parse_out
  BY <1>0, <1>4, EndBatchHist DEF parse_out
<1>5. ASSUME NEW N \in SUBSET Node, apply_nodes(N) PROVE HistInv'
  BY <1>5, <1>a DEF apply_nodes, list
<1>6. ASSUME NEW j \in Job, NEW N \in SUBSET Node, apply_job_again(j, N) PROVE HistInv'
  BY <1>6, <1>a DEF apply_job_again, list
<1>7. ASSUME NEW j \in Job, NEW N \in SUBSET Node, apply_job_known(j, N) PROVE HistInv'
  <2> PICK n \in tcur + 1 .. max : /\ data' = swapped(n) /\ tcur' = tcur + 1
                                   /\ pc = "jobs"
                                   /\ UNCHANGED <<obj, cur, max, pc, was>>
    BY <1>7 DEF apply_job_known
  <2>1. /\ Len(data') = Len(data) /\ n \in Pos /\ tcur + 1 \in Pos
        /\ data'[tcur + 1] = data[n]
        /\ n # tcur + 1 => data'[n] = data[tcur + 1]
        /\ \A m \in Pos : m # n /\ m # tcur + 1 => data'[m] = data[m]
    BY KnownView
  <2>2. \A m \in Pos : \E q \in Pos : data'[m] = data[q]
    BY <2>1
  <2>3. \A m \in Pos : \E q \in Pos : data[m] = data'[q]
    BY <2>1
  <2>4. \A m \in 1 .. tcur : data'[m] = data[m] /\ m \in 1 .. tcur'
    BY <1>0, <2>1 DEF Pos
  <2>5. NoNew' => NoNew
    BY <2>4 DEF NoNew, id_at
  <2>6. \A j2 \in Job : was[j2] # NULL => \E m \in Pos : data'[m] = was[j2]
    BY <2>3 DEF HistInv
  <2>7. \A m \in Pos : obj[data'[m]].old <=> \E j2 \in Job : was[j2] = data'[m]
    BY <2>2 DEF HistInv
  <2> QED BY <2>1, <2>5, <2>6, <2>7 DEF HistInv, Pos
<1>8. ASSUME NEW j \in Job, NEW N \in SUBSET Node, apply_job_new(j, N) PROVE HistInv'
  <2>0. /\ tcur' = tcur + 1 /\ UNCHANGED <<max, pc, was>> /\ pc = "jobs"
        /\ \A n \in 1 .. larger(tcur, max) : id_at(n) # j
    BY <1>8 DEF apply_job_new
  <2>1. /\ Len(data) <= Len(data') /\ Len(obj') = Len(data') /\ tcur + 1 \in Pos'
        /\ \A n \in Pos : n \in Pos' /\ data'[n] = data[n]
        /\ \A n \in Pos' : data'[n] \in Object'
        /\ \A m, n \in Pos' : data'[m] = data'[n] => m = n
        /\ obj'[data'[tcur + 1]].id = j
        /\ tcur + 1 \in Pos => obj'[data'[tcur + 1]].old = obj[data[tcur + 1]].old
        /\ tcur + 1 \notin Pos => ~obj'[data'[tcur + 1]].old
        /\ \A n \in Pos : n # tcur + 1 => obj'[data'[n]] = obj[data[n]]
        /\ \A n \in Pos' : n \notin Pos /\ n # tcur + 1
              => obj'[data'[n]] = [id |-> 0, old |-> FALSE]
    BY <1>8, NewView
  <2>2. \A j2 \in Job : was[j2] # NULL => \E m \in Pos' : data'[m] = was[j2]
    BY <2>1 DEF HistInv
  <2>3. \A n \in Pos' : obj'[data'[n]].old <=> \E j2 \in Job : was[j2] = data'[n]
    <3> TAKE n \in Pos'
    <3>1. CASE n \in Pos
      <4>1. obj'[data'[n]].old = obj[data[n]].old /\ data'[n] = data[n]
        BY <2>1, <3>1
      <4> QED BY <3>1, <4>1 DEF HistInv
    <3>2. CASE n \notin Pos
      <4>1. ~obj'[data'[n]].old
        BY <2>1, <3>2
      <4>2. ASSUME NEW j2 \in Job, was[j2] = data'[n] PROVE FALSE
        <5>1. data'[n] # NULL
          BY <2>1 DEF Object, NULL
        <5>2. PICK m \in Pos : data[m] = was[j2]
          BY <4>2, <5>1 DEF HistInv
        <5>3. m = n
          BY <2>1, <4>2, <5>2
        <5> QED BY <3>2, <5>3
      <4> QED BY <4>1, <4>2
    <3> QED BY <3>1, <3>2
  (* No new job was met before, and this one is not new either: then its   *)
  (* object is in the list, where obj_get() would have found it.           *)
  <2>4. ~NoNew'
    <3> SUFFICES ASSUME NoNew' PROVE FALSE
      OBVIOUS
    <3>1. tcur + 1 \in 1 .. tcur' /\ \A n \in 1 .. tcur : n \in 1 .. tcur' /\ n # tcur + 1
      BY <1>0, <2>0
    <3>2. was[j] # NULL
      BY <2>0, <2>1, <3>1 DEF NoNew, id_at
    <3>3. \A n \in 1 .. tcur : obj'[data'[n]].id = id_at(n)
      BY <1>0, <2>1, <3>1 DEF id_at
    <3>4. NoNew
      BY <2>0, <3>1, <3>3 DEF NoNew, id_at
    <3>5. PICK m \in Pos : data[m] = was[j]
      BY <3>2 DEF HistInv
    <3>6. id_at(m) = j
      BY <3>2, <3>4, <3>5 DEF HistInv, id_at
    <3>7. m \in 1 .. larger(tcur, max) \/ m > larger(tcur, max)
      BY <1>0 DEF larger, Pos
    <3>8. j # 0
      BY JobListAssumption
    <3> QED BY <2>0, <3>6, <3>7, <3>8 DEF ListInv
  <2> QED BY <2>0, <2>2, <2>3, <2>4 DEF HistInv
<1>9. CASE paint
  BY <1>9, <1>a DEF paint
<1> QED BY <1>1, <1>2, <1>3, <1>4, <1>5, <1>6, <1>7, <1>8, <1>9 DEF Next, Fetch

-----------------------------------------------------------------------------
(* The nodes.                                                              *)

NodeInv ==
    /\ \A n \in Node : node[n].job \in 0 .. Len(obj)
    /\ NodeJobListed
    /\ pc # "idle" =>
          \A n \in Node :
             node[n].job # NULL => \E i \in 1 .. tcur : data[i] = node[n].job

(* What NodeKeepsJob says of a step.                                       *)
Keeps ==
    \A n \in Node :
        node[n].job # NULL /\ node'[n].job = node[n].job
           => obj'[node[n].job].id = obj[node[n].job].id

LEMMA NodeInit == Init => NodeInv
BY DEF Init, NodeInv, NodeJobListed, NULL

(* A step that allocates nodes to an object at the start of the list and   *)
(* leaves the objects there where they are.                                *)
LEMMA Allocated ==
    ASSUME TypeOK, NodeInv, pc = "jobs", pc' = "jobs", tcur' \in Nat,
           NEW N, NEW o \in 1 .. Len(obj'), allocate(N, o), Len(obj) <= Len(obj'),
           Len(obj') \in Nat,
           \A i \in 1 .. tcur : i \in 1 .. tcur' /\ data'[i] = data[i],
           \E i \in 1 .. tcur' : data'[i] = o
    PROVE  NodeInv'
<1>0. Len(obj) \in Nat /\ node \in [Node -> NodeInfo]
  BY DEF TypeOK
<1>1. ASSUME NEW n \in Node
      PROVE  /\ node'[n].job \in 0 .. Len(obj')
             /\ node'[n].state = "alloc" <=> node'[n].job # NULL
             /\ node'[n].job # NULL => \E i \in 1 .. tcur' : data'[i] = node'[n].job
  <2>1. CASE node'[n] = node[n]
    <3>1. /\ node[n].job \in 0 .. Len(obj)
          /\ node[n].state = "alloc" <=> node[n].job # NULL
          /\ node[n].job # NULL => \E i \in 1 .. tcur : data[i] = node[n].job
      BY DEF NodeInv, NodeJobListed
    <3> QED BY <1>0, <2>1, <3>1
  <2>2. CASE node'[n] = [state |-> "alloc", job |-> o]
    BY <2>2 DEF NULL
  <2> QED BY <2>1, <2>2 DEF allocate
<1> QED BY <1>1 DEF NodeInv, NodeJobListed

LEMMA NodeStep ==
    TypeOK /\ TypeOK' /\ ListInv /\ HistInv /\ NodeInv /\ [Next]_vars => NodeInv' /\ Keeps
<1> SUFFICES ASSUME TypeOK, TypeOK', ListInv, HistInv, NodeInv, [Next]_vars
             PROVE  NodeInv' /\ Keeps
  OBVIOUS
<1>0. /\ tcur \in Nat /\ max \in Nat /\ tcur <= Len(data) /\ Len(data) \in Nat
      /\ tcur' \in Nat /\ Len(obj') \in Nat /\ Len(data) = Len(obj) /\ Len(data') = Len(obj')
      /\ node \in [Node -> NodeInfo]
  BY DEF TypeOK
<1>1. CASE UNCHANGED vars
  BY <1>1 DEF vars, list, NodeInv, NodeJobListed, Keeps
<1>2. CASE fetch_malformed
  <2>1. larger(0, max) = larger(tcur, max)
    BY <1>0, <1>2 DEF fetch_malformed, ListInv, larger
  <2>2. Len(obj') = Len(obj) /\ \A o \in Object : obj'[o].id = obj[o].id
    BY <1>0, <1>2, <2>1, EndBatch DEF fetch_malformed
  <2>3. tcur' = 0 /\ UNCHANGED <<data, node, pc>> /\ pc = "idle"
    BY <1>2 DEF fetch_malformed, obj_batch_end
  <2>4. \A n \in Node : node[n].job # NULL => node[n].job \in Object
    BY <1>0 DEF NodeInv, Object, NULL
  <2> QED BY <2>2, <2>3, <2>4 DEF NodeInv, NodeJobListed, Keeps
<1>3. CASE parse_begin
  BY <1>0, <1>3 DEF parse_begin, NodeInv, NodeJobListed, Keeps, NULL
<1>4. CASE parse_out
  <2>1. Len(obj') = Len(obj) /\ \A o \in Object : obj'[o].id = obj[o].id
    BY <1>0, <1>4, EndBatch DEF parse_out
  <2>2. tcur' = tcur /\ UNCHANGED <<data, node>> /\ pc' = "idle"
    BY <1>4 DEF parse_out, obj_batch_end
  <2>3. \A n \in Node : node[n].job # NULL => node[n].job \in Object
    BY <1>0 DEF NodeInv, Object, NULL
  <2> QED BY <2>1, <2>2, <2>3 DEF NodeInv, NodeJobListed, Keeps
<1>5. ASSUME NEW N \in SUBSET Node, apply_nodes(N) PROVE NodeInv' /\ Keeps
  <2>1. tcur = 0 /\ pc = "nodes" /\ pc' = "jobs" /\ UNCHANGED <<data, obj, tcur>>
    BY <1>5 DEF apply_nodes, list, HistInv
  <2>2. \A n \in Node : node[n].job = NULL
    BY <2>1 DEF NodeInv
  <2>3. \A n \in Node : node'[n].job = node[n].job /\ node'[n].state # "alloc"
    BY <1>0, <1>5 DEF apply_nodes, NodeInfo
  <2> QED BY <1>0, <2>1, <2>2, <2>3 DEF NodeInv, NodeJobListed, Keeps, NULL
<1>6. ASSUME NEW j \in Job, NEW N \in SUBSET Node, apply_job_again(j, N)
      PROVE  NodeInv' /\ Keeps
  <2> PICK n \in 1 .. tcur : pc = "jobs" /\ allocate(N, data[n]) /\ UNCHANGED <<list, pc>>
    BY <1>6 DEF apply_job_again
  <2>1. data[n] \in 1 .. Len(obj')
    BY Ids DEF list, Object
  <2>2. NodeInv'
    BY <1>0, <2>1, Allocated DEF list
  <2> QED BY <2>2 DEF list, Keeps
<1>7. ASSUME NEW j \in Job, NEW N \in SUBSET Node, apply_job_known(j, N)
      PROVE  NodeInv' /\ Keeps
  <2> PICK n \in tcur + 1 .. max : /\ data' = swapped(n) /\ tcur' = tcur + 1
                                   /\ pc = "jobs" /\ allocate(N, data[n])
                                   /\ UNCHANGED <<obj, pc>>
    BY <1>7 DEF apply_job_known
  <2>1. /\ n \in Pos /\ tcur + 1 \in Pos /\ data'[tcur + 1] = data[n]
        /\ \A m \in Pos : m # n /\ m # tcur + 1 => data'[m] = data[m]
    BY KnownView
  <2>2. data[n] \in 1 .. Len(obj')
    BY <2>1, Ids DEF Object
  <2>3. \A i \in 1 .. tcur : i \in 1 .. tcur' /\ data'[i] = data[i]
    BY <1>0, <2>1 DEF Pos
  <2>4. tcur + 1 \in 1 .. tcur' /\ data'[tcur + 1] = data[n]
    BY <1>0, <2>1
  <2>5. NodeInv'
    BY <1>0, <2>2, <2>3, <2>4, Allocated
  <2> QED BY <2>5 DEF Keeps
<1>8. ASSUME NEW j \in Job, NEW N \in SUBSET Node, apply_job_new(j, N)
      PROVE  NodeInv' /\ Keeps
  <2> DEFINE o == grown[tcur + 1]
  <2>0. data' = grown /\ tcur' = tcur + 1 /\ pc = "jobs" /\ pc' = pc /\ allocate(N, o)
    BY <1>8 DEF apply_job_new
  <2>1. /\ Len(data) <= Len(data') /\ tcur + 1 \in Pos'
        /\ \A n \in Pos : n \in Pos' /\ data'[n] = data[n]
        /\ \A n \in Pos' : data'[n] \in Object'
        /\ \A n \in Pos : n # tcur + 1 => obj'[data'[n]] = obj[data[n]]
    BY <1>8, NewView
  <2>2. o = data'[tcur + 1] /\ o \in 1 .. Len(obj')
    BY <2>0, <2>1 DEF Object
  <2> HIDE DEF o
  <2>3. \A i \in 1 .. tcur : i \in 1 .. tcur' /\ i \in Pos /\ i # tcur + 1
    BY <1>0, <2>0 DEF Pos
  <2>4. \A i \in 1 .. tcur : data'[i] = data[i] /\ obj'[data[i]] = obj[data[i]]
    BY <2>1, <2>3
  <2>5. tcur + 1 \in 1 .. tcur'
    BY <1>0, <2>0
  <2>6. NodeInv'
    BY <1>0, <2>0, <2>1, <2>2, <2>3, <2>4, <2>5, Allocated
  <2>7. Keeps
    BY <2>0, <2>4 DEF Keeps, NodeInv
  <2> QED BY <2>6, <2>7
<1>9. CASE paint
  BY <1>9 DEF paint, NodeInv, NodeJobListed, Keeps
<1> QED BY <1>1, <1>2, <1>3, <1>4, <1>5, <1>6, <1>7, <1>8, <1>9 DEF Next, Fetch

-----------------------------------------------------------------------------
(* The end of a fetch: who is shown, and who stays hidden.                 *)

ShowsNew ==
    pc # "idle" /\ pc' = "idle" =>
        \A n \in 1 .. cur' :
           (\A j \in Job : was[j] # data'[n]) => alpha'[data'[n]] = Top

KeepsHidden ==
    pc = "jobs" /\ pc' = "idle" /\ (\A n \in 1 .. tcur : was[id_at(n)] # NULL) =>
        \A n \in 1 .. tcur : alpha'[data[n]] = alpha[data[n]]

(* Without new jobs, the jobs of the fetch have their old objects.         *)
LEMMA SameObjects ==
    ASSUME TypeOK, ListInv, HistInv, NoNew
    PROVE  \A n \in 1 .. tcur : data[n] = was[id_at(n)]
<1> TAKE n \in 1 .. tcur
<1>1. n \in Pos /\ id_at(n) \in Job /\ id_at(n) # 0
  BY Ids
<1>2. was[id_at(n)] # NULL /\ obj[was[id_at(n)]].id = id_at(n)
  BY <1>1 DEF NoNew, HistInv
<1>3. PICK m \in Pos : data[m] = was[id_at(n)]
  BY <1>1, <1>2 DEF HistInv
<1>4. id_at(m) = id_at(n)
  BY <1>2, <1>3 DEF id_at
<1> QED BY <1>1, <1>3, <1>4, Ids

LEMMA EndsRight == TypeOK /\ ListInv /\ HistInv /\ [Next]_vars => ShowsNew /\ KeepsHidden
<1> SUFFICES ASSUME TypeOK, ListInv, HistInv, [Next]_vars, pc # "idle", pc' = "idle"
             PROVE  ShowsNew /\ KeepsHidden
  BY DEF ShowsNew, KeepsHidden
<1>1. parse_out
  BY DEF Next, Fetch, vars, list, fetch_malformed, parse_begin, apply_nodes,
         apply_job_again, apply_job_known, apply_job_new, paint
<1>2. \A n \in 1 .. tcur : n \in Pos /\ data[n] \in Object
  BY Ids
<1>3. cur' = tcur /\ data' = data
  BY <1>1 DEF parse_out, obj_batch_end
<1>4. \A n \in 1 .. tcur :
         alpha'[data[n]] = IF ~obj[data[n]].old THEN Top ELSE alpha[data[n]]
  BY <1>1, <1>2 DEF parse_out
<1>5. \A n \in 1 .. tcur : obj[data[n]].old <=> \E j \in Job : was[j] = data[n]
  BY <1>2 DEF HistInv
<1>6. ShowsNew
  BY <1>3, <1>4, <1>5 DEF ShowsNew
<1>7. ASSUME NoNew PROVE \A n \in 1 .. tcur : alpha'[data[n]] = alpha[data[n]]
  <2>1. \A n \in 1 .. tcur : id_at(n) \in Job /\ data[n] = was[id_at(n)]
    BY <1>7, Ids, SameObjects
  <2> QED BY <1>4, <1>5, <2>1
<1> QED BY <1>6, <1>7 DEF KeepsHidden, NoNew

-----------------------------------------------------------------------------
JobListInv == TypeOK /\ ListInv /\ HistInv /\ NodeInv

(* Every reachable state satisfies the invariant.                          *)
THEOREM Invariant == Spec => []JobListInv
<1>1. Init => JobListInv
  BY TypeInit, ListInit, HistInit, NodeInit DEF JobListInv
<1>2. JobListInv /\ [Next]_vars => JobListInv'
  BY TypeStep, ListStep, HistStep, NodeStep DEF JobListInv
<1> QED BY <1>1, <1>2, PTL DEF Spec

(* obj_get keeps one object per job.                                       *)
THEOREM JobListSafe == Spec => [](TypeOK /\ OneObjectPerJob)
<1>1. JobListInv => TypeOK /\ OneObjectPerJob
  BY DEF JobListInv, ListInv
<1> QED BY <1>1, Invariant, PTL

(* A known job stays in its object until a new job comes up in the batch.  *)
THEOREM KnownJobsStay == Spec => []KnownKept
<1>1. JobListInv => KnownKept
  BY SameObjects DEF JobListInv, KnownKept, NoNew
<1> QED BY <1>1, Invariant, PTL

(* The jobs of all nodes are in the list, unless it is empty.              *)
THEOREM NodesHaveJobs == Spec => []NodeJobListed
<1>1. JobListInv => NodeJobListed
  BY DEF JobListInv, NodeInv
<1> QED BY <1>1, Invariant, PTL

(* A job that comes back is shown by the fetch that lists it (col_get_hash *)
(* with OHF_OLD cleared by obj_batch_end).                                 *)
THEOREM NewJobsShown == Spec => NewShown
<1>1. JobListInv /\ [Next]_vars => [ShowsNew]_vars
  BY EndsRight DEF JobListInv
<1>2. Spec => [][ShowsNew]_vars
  BY <1>1, Invariant, PTL DEF Spec
<1> QED BY <1>2 DEF NewShown, ShowsNew

(* A hidden job stays hidden over a fetch that brings no new job.          *)
THEOREM HiddenStays == Spec => HidingSurvives
<1>1. JobListInv /\ [Next]_vars => [KeepsHidden]_vars
  BY EndsRight DEF JobListInv
<1>2. Spec => [][KeepsHidden]_vars
  BY <1>1, Invariant, PTL DEF Spec
<1> QED BY <1>2 DEF HidingSurvives, KeepsHidden

(* No object is given to another job while a node points at it.            *)
THEOREM NodesKeepJobs == Spec => NodeKeepsJob
<1>1. JobListInv /\ [Next]_vars => [Keeps]_vars
  BY TypeStep, NodeStep DEF JobListInv
<1>2. Spec => [][Keeps]_vars
  BY <1>1, Invariant, PTL DEF Spec
<1> QED BY <1>2 DEF NodeKeepsJob, Keeps

-----------------------------------------------------------------------------
(* Highlight.                                                              *)
Fills == [job : [Object -> Level], status : [1 .. NSC -> Level], temp : [Temp -> Level]]

LEMMA FillOps ==
    /\ setxparent \in [Level -> Level] /\ setopaque \in [Level -> Level]
    /\ togglevis \in [Level -> Level]
    /\ alphainc \in [Level -> Level] /\ alphadec \in [Level -> Level]
<1>1. 0 \in Level /\ Top \in Level
  BY JobListAssumption DEF Level
<1>2. \A a \in Level : (a + 1 > Top \/ a + 1 \in Level) /\ (a - 1 < 0 \/ a - 1 \in Level)
  BY JobListAssumption DEF Level
<1> QED BY <1>1, <1>2 DEF setxparent, setopaque, togglevis, alphainc, alphadec

LEMMA FillsNow == HTypeOK => fills \in Fills
<1> SUFFICES ASSUME HTypeOK PROVE fills \in Fills
  OBVIOUS
<1>1. alpha \in [Object -> Level]
  BY DEF HTypeOK, TypeOK, Object
<1> QED BY <1>1 DEF fills, Fills, HTypeOK

LEMMA RunAll ==
    ASSUME NEW h \in Fills, NEW f \in [Level -> Level]
    PROVE  nc_runall(h, f) \in Fills
<1>1. h.job \in [Object -> Level] /\ h.status \in [1 .. NSC -> Level] /\ h.temp \in [Temp -> Level]
  BY DEF Fills
<1> QED BY <1>1 DEF nc_runall, Fills

LEMMA RunSn ==
    ASSUME NEW h \in Fills, NEW f \in [Level -> Level]
    PROVE  nc_runsn(h, f) \in Fills
<1>1. h.job \in [Object -> Level]
  BY DEF Fills
<1> QED BY <1>1 DEF nc_runsn, Fills

LEMMA Apply ==
    ASSUME HTypeOK, ListInv, NEW h \in Fills, NEW f \in [Level -> Level], NEW nc
    PROVE  nc_apply(h, f, nc) \in Fills
<1>0. /\ h.job \in [Object -> Level] /\ h.status \in [1 .. NSC -> Level]
      /\ h.temp \in [Temp -> Level] /\ dmode \in {"job", "temp"}
      /\ cur \in Nat /\ cur <= Len(data) /\ Len(data) \in Nat
  BY DEF Fills, HTypeOK, TypeOK
<1>1. CASE nc \notin class
  BY <1>1 DEF nc_apply
<1>2. CASE nc \in class /\ dmode = "temp"
  <2>1. nc \in Temp
    BY <1>2 DEF class
  <2>2. [h EXCEPT !.temp[nc] = f[@]] \in Fills
    BY <1>0, <2>1 DEF Fills
  <2> QED BY <1>2, <2>2 DEF nc_apply
<1>3. CASE nc \in class /\ dmode = "job" /\ nc < NSC
  <2>1. nc + 1 \in 1 .. NSC
    BY <1>0, <1>3 DEF class, NSC
  <2>2. [h EXCEPT !.status[nc + 1] = f[@]] \in Fills
    BY <1>0, <2>1 DEF Fills
  <2> QED BY <1>3, <2>2 DEF nc_apply
<1>4. CASE nc \in class /\ dmode = "job" /\ ~(nc < NSC)
  <2>1. nc - NSC + 1 \in Pos
    BY <1>0, <1>4 DEF class, NSC, Pos
  <2> DEFINE o == data[nc - NSC + 1]
  <2>2. o \in Object
    BY <2>1 DEF ListInv
  <2> HIDE DEF o
  <2>3. [h EXCEPT !.job[o] = f[@]] \in Fills
    BY <1>0, <2>2 DEF Fills
  <2> QED BY <1>4, <2>3 DEF nc_apply, o
<1> QED BY <1>0, <1>1, <1>2, <1>3, <1>4

LEMMA Seldm == ASSUME NEW h \in Fills PROVE seldm(h) \in Fills
BY FillOps, RunAll, RunSn DEF seldm

LEMMA Set ==
    ASSUME HTypeOK, ListInv, NEW h \in Fills, NEW nc
    PROVE  nc_set(h, nc) \in Fills
<1>1. nc_apply(nc_runall(h, setxparent), setopaque, nc) \in Fills
  BY FillOps, RunAll, Apply
<1>2. nc_runall(h, setopaque) \in Fills /\ seldm(h) \in Fills
  BY FillOps, RunAll, Seldm
<1> QED BY <1>1, <1>2 DEF nc_set

-----------------------------------------------------------------------------
(* A handler that puts other fills in place is a paint step of JobList.    *)
LEMMA Painted ==
    ASSUME HTypeOK, pc = "idle", NEW h \in Fills, become(h), still,
           sel' \subseteq Node, dmode' \in {"job", "temp"}
    PROVE  paint /\ HTypeOK'
<1>1. paint
  BY DEF Fills, become, still, paint
<1>2. TypeOK'
  BY <1>1, TypeStep DEF HTypeOK, Next
<1> QED BY <1>1, <1>2 DEF HTypeOK, Fills, become

HInv == HTypeOK /\ JobListInv

LEMMA HInitOK == HInit => HInv /\ Init
<1> SUFFICES ASSUME HInit PROVE HInv /\ Init
  OBVIOUS
<1>1. Init /\ TypeOK /\ JobListInv
  BY TypeInit, ListInit, HistInit, NodeInit DEF HInit, JobListInv
<1>2. Top \in Level
  BY JobListAssumption DEF Level
<1> QED BY <1>1, <1>2 DEF HInit, HInv, HTypeOK

LEMMA HStep == HInv /\ [HNext]_hvars => [Next]_vars /\ HInv'
<1> SUFFICES ASSUME HInv, [HNext]_hvars PROVE [Next]_vars /\ HInv'
  OBVIOUS
<1>0. HTypeOK /\ ListInv /\ TypeOK /\ JobListInv
  BY DEF HInv, HTypeOK, JobListInv
<1>i. ASSUME [Next]_vars PROVE JobListInv'
  BY <1>0, <1>i, TypeStep, ListStep, HistStep, NodeStep DEF JobListInv
<1>p. ASSUME paint, HTypeOK' PROVE [Next]_vars /\ HInv'
  BY <1>i, <1>p DEF Next, HInv
<1>f. fills \in Fills /\ sel \subseteq Node /\ dmode \in {"job", "temp"}
  BY <1>0, FillsNow DEF HTypeOK
<1>1. CASE UNCHANGED hvars
  BY <1>0, <1>1, <1>i DEF hvars, hl, HInv, HTypeOK, vars, list, TypeOK
<1>2. CASE Fetch /\ UNCHANGED hl
  <2>1. TypeOK'
    BY <1>0, <1>2, TypeStep DEF Next
  <2> QED BY <1>0, <1>2, <1>i, <2>1 DEF Next, hl, HInv, HTypeOK
<1>3. CASE key_aj
  BY <1>0, <1>3, <1>p, <1>f, Seldm, Painted DEF key_aj
<1>4. CASE key_ar
  BY <1>0, <1>4, <1>p, <1>f, FillOps, RunAll, Painted DEF key_ar
<1>5. CASE key_as
  BY <1>0, <1>5, <1>p, <1>f, FillOps, RunAll, Painted DEF key_as
<1>6. ASSUME NEW nc \in class, NEW shift \in BOOLEAN, hlnc_click(nc, shift)
      PROVE  [Next]_vars /\ HInv'
  <2> DEFINE h == IF shift THEN fills ELSE nc_runall(fills, setxparent)
  <2>1. h \in Fills
    BY <1>f, FillOps, RunAll
  <2>2. nc_apply(h, togglevis, nc) \in Fills
    BY <1>0, <2>1, FillOps, Apply
  <2> QED BY <1>0, <1>6, <1>p, <1>f, <2>2, Painted DEF hlnc_click
<1>7. ASSUME NEW nc, NEW f \in {alphainc, alphadec}, hlnc_squire(nc, f)
      PROVE  [Next]_vars /\ HInv'
  <2>1. f \in [Level -> Level]
    BY FillOps
  <2>2. nc_runall(fills, f) \in Fills /\ nc_apply(fills, f, nc) \in Fills
    BY <1>0, <1>f, <2>1, RunAll, Apply
  <2>3. (IF nc = NC_ALL THEN nc_runall(fills, f) ELSE nc_apply(fills, f, nc)) \in Fills
    BY <2>2
  <2> QED BY <1>0, <1>7, <1>p, <1>f, <2>3, Painted DEF hlnc_squire
<1>8. ASSUME NEW nc, dxp_hl(nc) PROVE [Next]_vars /\ HInv'
  BY <1>0, <1>8, <1>p, <1>f, Set, Painted DEF dxp_hl
<1>9. ASSUME NEW j \in Job, uinpcb_gotojob(j) PROVE [Next]_vars /\ HInv'
  <2> PICK pos \in 1 .. cur : /\ pc = "idle" /\ become(nc_set(fills, NSC + pos - 1))
                             /\ dmode' = "job" /\ still /\ UNCHANGED sel
    BY <1>9 DEF uinpcb_gotojob
  <2>1. nc_set(fills, NSC + pos - 1) \in Fills
    BY <1>0, <1>f, Set
  <2> QED BY <1>0, <1>p, <1>f, <2>1, Painted
<1>10. ASSUME NEW m \in {"job", "temp"}, set_dmode(m) PROVE [Next]_vars /\ HInv'
  BY <1>0, <1>10, <1>i DEF set_dmode, vars, list, HInv, HTypeOK, TypeOK
<1>11. ASSUME NEW S \in SUBSET Node, select(S) PROVE [Next]_vars /\ HInv'
  BY <1>0, <1>11, <1>i DEF select, vars, list, HInv, HTypeOK, TypeOK
<1> QED
  BY <1>1, <1>2, <1>3, <1>4, <1>5, <1>6, <1>7, <1>8, <1>9, <1>10, <1>11 DEF HNext, Paint

(* The highlighting never puts an alpha out of range or touches the list:  *)
(* every behaviour of the handlers and the fetches is one of JobList.      *)
THEOREM HighlightImplements == HSpec => JobListSpec
<1>1. HInit => HInv /\ Init
  BY HInitOK
<1>2. HInv /\ [HNext]_hvars => [Next]_vars /\ HInv'
  BY HStep
<1> QED BY <1>1, <1>2, PTL DEF HSpec, JobListSpec, Spec

(* The fills stay in range, and selections and modes are what they can be. *)
THEOREM HighlightTypes == HSpec => []HTypeOK
<1>1. HInit => HInv
  BY HInitOK
<1>2. HInv /\ [HNext]_hvars => HInv'
  BY HStep
<1>3. HInv => HTypeOK
  BY DEF HInv
<1> QED BY <1>1, <1>2, <1>3, PTL DEF HSpec

(* What the keys a r and a j do to the fills, in the job mode.             *)
LEMMA Positions == HInv => listed \subseteq Object
<1> SUFFICES ASSUME HInv, NEW i \in 1 .. cur PROVE data[i] \in Object
  BY DEF listed
<1>1. i \in 1 .. Len(data)
  BY DEF HInv, HTypeOK, TypeOK
<1> QED BY <1>1 DEF HInv, JobListInv, ListInv, Pos

LEMMA StatusOf ==
    ASSUME HTypeOK, NEW n \in Node
    PROVE  state_fill(n) \in 1 .. NSC
<1>1. node[n].state \in {"free", "alloc", "off"}
  BY DEF HTypeOK, TypeOK, NodeInfo
<1>2. \E s \in 1 .. NSC : Status[s] = node[n].state
  BY <1>1 DEF Status, NSC
<1> QED BY <1>2 DEF state_fill

(* After the keys a r every node is drawn whose job is in the list.        *)
THEOREM EverythingShown == HSpec => AllShown
<1>1. HInit => HInv
  BY HInitOK
<1>2. HInv /\ [HNext]_hvars => HInv'
  BY HStep
<1>3. ASSUME HInv, key_ar, dmode = "job", AllListed, NEW n \in Node
      PROVE  Shown(n)'
  <2>1. /\ alpha \in [Object -> Level] /\ status \in [1 .. NSC -> Level]
        /\ setopaque = [a \in Level |-> Top] /\ Top # 0
    BY <1>3, JobListAssumption DEF HInv, HTypeOK, TypeOK, Object, setopaque
  <2>2. /\ alpha' = [o \in Object |-> IF o \in listed THEN setopaque[alpha[o]] ELSE alpha[o]]
        /\ status' = [s \in 1 .. NSC |-> setopaque[status[s]]]
        /\ node' = node
    BY <1>3 DEF key_ar, become, fills, nc_runall, still
  <2>3. CASE node[n].job # NULL
    <3>1. node[n].job \in listed /\ node[n].job \in Object
      BY <1>3, <2>3, Positions DEF AllListed
    <3>2. alpha'[node[n].job] = Top
      BY <2>1, <2>2, <3>1
    <3> QED BY <2>1, <2>2, <2>3, <3>2 DEF Shown
  <2>4. CASE node[n].job = NULL
    <3>1. state_fill(n) \in 1 .. NSC
      BY <1>3, StatusOf DEF HInv
    <3>2. state_fill(n)' = state_fill(n)
      BY <2>2 DEF state_fill
    <3>3. status'[state_fill(n)] = Top
      BY <2>1, <2>2, <3>1
    <3> QED BY <2>1, <2>2, <2>4, <3>2, <3>3 DEF Shown
  <2> QED BY <2>3, <2>4
<1>4. HInv => (key_ar /\ dmode = "job" /\ AllListed => \A n \in Node : Shown(n)')
  BY <1>3
<1> QED BY <1>1, <1>2, <1>4, PTL DEF HSpec, AllShown

(* After the keys a j just the nodes in jobs of selected nodes are drawn,  *)
(* as long as the jobs of nodes are in the list.                           *)
THEOREM JustSelectedShown == HSpec => OnlySelectedListed
<1>1. HInit => HInv
  BY HInitOK
<1>2. HInv /\ [HNext]_hvars => HInv'
  BY HStep
<1>3. ASSUME HInv, key_aj, dmode = "job", AllListed, NEW n \in Node
      PROVE  Shown(n)' <=> node[n].job # NULL
                             /\ \E m \in sel : node[m].job = node[n].job
  <2> DEFINE hidden == [o \in Object |-> IF o \in listed THEN setxparent[alpha[o]] ELSE alpha[o]]
             chosen(o) == \E m \in sel : node[m].job = o
  <2>1. /\ alpha \in [Object -> Level] /\ status \in [1 .. NSC -> Level]
        /\ setxparent = [a \in Level |-> 0] /\ setopaque = [a \in Level |-> Top]
        /\ 0 \in Level /\ Top # 0
    BY <1>3, JobListAssumption DEF HInv, HTypeOK, TypeOK, Object, Level, setxparent, setopaque
  <2>2. /\ alpha' = [o \in Object |-> IF chosen(o) THEN setopaque[hidden[o]] ELSE hidden[o]]
        /\ status' = [s \in 1 .. NSC |-> setxparent[status[s]]]
        /\ node' = node
    BY <1>3 DEF key_aj, seldm, become, fills, nc_runall, nc_runsn, still
  <2>3. CASE node[n].job # NULL
    <3>1. node[n].job \in listed /\ node[n].job \in Object
      BY <1>3, <2>3, Positions DEF AllListed
    <3>2. hidden[node[n].job] = 0
      BY <2>1, <3>1
    <3>3. alpha'[node[n].job] = IF chosen(node[n].job) THEN Top ELSE 0
      BY <2>1, <2>2, <3>1, <3>2
    <3> QED BY <2>1, <2>2, <2>3, <3>3 DEF Shown
  <2>4. CASE node[n].job = NULL
    <3>1. state_fill(n) \in 1 .. NSC
      BY <1>3, StatusOf DEF HInv
    <3>2. state_fill(n)' = state_fill(n)
      BY <2>2 DEF state_fill
    <3>3. status'[state_fill(n)] = 0
      BY <2>1, <2>2, <3>1
    <3> QED BY <2>2, <2>4, <3>2, <3>3 DEF Shown
  <2> QED BY <2>3, <2>4
<1>4. HInv => (AllListed => OnlySelected)
  BY <1>3 DEF OnlySelected
<1> QED BY <1>1, <1>2, <1>4, PTL DEF HSpec, OnlySelectedListed
=============================================================================
