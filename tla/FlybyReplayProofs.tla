-------------------------- MODULE FlybyReplayProofs --------------------------
(***************************************************************************)
(* What FlybyReplay promises, for any nodes, neighbours and reels.  The    *)
(* records of a selection only toggle, so what a frame shows depends on    *)
(* every record before it.  The invariant therefore speaks of the whole    *)
(* file: there is a story h that gives, for each of its records, what is   *)
(* selected after it by someone who had nothing selected where the         *)
(* recording began (Story).  A recording is always at its end, and a       *)
(* playback at the record it has read, if nothing was left over (Told).    *)
(* A call of selnode.c keeps this because the records it adds lead from    *)
(* what was selected to what is (Kept), which needs every selected node to *)
(* be listed once (Tidy).                                                  *)
(*                                                                         *)
(* calls is a recursive function.  CallsLead is its induction: a least     *)
(* place at which it fails would have one before it.                       *)
(***************************************************************************)
EXTENDS FlybyReplay, FiniteSetTheorems, WellFoundedInduction, TLAPS

-----------------------------------------------------------------------------
(* The strengthening.                                                      *)

SelRecs == [type : {"selnode"}, node : Node]
States  == [type : {"init", "seq"}, truth : SUBSET Node]
Sel     == [list : Seq(Node), flag : SUBSET Node, count : Int, out : Seq(SelRecs)]

Whole(s) == s \in Sel /\ s.count = Len(s.list) /\ s.flag \subseteq ToSet(s.list)
Tidy(s)  == Whole(s) /\ IsInjective(s.list) /\ s.flag = ToSet(s.list)

Toggle(S, n) == IF n \in S THEN S \ {n} ELSE S \cup {n}

(* What is selected after a record, to who begins a recording with nothing *)
(* selected.                                                               *)
shown(S, r) ==
    CASE r.type = "init"    -> {}
      [] r.type = "seq"     -> S
      [] r.type = "selnode" -> Toggle(S, r.node)

(* h tells this for each record of f, and it is what the frames were.      *)
Story(f, h) ==
    /\ h \in [0 .. Len(f) -> SUBSET Node]
    /\ h[0] = {}
    /\ \A i \in 1 .. Len(f) : /\ h[i] = shown(h[i - 1], f[i])
                              /\ f[i].type = "seq" => f[i].truth = h[i]

TypeOK ==
    /\ sn \in Sel /\ sn.out = <<>>
    /\ mode \in {"off", "rec", "play", "dead"}
    /\ file \in Seq(SelRecs \cup States)
    /\ {apart, loop, met, skewed} \subseteq BOOLEAN
    /\ at \in 0 .. Len(file)
    /\ reel \in Nat /\ reel_pos \in Int /\ flyby_len \in Nat /\ flyby_pos \in Nat
    /\ carry \subseteq Node

SelectionOk == Whole(sn) /\ (Tidy(sn) \/ (met /\ mode # "play"))

(* A file begins with the first state of a recording, and a playback has   *)
(* read up to a state.                                                     *)
FileOk ==
    /\ file # <<>> => file[1].type = "init"
    /\ apart => mode = "rec"
    /\ mode = "play" \/ (mode = "rec" /\ ~apart) => file # <<>>
    /\ IF mode \in {"off", "rec"} THEN at = 0 ELSE at > 0 => IsState(file[at])

Told(h) ==
    /\ Story(file, h)
    /\ mode = "rec" /\ ~apart => IsInjective(sn.list) /\ ToSet(sn.list) = h[Len(file)]
    /\ mode = "play" /\ carry = {} => ToSet(sn.list) = h[at]

StoryOk == skewed \/ \E h : Told(h)

states(p) == {i \in 1 .. p : IsState(file[i])}
every     == flyby_len \div reel

ReelOk ==
    mode = "play" /\ reel > 0 =>
        /\ flyby_len = Cardinality(states(Len(file)))
        /\ flyby_pos = Cardinality(states(at))
        /\ reel_pos \in 0 .. reel - 1
        /\ at > 0 => every > 0
        /\ reel_pos = reel - 1 \/ flyby_pos <= (reel_pos + 1) * every
-----------------------------------------------------------------------------
(* Calls made one after the other.                                         *)

LEMMA LeastNat == ASSUME NEW T, T \subseteq Nat, T # {} PROVE \E m \in T : \A n \in T : m <= n
<1> DEFINE R == {ss \in Nat \X Nat : ss[1] < ss[2]}
<1>0. R = OpToRel(<, Nat)  BY Zenon DEF OpToRel
<1>a. IsWellFoundedOn(R, Nat)  BY ONLY NatLessThanWellFounded, <1>0, Zenon
<1> HIDE DEF R
<1>1. PICK m \in T : \A y \in T : ~(<<y, m>> \in R)  BY <1>a, WFMin
<1>2. \A y \in T : ~(y < m)  BY <1>1 DEF R
<1> QED BY <1>2

(* If each call leads from T[i - 1] to T[i], all of them lead from T[0] to *)
(* the last one.                                                           *)
LEMMA CallsLead ==
    ASSUME NEW s, NEW cs, Len(cs) \in Nat, NEW T, s \in T[0],
           \A i \in 1 .. Len(cs) : \A t \in T[i - 1] : call(t, cs[i]) \in T[i]
    PROVE  calls(s, cs) \in T[Len(cs)]
<1> DEFINE L == Len(cs)
           G(g, k) == /\ DOMAIN g = 0 .. k
                      /\ g = [i \in 0 .. k |-> g[i]]
                      /\ \A i \in 0 .. k : g[i] = IF i = 0 THEN s ELSE call(g[i - 1], cs[i])
           after == CHOOSE g : g = [i \in 0 .. L |-> IF i = 0 THEN s ELSE call(g[i - 1], cs[i])]
<1>0. L \in Nat  OBVIOUS
<1>t. \A i \in 1 .. L : \A t \in T[i - 1] : call(t, cs[i]) \in T[i]  OBVIOUS
<1>5. calls(s, cs) = after[L]  BY DEF calls
<1> HIDE DEF L
<1>1. \A k \in 0 .. L : \E g : G(g, k)
  <2> DEFINE B == {k \in 0 .. L : ~ \E g : G(g, k)}
  <2>1. SUFFICES ASSUME B # {} PROVE FALSE  OBVIOUS
  <2>0. B \subseteq Nat  BY <1>0
  <2> HIDE DEF B
  <2>2. PICK k \in B : \A n \in B : k <= n  BY <2>0, <2>1, LeastNat
  <2> USE DEF B
  <2>3. k # 0
    <3>1. G([i \in 0 .. 0 |-> s], 0)  BY <1>0
    <3> QED BY <3>1
  <2>4. k - 1 \in 0 .. L /\ k \in 1 .. L /\ k \in Nat  BY <2>2, <2>3, <1>0
  <2>5. k - 1 \notin B  BY <2>2, <2>4
  <2>6. PICK g : G(g, k - 1)  BY <2>4, <2>5
  <2> DEFINE h == [i \in 0 .. k |-> IF i = k THEN call(g[k - 1], cs[k]) ELSE g[i]]
  <2>7. ASSUME NEW i \in 0 .. k
        PROVE  h[i] = IF i = 0 THEN s ELSE call(h[i - 1], cs[i])
    <3>1. CASE i = k  BY <3>1, <2>4, <2>7
    <3>2. CASE i # k
      <4>1. i \in 0 .. k - 1 /\ i \in 0 .. k  BY <3>2, <2>4
      <4>2. i # 0 => i - 1 \in 0 .. k /\ i - 1 # k  BY <4>1, <2>4
      <4>3. h[i] = g[i] /\ (i # 0 => h[i - 1] = g[i - 1])  BY <4>1, <4>2, <3>2
      <4> QED BY <4>1, <4>3, <2>6
    <3> QED BY <3>1, <3>2
  <2>8. G(h, k)  BY <2>7
  <2> QED BY <2>8, <2>2
<1>2. PICK g : G(g, L)  BY <1>1, <1>0
<1>3. g = [i \in 0 .. L |-> IF i = 0 THEN s ELSE call(g[i - 1], cs[i])]
  <2>1. \A i \in 0 .. L : g[i] = IF i = 0 THEN s ELSE call(g[i - 1], cs[i])  BY <1>2
  <2>2. g = [i \in 0 .. L |-> g[i]]  BY <1>2
  <2> QED BY <2>1, <2>2
<1>4. after = [i \in 0 .. L |-> IF i = 0 THEN s ELSE call(after[i - 1], cs[i])]
  BY ONLY <1>3
<1> HIDE DEF after, G
<1>6. \A k \in 0 .. L : after[k] \in T[k]
  <2> DEFINE B == {k \in 0 .. L : after[k] \notin T[k]}
  <2>1. SUFFICES ASSUME B # {} PROVE FALSE  OBVIOUS
  <2>0. B \subseteq Nat  BY <1>0
  <2> HIDE DEF B
  <2>2. PICK k \in B : \A n \in B : k <= n  BY <2>0, <2>1, LeastNat
  <2> USE DEF B
  <2>3. k # 0
    <3>1. after[0] = s  BY <1>4, <1>0
    <3> QED BY <3>1, <2>2
  <2>4. k - 1 \in 0 .. L /\ k \in 1 .. L /\ k \in Nat  BY <2>2, <2>3, <1>0
  <2>5. after[k - 1] \in T[k - 1]  BY <2>2, <2>4
  <2>6. after[k] = call(after[k - 1], cs[k])  BY <1>4, <2>4, <2>3
  <2> QED BY <2>2, <2>4, <2>5, <2>6, <1>t
<1> QED BY <1>5, <1>6, <1>0 DEF L
-----------------------------------------------------------------------------
(* What the calls of selnode.c do to the list, the flags and the records.  *)

Uniq(s) == IsInjective(s.list)

LEMMA InsertOp ==
    ASSUME NEW s \in Sel, NEW n \in Node, NEW t, t = sn_insert(s, n)
    PROVE  /\ t \in Sel /\ ToSet(t.list) = ToSet(s.list) \cup {n}
           /\ t.flag = s.flag \cup {n} /\ t.count = s.count + 1
           /\ Len(t.list) = Len(s.list) + 1 /\ t.out = Append(s.out, SelRec(n))
           /\ Uniq(s) /\ n \notin ToSet(s.list) => Uniq(t)
<1>1. SelRec(n) \in SelRecs  BY DEF SelRec, SelRecs
<1>2. t.list = <<n>> \o s.list /\ t.list \in Seq(Node)  BY DEF sn_insert, Sel
<1>3. t \in Sel  BY <1>1 DEF sn_insert, Sel
<1> DEFINE l == s.list
           m == <<n>> \o l
<1>a. l \in Seq(Node)  BY DEF Sel
<1>b. Len(m) = Len(l) + 1 /\ m[1] = n /\ \A i \in 1 .. Len(l) : m[i + 1] = l[i]  BY <1>a
<1>c. \A i \in 1 .. Len(m) : i = 1 \/ (i - 1 \in 1 .. Len(l) /\ m[i] = l[i - 1])  BY <1>a
<1>d. DOMAIN l = 1 .. Len(l) /\ DOMAIN m = 1 .. Len(m) /\ Len(l) \in Nat  BY <1>a
<1> HIDE DEF l, m
<1>4. ToSet(m) = ToSet(l) \cup {n}
  <2>1. ToSet(m) \subseteq ToSet(l) \cup {n}  BY <1>b, <1>c, <1>d DEF ToSet
  <2>2. n \in ToSet(m)  BY <1>b, <1>d DEF ToSet
  <2>3. ASSUME NEW i \in DOMAIN l PROVE l[i] \in ToSet(m)
    <3>1. i + 1 \in DOMAIN m /\ m[i + 1] = l[i]  BY <1>b, <1>d
    <3> QED BY <3>1 DEF ToSet
  <2> QED BY <2>1, <2>2, <2>3 DEF ToSet
<1>5. IsInjective(l) /\ n \notin ToSet(l) => IsInjective(m)
  <2> SUFFICES ASSUME IsInjective(l), n \notin ToSet(l), NEW i \in DOMAIN m, NEW j \in DOMAIN m,
                      m[i] = m[j]
               PROVE  i = j
    BY DEF IsInjective
  <2>1. \A k \in DOMAIN l : l[k] # n  BY DEF ToSet
  <2>2. CASE i = 1 \/ j = 1  BY <2>1, <2>2, <1>b, <1>c, <1>d, SMTT(60)
  <2>3. CASE i # 1 /\ j # 1
    <3>1. i - 1 \in DOMAIN l /\ j - 1 \in DOMAIN l /\ l[i - 1] = l[j - 1]  BY <2>3, <1>c, <1>d
    <3>2. i - 1 = j - 1  BY <3>1 DEF IsInjective
    <3> QED BY <3>2, <1>d
  <2> QED BY <2>2, <2>3
<1>6. Len(t.list) = Len(s.list) + 1 /\ ToSet(t.list) = ToSet(s.list) \cup {n}
  BY <1>2, <1>4, <1>b DEF l, m
<1>7. Uniq(s) /\ n \notin ToSet(s.list) => Uniq(t)  BY <1>2, <1>5 DEF l, m, Uniq
<1> QED BY <1>3, <1>6, <1>7 DEF sn_insert

LEMMA ContainsSet ==
    ASSUME NEW l \in Seq(Node), NEW n PROVE Contains(l, n) <=> n \in ToSet(l)
BY DEF Contains, ToSet

LEMMA ClearOp ==
    ASSUME NEW s \in Sel, NEW t, t = sn_clear(s)
    PROVE  /\ t \in Sel /\ t.list = <<>> /\ ToSet(t.list) = {} /\ Uniq(t)
           /\ t.flag = s.flag \ ToSet(s.list) /\ t.count = 0
           /\ t.out = s.out \o [i \in DOMAIN s.list |-> SelRec(s.list[i])]
<1>1. [i \in DOMAIN s.list |-> SelRec(s.list[i])] \in Seq(SelRecs)
  <2>1. s.list \in Seq(Node) /\ DOMAIN s.list = 1 .. Len(s.list) /\ Len(s.list) \in Nat  BY DEF Sel
  <2>2. \A i \in DOMAIN s.list : SelRec(s.list[i]) \in SelRecs  BY <2>1 DEF SelRec, SelRecs
  <2> QED BY <2>1, <2>2
<1>2. t \in Sel  BY <1>1 DEF sn_clear, Sel
<1>3. t.list = <<>> /\ ToSet(t.list) = {} /\ Uniq(t)
  BY DEF sn_clear, ToSet, Uniq, IsInjective
<1> QED BY <1>2, <1>3 DEF sn_clear

LEMMA Part ==
    ASSUME NEW S, NEW l \in Seq(S), NEW m \in Nat \ {0}, NEW n \in m - 1 .. Len(l)
    PROVE  /\ SubSeq(l, m, n) \in Seq(S) /\ Len(SubSeq(l, m, n)) = n - (m - 1)
           /\ \A i \in 1 .. n - (m - 1) : SubSeq(l, m, n)[i] = l[(m - 1) + i]
<1>1. SubSeq(l, m, n) \in Seq(S)  OBVIOUS
<1>2. Len(SubSeq(l, m, n)) = n - (m - 1)  OBVIOUS
<1>3. ASSUME NEW i \in 1 .. n - (m - 1) PROVE SubSeq(l, m, n)[i] = l[(m - 1) + i]
  OBVIOUS
<1> QED BY <1>1, <1>2, <1>3

LEMMA Joined ==
    ASSUME NEW S, NEW a \in Seq(S), NEW b \in Seq(S)
    PROVE  /\ a \o b \in Seq(S) /\ Len(a \o b) = Len(a) + Len(b)
           /\ \A i \in 1 .. Len(a) : (a \o b)[i] = a[i]
           /\ \A i \in 1 .. Len(b) : (a \o b)[Len(a) + i] = b[i]
<1>1. a \o b \in Seq(S) /\ Len(a \o b) = Len(a) + Len(b)  OBVIOUS
<1>2. ASSUME NEW i \in 1 .. Len(a) PROVE (a \o b)[i] = a[i]  OBVIOUS
<1>3. ASSUME NEW i \in 1 .. Len(b) PROVE (a \o b)[Len(a) + i] = b[i]
  <2> DEFINE k == Len(a) + i
  <2>1. k \in 1 .. Len(a) + Len(b) /\ k > Len(a) /\ k - Len(a) = i  OBVIOUS
  <2> HIDE DEF k
  <2>2. (a \o b)[k] = b[k - Len(a)]  BY <2>1
  <2> QED BY <2>1, <2>2 DEF k
<1> QED BY <1>1, <1>2, <1>3

(* The entry that goes.                                                    *)
LEMMA RemoveOne ==
    ASSUME NEW l \in Seq(Node), NEW n, n \in ToSet(l)
    PROVE  LET m == RemoveFirst(l, n) IN
           /\ m \in Seq(Node) /\ Len(m) = Len(l) - 1
           /\ ToSet(l) \ {n} \subseteq ToSet(m) /\ ToSet(m) \subseteq ToSet(l)
           /\ IsInjective(l) => IsInjective(m) /\ n \notin ToSet(m)
<1> DEFINE I == {i \in 1 .. Len(l) : l[i] = n}
           k == Min(I)
           m == RemoveAt(l, k)
<1>0. Len(l) \in Nat /\ DOMAIN l = 1 .. Len(l)  OBVIOUS
<1>1. I # {} /\ I \subseteq Nat  BY <1>0 DEF ToSet
<1>2. k \in I
  <2> HIDE DEF I
  <2>1. \E x \in I : \A y \in I : x <= y  BY <1>1, LeastNat
  <2>2. k = CHOOSE x \in I : \A y \in I : x <= y  BY Zenon DEF Min
  <2> QED BY <2>1, <2>2
<1>3. RemoveFirst(l, n) = m
  <2>1. \E i \in 1 .. Len(l) : l[i] = n  BY <1>1
  <2>2. SelectInSeq(l, LAMBDA v : v = n) = k  BY <1>1 DEF SelectInSeq
  <2> QED BY <2>1, <2>2 DEF RemoveFirst
<1>k. k \in 1 .. Len(l) /\ l[k] = n  BY <1>2
<1> HIDE DEF I, k
<1> DEFINE a == SubSeq(l, 1, k - 1)
           b == SubSeq(l, k + 1, Len(l))
<1>a. a \in Seq(Node) /\ Len(a) = k - 1 /\ \A i \in 1 .. k - 1 : a[i] = l[i]
  <2>1. /\ a \in Seq(Node) /\ Len(a) = k - 1 - (1 - 1)
        /\ \A i \in 1 .. k - 1 - (1 - 1) : a[i] = l[1 - 1 + i]
    <3>1. 1 \in Nat \ {0} /\ k - 1 \in 1 - 1 .. Len(l)  BY <1>k, <1>0
    <3> QED BY <3>1, Part
  <2> QED BY <2>1, <1>k, <1>0
<1>b. b \in Seq(Node) /\ Len(b) = Len(l) - k /\ \A i \in 1 .. Len(l) - k : b[i] = l[k + i]
  <2>1. /\ b \in Seq(Node) /\ Len(b) = Len(l) - ((k + 1) - 1)
        /\ \A i \in 1 .. Len(l) - ((k + 1) - 1) : b[i] = l[((k + 1) - 1) + i]
    <3>1. k + 1 \in Nat \ {0} /\ Len(l) \in (k + 1) - 1 .. Len(l)  BY <1>k, <1>0
    <3> QED BY <3>1, Part
  <2>2. (k + 1) - 1 = k  BY <1>k, <1>0
  <2> QED BY <2>1, <2>2
<1>m. m = a \o b  BY Zenon DEF RemoveAt
<1> HIDE DEF a, b, m
<1>4. m \in Seq(Node) /\ Len(m) = Len(l) - 1  BY <1>a, <1>b, <1>m, <1>k, <1>0
<1>5. \A i \in 1 .. Len(m) : m[i] = IF i < k THEN l[i] ELSE l[i + 1]
  <2> SUFFICES ASSUME NEW i \in 1 .. Len(m) PROVE m[i] = IF i < k THEN l[i] ELSE l[i + 1]
    OBVIOUS
  <2>1. CASE i < k
    <3>1. i \in 1 .. k - 1 /\ m[i] = a[i]  BY ONLY <2>1, <1>a, <1>b, <1>m, <1>4, <1>k, <1>0, i \in 1 .. Len(m)
    <3> QED BY <3>1, <1>a, <2>1
  <2>2. CASE i >= k
    <3>1. i - (k - 1) \in 1 .. Len(l) - k /\ m[i] = b[i - (k - 1)]
      BY ONLY <2>2, <1>a, <1>b, <1>m, <1>4, <1>k, <1>0, i \in 1 .. Len(m)
    <3>2. k + (i - (k - 1)) = i + 1  BY ONLY <1>k, <1>0, i \in 1 .. Len(m), <1>4
    <3> QED BY <3>1, <3>2, <1>b, <2>2, <1>k, <1>0
  <2> QED BY <2>1, <2>2, <1>k, <1>0, <1>4
<1>d. DOMAIN m = 1 .. Len(m)  BY <1>4
<1>6. ASSUME NEW i \in DOMAIN l, i # k PROVE l[i] \in ToSet(m)
  <2>1. CASE i < k
    <3>1. i \in DOMAIN m /\ m[i] = l[i]  BY <2>1, <1>4, <1>5, <1>d, <1>0, <1>k
    <3> QED BY <3>1 DEF ToSet
  <2>2. CASE i > k
    <3>1. i - 1 \in DOMAIN m /\ m[i - 1] = l[i]  BY <2>2, <1>4, <1>5, <1>d, <1>0, <1>k
    <3> QED BY <3>1 DEF ToSet
  <2> QED BY <2>1, <2>2, <1>6, <1>0, <1>k
<1>7. \A i \in DOMAIN m : \E j \in DOMAIN l : j # k /\ m[i] = l[j] /\ j = (IF i < k THEN i ELSE i + 1)
  BY <1>4, <1>5, <1>d, <1>0, <1>k
<1>8. ToSet(l) \ {n} \subseteq ToSet(m)  BY <1>6, <1>k DEF ToSet
<1>9. ToSet(m) \subseteq ToSet(l)  BY <1>7 DEF ToSet
<1>10. ASSUME IsInjective(l) PROVE IsInjective(m) /\ n \notin ToSet(m)
  <2>1. \A i \in DOMAIN m : m[i] # n  BY <1>7, <1>10, <1>k, <1>0 DEF IsInjective
  <2>2. ASSUME NEW i \in DOMAIN m, NEW j \in DOMAIN m, m[i] = m[j] PROVE i = j
    <3>1. (IF i < k THEN i ELSE i + 1) = (IF j < k THEN j ELSE j + 1)
      BY <2>2, <1>7, <1>10 DEF IsInjective
    <3> QED BY <3>1, <1>d, <1>4, <1>k, <1>0
  <2> QED BY <2>1, <2>2 DEF IsInjective, ToSet
<1> QED BY <1>3, <1>4, <1>8, <1>9, <1>10 DEF m

LEMMA DelOp ==
    ASSUME NEW s \in Sel, NEW n \in Node, n \in ToSet(s.list), NEW t, t = sn_del(s, n)
    PROVE  /\ t \in Sel /\ Len(t.list) = Len(s.list) - 1
           /\ ToSet(s.list) \ {n} \subseteq ToSet(t.list) /\ ToSet(t.list) \subseteq ToSet(s.list)
           /\ t.flag = s.flag \ {n} /\ t.count = s.count - 1
           /\ t.out = Append(s.out, SelRec(n))
           /\ Uniq(s) => Uniq(t) /\ n \notin ToSet(t.list)
<1>1. SelRec(n) \in SelRecs  BY DEF SelRec, SelRecs
<1>2. s.list \in Seq(Node)  BY DEF Sel
<1>3. t.list = RemoveFirst(s.list, n)  BY DEF sn_del
<1>4. t.list \in Seq(Node)  BY <1>2, <1>3, RemoveOne
<1>5. t \in Sel  BY <1>1, <1>3, <1>4 DEF sn_del, Sel
<1> QED BY <1>2, <1>3, <1>5, RemoveOne DEF sn_del, Uniq
-----------------------------------------------------------------------------
(* What a handler makes of the selection s when it has got to t: Kept.     *)
(* The records written on the way say so, if no node is in the list twice. *)

Wrote(S, t) ==
    \E h : /\ h \in [0 .. Len(t.out) -> SUBSET Node] /\ h[0] = S
           /\ \A i \in 1 .. Len(t.out) : h[i] = Toggle(h[i - 1], t.out[i].node)
           /\ h[Len(t.out)] = ToSet(t.list)

Kept(s, t) ==
    /\ Whole(t)
    /\ Tidy(s) => Tidy(t)
    /\ Uniq(s) => Uniq(t) /\ Wrote(ToSet(s.list), t)

LEMMA ListSet == ASSUME NEW s \in Sel PROVE ToSet(s.list) \subseteq Node /\ Len(s.out) \in Nat
BY DEF Sel, ToSet

LEMMA KeptSelf == ASSUME NEW s, Whole(s), s.out = <<>> PROVE Kept(s, s)
<1>1. s \in Sel  BY DEF Whole
<1> DEFINE h == [i \in 0 .. 0 |-> ToSet(s.list)]
<1>2. h \in [0 .. 0 -> SUBSET Node] /\ h[0] = ToSet(s.list)  BY <1>1, ListSet
<1>3. Len(s.out) = 0  OBVIOUS
<1> HIDE DEF h
<1>4. Wrote(ToSet(s.list), s)  BY <1>2, <1>3 DEF Wrote
<1> QED BY <1>4 DEF Kept

LEMMA WroteMore ==
    ASSUME NEW S, NEW t \in Sel, Wrote(S, t), NEW n \in Node, NEW v \in Sel,
           v.out = Append(t.out, SelRec(n)), ToSet(v.list) = Toggle(ToSet(t.list), n)
    PROVE  Wrote(S, v)
<1> DEFINE L == Len(t.out)
<1>0. L \in Nat /\ t.out \in Seq(SelRecs) /\ SelRec(n) \in SelRecs
  BY DEF Sel, SelRec, SelRecs
<1>1. PICK h : /\ h \in [0 .. L -> SUBSET Node] /\ h[0] = S
               /\ \A i \in 1 .. L : h[i] = Toggle(h[i - 1], t.out[i].node)
               /\ h[L] = ToSet(t.list)
  BY DEF Wrote
<1>2. Len(v.out) = L + 1 /\ v.out[L + 1] = SelRec(n) /\ \A i \in 1 .. L : v.out[i] = t.out[i]
  BY <1>0
<1> HIDE DEF L
<1> DEFINE g == [i \in 0 .. L + 1 |-> IF i = L + 1 THEN ToSet(v.list) ELSE h[i]]
<1>3. g \in [0 .. L + 1 -> SUBSET Node]
  <2>1. ToSet(v.list) \in SUBSET Node  BY ListSet
  <2> QED BY <2>1, <1>1, <1>0
<1>4. g[0] = S /\ g[L + 1] = ToSet(v.list)  BY <1>0, <1>1
<1>5. ASSUME NEW i \in 1 .. L + 1 PROVE g[i] = Toggle(g[i - 1], v.out[i].node)
  <2>1. CASE i = L + 1
    <3>1. g[i - 1] = ToSet(t.list)  BY <2>1, <1>0, <1>1
    <3>2. v.out[i].node = n  BY <2>1, <1>2 DEF SelRec
    <3> QED BY <2>1, <3>1, <3>2, <1>4
  <2>2. CASE i # L + 1
    <3>1. i \in 1 .. L /\ g[i] = h[i] /\ g[i - 1] = h[i - 1]  BY <2>2, <1>0
    <3> QED BY <3>1, <1>1, <1>2
  <2> QED BY <2>1, <2>2
<1> HIDE DEF g
<1> QED BY <1>2, <1>3, <1>4, <1>5 DEF Wrote

LEMMA WroteClear ==
    ASSUME NEW S, NEW t \in Sel, Wrote(S, t), Uniq(t), NEW v, v = sn_clear(t)
    PROVE  Wrote(S, v)
<1> DEFINE L == Len(t.out)
           l == t.list
           K == Len(l)
           rest(i) == {l[j] : j \in i + 1 .. K}
<1>0. L \in Nat /\ K \in Nat /\ t.out \in Seq(SelRecs) /\ l \in Seq(Node) /\ DOMAIN l = 1 .. K
  BY DEF Sel
<1>1. PICK h : /\ h \in [0 .. L -> SUBSET Node] /\ h[0] = S
               /\ \A i \in 1 .. L : h[i] = Toggle(h[i - 1], t.out[i].node)
               /\ h[L] = ToSet(l)
  BY DEF Wrote
<1>2. v.out = t.out \o [i \in 1 .. K |-> SelRec(l[i])] /\ ToSet(v.list) = {}
  BY <1>0, ClearOp
<1>3. /\ Len(v.out) = L + K
      /\ \A i \in 1 .. L : v.out[i] = t.out[i]
      /\ \A i \in 1 .. K : v.out[L + i].node = l[i]
  <2> DEFINE q == [i \in 1 .. K |-> SelRec(l[i])]
  <2>1. q \in Seq(SelRecs) /\ Len(q) = K  BY <1>0 DEF SelRec, SelRecs
  <2>2. \A i \in 1 .. K : q[i].node = l[i]  BY <1>0 DEF SelRec
  <2> HIDE DEF q
  <2>3. v.out = t.out \o q  BY <1>2 DEF q
  <2>4. /\ Len(v.out) = L + K
        /\ \A i \in 1 .. L : v.out[i] = t.out[i]
        /\ \A i \in 1 .. K : v.out[L + i] = q[i]
    <3> DEFINE o == t.out
    <3>1. o \in Seq(SelRecs) /\ Len(o) = L /\ v.out = o \o q  BY <1>0, <2>3
    <3> HIDE DEF o, L, K
    <3>a. Len(o \o q) = Len(o) + Len(q)  BY ONLY <3>1, <2>1, Joined
    <3>b. \A i \in 1 .. Len(o) : (o \o q)[i] = o[i]  BY ONLY <3>1, <2>1, Joined
    <3>c. \A i \in 1 .. Len(q) : (o \o q)[Len(o) + i] = q[i]  BY ONLY <3>1, <2>1, Joined
    <3>3. /\ Len(v.out) = L + K
          /\ \A i \in 1 .. L : v.out[i] = o[i]
          /\ \A i \in 1 .. K : v.out[L + i] = q[i]
      BY ONLY <3>1, <3>a, <3>b, <3>c, <2>1
    <3> QED BY <3>3 DEF o
  <2> QED BY <2>2, <2>4
<1>i. \A i, j \in 1 .. K : l[i] = l[j] => i = j  BY <1>0 DEF Uniq, IsInjective
<1>s. rest(0) = ToSet(l)  BY <1>0 DEF ToSet
<1>e. rest(K) = {}  BY <1>0
<1>n. \A i \in 1 .. K : rest(i) = Toggle(rest(i - 1), l[i])
  <2> SUFFICES ASSUME NEW i \in 1 .. K PROVE rest(i) = Toggle(rest(i - 1), l[i])  OBVIOUS
  <2>1. l[i] \in rest(i - 1) /\ rest(i) \subseteq rest(i - 1)  BY <1>0
  <2>2. l[i] \notin rest(i)  BY <1>i, <1>0
  <2>3. \A x \in rest(i - 1) : x = l[i] \/ x \in rest(i)  BY <1>0
  <2> QED BY <2>1, <2>2, <2>3 DEF Toggle
<1>m. \A i \in 0 .. K : rest(i) \subseteq Node  BY <1>0
<1> HIDE DEF L, K, l, rest
<1> DEFINE g == [i \in 0 .. L + K |-> IF i <= L THEN h[i] ELSE rest(i - L)]
<1>4. g \in [0 .. L + K -> SUBSET Node]  BY <1>m, <1>1, <1>0
<1>5. g[0] = S  BY <1>0, <1>1
<1>6. g[L + K] = {}
  <2>1. CASE K = 0  BY <2>1, <1>0, <1>1, <1>s, <1>e
  <2>2. CASE K # 0  BY <2>2, <1>0, <1>e
  <2> QED BY <2>1, <2>2
<1>7. ASSUME NEW i \in 1 .. L + K PROVE g[i] = Toggle(g[i - 1], v.out[i].node)
  <2>1. CASE i <= L
    <3>1. i \in 1 .. L /\ g[i] = h[i] /\ g[i - 1] = h[i - 1]  BY <2>1, <1>0
    <3> QED BY <3>1, <1>1, <1>3
  <2>2. CASE i > L
    <3>1. PICK j \in 1 .. K : i = L + j  BY <2>2, <1>0
    <3>2. g[i] = rest(j)  BY <3>1, <2>2, <1>0
    <3>3. g[i - 1] = rest(j - 1)
      <4>1. CASE j = 1  BY <4>1, <3>1, <1>0, <1>1, <1>s
      <4>2. CASE j # 1  BY <4>2, <3>1, <1>0
      <4> QED BY <4>1, <4>2
    <3> QED BY <3>1, <3>2, <3>3, <1>n, <1>3
  <2> QED BY <2>1, <2>2, <1>0
<1> HIDE DEF g
<1> QED BY <1>2, <1>3, <1>4, <1>5, <1>6, <1>7 DEF Wrote
LEMMA InsertWhole ==
    ASSUME NEW t, Whole(t), NEW n \in Node, NEW v, v = sn_insert(t, n)
    PROVE  Whole(v) /\ (Tidy(t) /\ n \notin ToSet(t.list) => Tidy(v))
<1>1. t \in Sel /\ t.count = Len(t.list) /\ t.flag \subseteq ToSet(t.list)  BY DEF Whole
<1>a. /\ v \in Sel /\ ToSet(v.list) = ToSet(t.list) \cup {n} /\ v.flag = t.flag \cup {n}
      /\ v.count = t.count + 1 /\ Len(v.list) = Len(t.list) + 1
  BY <1>1, InsertOp
<1>b. Uniq(t) /\ n \notin ToSet(t.list) => Uniq(v)  BY <1>1, InsertOp
<1>2. Whole(v)  BY <1>1, <1>a DEF Whole
<1>3. Tidy(t) /\ n \notin ToSet(t.list) => Tidy(v)
  BY <1>a, <1>b, <1>2 DEF Tidy, Uniq
<1> QED BY <1>2, <1>3

LEMMA DelWhole ==
    ASSUME NEW t, Whole(t), NEW n \in ToSet(t.list), NEW v, v = sn_del(t, n)
    PROVE  /\ Whole(v) /\ (Tidy(t) => Tidy(v))
           /\ Uniq(t) => Uniq(v) /\ ToSet(v.list) = ToSet(t.list) \ {n}
<1>1. t \in Sel /\ n \in Node  BY ListSet DEF Whole
<1>2. Whole(v)  BY <1>1, DelOp DEF Whole
<1>3. Uniq(t) => Uniq(v) /\ ToSet(v.list) = ToSet(t.list) \ {n}  BY <1>1, DelOp
<1>4. Tidy(t) => Tidy(v)  BY <1>1, <1>2, <1>3, DelOp DEF Tidy, Uniq
<1> QED BY <1>2, <1>3, <1>4

LEMMA ClearTidy ==
    ASSUME NEW t, Whole(t) PROVE Tidy(sn_clear(t))
<1> DEFINE v == sn_clear(t)
<1>1. t \in Sel /\ t.flag \subseteq ToSet(t.list)  BY DEF Whole
<1>2. /\ v \in Sel /\ v.list = <<>> /\ ToSet(v.list) = {} /\ Uniq(v) /\ v.count = 0
      /\ v.flag = t.flag \ ToSet(t.list)
  BY <1>1, ClearOp
<1> HIDE DEF v
<1>3. v.count = Len(v.list) /\ v.flag = {}  BY <1>1, <1>2
<1> QED BY <1>2, <1>3 DEF Tidy, Whole, Uniq, v

LEMMA KeptInsert ==
    ASSUME NEW s, NEW t, Kept(s, t), NEW n \in Node, n \notin ToSet(t.list)
    PROVE  Kept(s, sn_insert(t, n))
<1> DEFINE v == sn_insert(t, n)
<1>1. Whole(t) /\ t \in Sel  BY DEF Kept, Whole
<1>2. Whole(v) /\ (Tidy(t) => Tidy(v))  BY <1>1, InsertWhole
<1>3. ASSUME Uniq(s) PROVE Uniq(v) /\ Wrote(ToSet(s.list), v)
  <2>1. Uniq(t) /\ Wrote(ToSet(s.list), t)  BY <1>3 DEF Kept
  <2>2. /\ v \in Sel /\ Uniq(v) /\ v.out = Append(t.out, SelRec(n))
        /\ ToSet(v.list) = ToSet(t.list) \cup {n}
    BY <1>1, <2>1, InsertOp
  <2>3. ToSet(v.list) = Toggle(ToSet(t.list), n)  BY <2>2 DEF Toggle
  <2> QED BY <1>1, <2>1, <2>2, <2>3, WroteMore
<1> QED BY <1>2, <1>3 DEF Kept

LEMMA KeptDel ==
    ASSUME NEW s, NEW t, Kept(s, t), NEW n \in ToSet(t.list)
    PROVE  Kept(s, sn_del(t, n))
<1> DEFINE v == sn_del(t, n)
<1>1. Whole(t) /\ t \in Sel /\ n \in Node  BY ListSet DEF Kept, Whole
<1>2. Whole(v) /\ (Tidy(t) => Tidy(v))  BY <1>1, DelWhole
<1>3. ASSUME Uniq(s) PROVE Uniq(v) /\ Wrote(ToSet(s.list), v)
  <2>1. Uniq(t) /\ Wrote(ToSet(s.list), t)  BY <1>3 DEF Kept
  <2>2. v \in Sel /\ v.out = Append(t.out, SelRec(n))  BY <1>1, DelOp
  <2>3. Uniq(v) /\ ToSet(v.list) = Toggle(ToSet(t.list), n)  BY <1>1, <2>1, DelWhole DEF Toggle
  <2> QED BY <1>1, <2>1, <2>2, <2>3, WroteMore
<1> QED BY <1>2, <1>3 DEF Kept

LEMMA KeptAdd ==
    ASSUME NEW s, NEW t, Kept(s, t), NEW n \in Node
    PROVE  Kept(s, sn_add(t, n))
<1>1. Contains(t.list, n) <=> n \in ToSet(t.list)  BY ContainsSet DEF Kept, Whole, Sel
<1> QED BY <1>1, KeptInsert DEF sn_add

LEMMA KeptToggle ==
    ASSUME NEW s, NEW t, Kept(s, t), NEW n \in Node
    PROVE  Kept(s, sn_toggle(t, n))
<1>1. Contains(t.list, n) <=> n \in ToSet(t.list)  BY ContainsSet DEF Kept, Whole, Sel
<1> QED BY <1>1, KeptInsert, KeptDel DEF sn_toggle

LEMMA KeptClear ==
    ASSUME NEW s, NEW t, Kept(s, t)
    PROVE  Kept(s, sn_clear(t)) /\ Tidy(sn_clear(t))
<1> DEFINE v == sn_clear(t)
<1>1. Whole(t) /\ t \in Sel  BY DEF Kept, Whole
<1>2. Tidy(v) /\ Whole(v)  BY <1>1, ClearTidy DEF Tidy
<1>3. Uniq(s) => Uniq(v) /\ Wrote(ToSet(s.list), v)
  BY <1>1, <1>2, WroteClear DEF Kept, Tidy, Uniq
<1> QED BY <1>2, <1>3 DEF Kept

LEMMA KeptSet ==
    ASSUME NEW s, NEW t, Kept(s, t), NEW n \in Node
    PROVE  Kept(s, sn_set(t, n)) /\ Tidy(sn_set(t, n))
<1> DEFINE v == sn_clear(t)
<1>1. Kept(s, v) /\ Tidy(v)  BY KeptClear
<1>2. n \notin ToSet(v.list)  BY ClearOp DEF Kept, Whole
<1>3. Kept(s, sn_insert(v, n))  BY <1>1, <1>2, KeptInsert
<1>4. Tidy(sn_insert(v, n))  BY <1>1, <1>2, InsertWhole DEF Tidy
<1> QED BY <1>3, <1>4 DEF sn_set

(* All nodes, and those beside the selected ones.                          *)
LEMMA KeptAddAll ==
    ASSUME NEW s, Whole(s), s.out = <<>>, NEW cs, Len(cs) \in Nat,
           \A i \in 1 .. Len(cs) : \E n \in Node : cs[i] = add(n)
    PROVE  Kept(s, calls(s, cs))
<1> DEFINE T == [i \in 0 .. Len(cs) |-> {t \in Sel : Kept(s, t)}]
<1>1. Kept(s, s) /\ s \in T[0]  BY KeptSelf DEF Whole
<1>2. ASSUME NEW i \in 1 .. Len(cs), NEW t \in T[i - 1] PROVE call(t, cs[i]) \in T[i]
  <2>1. t \in Sel /\ Kept(s, t)  BY <1>2
  <2>2. PICK n \in Node : cs[i] = add(n)  OBVIOUS
  <2>3. call(t, cs[i]) = sn_add(t, n)  BY <2>2 DEF call, add, IsState
  <2>4. Kept(s, sn_add(t, n))  BY <2>1, KeptAdd
  <2> QED BY <2>3, <2>4 DEF Kept, Whole
<1> HIDE DEF T
<1>3. calls(s, cs) \in T[Len(cs)]  BY <1>1, <1>2, CallsLead
<1> QED BY <1>3 DEF T

LEMMA KeptAllVis == ASSUME NEW s, Whole(s), s.out = <<>> PROVE Kept(s, sn_addallvis(s))
<1> DEFINE np == SetToSeq(Node)
           D == 1 .. Cardinality(Node)
           cs == [i \in DOMAIN np |-> add(np[i])]
<1>0. Cardinality(Node) \in Nat  BY FlybyReplayAssumption, FS_CardinalityType
<1>1. np \in [D -> Node]
  <2>0. IsFiniteSet(Node)  BY FlybyReplayAssumption
  <2>1. PICK f \in [D -> Node] : IsInjective(f)
    <3>1. ExistsBijection(D, Node)  BY <2>0, FS_CardinalityType
    <3> QED BY <3>1, Zenon DEF ExistsBijection, Bijection, Injection
  <2> QED BY <2>1 DEF SetToSeq
<1>2. cs \in [D -> {add(n) : n \in Node}]  BY <1>1
<1>3. Len(cs) = Cardinality(Node)  BY <1>0, <1>1
<1> HIDE DEF np, cs
<1>4. \A i \in 1 .. Len(cs) : \E n \in Node : cs[i] = add(n)  BY <1>2, <1>3
<1>5. Kept(s, calls(s, cs))  BY <1>0, <1>3, <1>4, KeptAddAll
<1> QED BY <1>5 DEF sn_addallvis, np, cs

LEMMA KeptSpread ==
    ASSUME NEW s, Whole(s), s.out = <<>>, NEW way \in Ways PROVE Kept(s, spread(s, way))
<1> DEFINE cs == [i \in DOMAIN s.list |-> add(way[s.list[i]])]
<1>1. s.list \in Seq(Node) /\ way \in [Node -> Node]  BY FlybyReplayAssumption DEF Whole, Sel
<1>2. Len(cs) = Len(s.list) /\ Len(cs) \in Nat  BY <1>1
<1>3. \A i \in 1 .. Len(cs) : \E n \in Node : cs[i] = add(n)  BY <1>1, <1>2
<1> HIDE DEF cs
<1>4. Kept(s, calls(s, cs))  BY <1>2, <1>3, KeptAddAll
<1> QED BY <1>4 DEF spread, cs
-----------------------------------------------------------------------------
(* The arrow keys: each entry becomes the neighbour of the node it was.    *)

LEMMA ReplaceOp ==
    ASSUME NEW t \in Sel, Whole(t), NEW i \in 1 .. Len(t.list), NEW n \in Node,
           t.list[i] # n, NEW v, v = sn_replace(t, i, n)
    PROVE  /\ Whole(v) /\ Len(v.list) = Len(t.list) /\ v.list[i] = n /\ v.out # <<>>
           /\ \A j \in 1 .. Len(t.list) : j # i => v.list[j] = t.list[j]
           /\ v.flag = (t.flag \ {t.list[i]}) \cup {n}
<1> DEFINE l == t.list
           m == [l EXCEPT ![i] = n]
<1>0. l \in Seq(Node) /\ DOMAIN l = 1 .. Len(l) /\ Len(l) \in Nat /\ i \in DOMAIN l /\ l[i] \in Node
  BY DEF Sel
<1>1. m \in Seq(Node) /\ Len(m) = Len(l) /\ DOMAIN m = DOMAIN l /\ m[i] = n
  BY <1>0
<1>2. \A j \in DOMAIN l : j # i => m[j] = l[j]  BY <1>0
<1>3. /\ v.list = m /\ v.flag = (t.flag \ {l[i]}) \cup {n} /\ v.count = t.count
      /\ v.out = t.out \o <<SelRec(n), SelRec(n)>>
  BY DEF sn_replace
<1>4. t.out \in Seq(SelRecs) /\ SelRec(n) \in SelRecs  BY DEF Sel, SelRec, SelRecs
<1>5. v.out \in Seq(SelRecs) /\ v.out # <<>>
  <2>1. <<SelRec(n), SelRec(n)>> \in Seq(SelRecs) /\ Len(<<SelRec(n), SelRec(n)>>) = 2  BY <1>4
  <2>2. Len(v.out) = Len(t.out) + 2 /\ Len(t.out) \in Nat  BY <1>3, <1>4, <2>1
  <2>3. Len(v.out) # 0  BY <2>2
  <2> QED BY <1>3, <1>4, <2>1, <2>3
<1>6. v \in Sel
  <2>1. v = [list |-> m, flag |-> v.flag, count |-> t.count, out |-> v.out]
    BY <1>3 DEF sn_replace
  <2>2. v.flag \in SUBSET Node /\ t.count \in Int  BY <1>3, <1>0 DEF Sel
  <2> HIDE DEF m
  <2> QED BY <2>1, <2>2, <1>1, <1>5 DEF Sel
<1> HIDE DEF m, l
<1>7. v.flag \subseteq ToSet(m)
  <2> SUFFICES ASSUME NEW x \in v.flag PROVE x \in ToSet(m)  OBVIOUS
  <2>1. CASE x = n  BY <2>1, <1>0, <1>1 DEF ToSet
  <2>2. CASE x # n
    <3>1. x \in ToSet(l) /\ x # l[i]  BY <2>2, <1>3 DEF Whole, l
    <3>2. PICK j \in DOMAIN l : x = l[j]  BY <3>1 DEF ToSet
    <3>3. j # i /\ m[j] = x  BY <3>1, <3>2, <1>2
    <3> QED BY <3>3, <1>1 DEF ToSet
  <2> QED BY <2>1, <2>2
<1>8. Whole(v)  BY <1>1, <1>3, <1>6, <1>7 DEF Whole, l
<1> QED BY <1>0, <1>1, <1>2, <1>3, <1>5, <1>8 DEF l

LEMMA MovedOp ==
    ASSUME NEW s, Whole(s), s.out = <<>>, NEW way \in Ways, NEW v, v = moved(s, way)
    PROVE  /\ Whole(v)
           /\ Tidy(s) /\ ~meets(s, way) => Tidy(v)
           /\ v.out = <<>> => v.list = s.list
<1> DEFINE l == s.list
           L == Len(l)
           cs == [i \in 1 .. L |-> replace(i, way[l[i]])]
           Apart == Tidy(s) /\ ~meets(s, way)
           On(k, t) == /\ Whole(t) /\ Len(t.list) = L
                       /\ \A i \in 1 .. L : t.list[i] = IF i <= k THEN way[l[i]] ELSE l[i]
                       /\ t.out = <<>> => t.list = l
                       /\ Apart => t.flag = ToSet(t.list)
           T == [k \in 0 .. L |-> {t \in Sel : On(k, t)}]
<1>0. l \in Seq(Node) /\ DOMAIN l = 1 .. L /\ L \in Nat /\ way \in [Node -> Node] /\ s \in Sel
  BY FlybyReplayAssumption DEF Whole, Sel
<1>1. \A i \in 1 .. L : l[i] \in Node /\ way[l[i]] \in Node  BY <1>0
<1>2. Len(cs) = L /\ \A i \in 1 .. L : cs[i] = replace(i, way[l[i]])  BY <1>0
<1>v. v = calls(s, cs)  BY <1>0 DEF moved
<1>a. ASSUME Apart, NEW i \in 1 .. L, NEW j \in 1 .. L, i # j
      PROVE  /\ l[i] # l[j] /\ (way[l[i]] # l[i] /\ i < j => way[l[i]] # l[j])
             /\ way[l[i]] # way[l[j]]
  <2>1. l[i] # l[j]  BY <1>a, <1>0 DEF Tidy, IsInjective
  <2>2. \A p, q \in DOMAIN l : way[l[p]] # l[p] =>
            ~(q > p /\ way[l[p]] = l[q]) /\ ~(q < p /\ way[l[p]] = way[l[q]])
    BY <1>a DEF meets
  <2>3. i < j => way[l[i]] # way[l[j]]  BY <2>1, <2>2, <1>0, <1>1
  <2>4. j < i => way[l[i]] # way[l[j]]  BY <2>1, <2>2, <1>0, <1>1
  <2> QED BY <2>1, <2>2, <2>3, <2>4, <1>0
<1>3. On(0, s)
  <2>1. Apart => s.flag = ToSet(s.list)  BY DEF Tidy
  <2> QED BY <2>1, <1>0
<1>4. ASSUME NEW i \in 1 .. L, NEW t \in Sel, On(i - 1, t) PROVE On(i, call(t, cs[i]))
  <2> DEFINE n == way[l[i]]
  <2>1. call(t, cs[i]) = sn_replace(t, i, n)  BY <1>2 DEF call, replace, IsState
  <2>2. t.list[i] = l[i] /\ i \in 1 .. Len(t.list) /\ n \in Node  BY <1>4, <1>1, <1>0
  <2>3. CASE l[i] = n
    <3>1. sn_replace(t, i, n) = t  BY <2>2, <2>3 DEF sn_replace
    <3>2. \A j \in 1 .. L : t.list[j] = IF j <= i THEN way[l[j]] ELSE l[j]
      <4> SUFFICES ASSUME NEW j \in 1 .. L PROVE t.list[j] = IF j <= i THEN way[l[j]] ELSE l[j]
        OBVIOUS
      <4>1. CASE j = i  BY <4>1, <2>2, <2>3
      <4>2. CASE j # i
        <5>1. j <= i - 1 <=> j <= i  BY <4>2, <1>0
        <5> QED BY <5>1, <1>4
      <4> QED BY <4>1, <4>2
    <3> QED BY <2>1, <3>1, <3>2, <1>4
  <2>4. CASE l[i] # n
    <3> DEFINE u == sn_replace(t, i, n)
    <3>0. Whole(t)  BY <1>4
    <3>1. /\ Whole(u) /\ Len(u.list) = L /\ u.list[i] = n /\ u.out # <<>>
          /\ \A j \in 1 .. L : j # i => u.list[j] = t.list[j]
          /\ u.flag = (t.flag \ {l[i]}) \cup {n}
      BY <2>2, <2>4, <3>0, <1>4, ReplaceOp
    <3> HIDE DEF u
    <3>2. ASSUME NEW j \in 1 .. L PROVE u.list[j] = IF j <= i THEN way[l[j]] ELSE l[j]
      <4>1. CASE j = i  BY <4>1, <3>1
      <4>2. CASE j # i
        <5>1. j <= i - 1 <=> j <= i  BY <4>2, <1>0
        <5> QED BY <5>1, <4>2, <3>1, <1>4
      <4> QED BY <4>1, <4>2
    <3>3. ASSUME Apart PROVE u.flag = ToSet(u.list)
      <4>1. u.flag \subseteq ToSet(u.list)  BY <3>1 DEF Whole
      <4>d. DOMAIN u.list = 1 .. L /\ DOMAIN t.list = 1 .. L  BY <3>1, <3>0, <1>4 DEF Whole, Sel
      <4>2. ASSUME NEW j \in 1 .. L PROVE u.list[j] \in u.flag
        <5>1. CASE j = i  BY <5>1, <3>1
        <5>2. CASE j # i
          <6>1. u.list[j] = t.list[j] /\ t.list[j] \in t.flag
            BY <5>2, <3>1, <3>3, <1>4, <4>d DEF ToSet
          <6>2. t.list[j] # l[i]
            <7>1. CASE j < i
              <8>1. t.list[j] = way[l[j]] /\ l[j] # l[i]  BY <7>1, <1>4, <1>0, <3>3, <5>2, <1>a
              <8> QED BY <8>1, <7>1, <5>2, <3>3, <1>a
            <7>2. CASE j > i
              <8>1. t.list[j] = l[j]  BY <7>2, <1>4, <1>0
              <8> QED BY <8>1, <5>2, <3>3, <1>a
            <7> QED BY <7>1, <7>2, <5>2, <1>0
          <6> QED BY <6>1, <6>2, <3>1
        <5> QED BY <5>1, <5>2
      <4> QED BY <4>1, <4>2, <4>d DEF ToSet
    <3>4. On(i, u)  BY <3>1, <3>2, <3>3
    <3> QED BY <2>1, <3>4 DEF u
  <2> QED BY <2>3, <2>4
<1>5. s \in T[0]  BY <1>3, <1>0
<1>6. ASSUME NEW i \in 1 .. Len(cs), NEW t \in T[i - 1] PROVE call(t, cs[i]) \in T[i]
  <2>1. i \in 1 .. L /\ i - 1 \in 0 .. L /\ i \in 0 .. L  BY <1>2, <1>0
  <2>2. t \in Sel /\ On(i - 1, t)  BY <2>1
  <2> HIDE DEF On, cs
  <2>3. On(i, call(t, cs[i]))  BY <2>1, <2>2, <1>4
  <2>4. call(t, cs[i]) \in Sel  BY <2>3 DEF On, Whole
  <2> QED BY <2>1, <2>3, <2>4
<1>7. Len(cs) \in Nat  BY <1>2, <1>0
<1> HIDE DEF T, cs
<1>8. v \in T[L]  BY <1>2, <1>5, <1>6, <1>7, <1>v, CallsLead
<1>9. On(L, v)  BY <1>8, <1>0 DEF T
<1>10. ASSUME Apart PROVE Tidy(v)
  <2>1. DOMAIN v.list = 1 .. L  BY <1>9 DEF Whole, Sel
  <2>2. \A i \in 1 .. L : v.list[i] = way[l[i]]  BY <1>9, <1>0
  <2>3. IsInjective(v.list)  BY <2>1, <2>2, <1>10, <1>a DEF IsInjective
  <2> QED BY <2>3, <1>9, <1>10 DEF Tidy
<1> QED BY <1>9, <1>10
-----------------------------------------------------------------------------
(* The inputs: while something is recorded, the records that are appended  *)
(* tell what the selection became.                                         *)

Good == TypeOK /\ SelectionOk /\ FileOk /\ StoryOk

Record == SelRecs \cup States

LEMMA StoryMore ==
    ASSUME NEW f \in Seq(Record), NEW o \in Seq(SelRecs), NEW h, Story(f, h),
           NEW g \in [0 .. Len(o) -> SUBSET Node], g[0] = h[Len(f)],
           \A i \in 1 .. Len(o) : g[i] = Toggle(g[i - 1], o[i].node)
    PROVE  \E k : Story(f \o o, k) /\ k[Len(f \o o)] = g[Len(o)]
<1> DEFINE F == Len(f)
           O == Len(o)
           fo == f \o o
<1>0. F \in Nat /\ O \in Nat  OBVIOUS
<1>o. o \in Seq(Record)
  <2>1. \A i \in 1 .. O : o[i] \in Record  BY DEF Record
  <2> QED BY <2>1
<1>a. Len(fo) = F + O  BY <1>o, Joined
<1>b. \A i \in 1 .. F : fo[i] = f[i]  BY <1>o, Joined
<1>c. \A i \in 1 .. O : fo[F + i] = o[i]  BY <1>o, Joined
<1>h. /\ h \in [0 .. F -> SUBSET Node] /\ h[0] = {}
      /\ \A i \in 1 .. F : h[i] = shown(h[i - 1], f[i]) /\ (f[i].type = "seq" => f[i].truth = h[i])
  BY DEF Story
<1>g. /\ g \in [0 .. O -> SUBSET Node] /\ g[0] = h[F]
      /\ \A i \in 1 .. O : g[i] = Toggle(g[i - 1], o[i].node)
  OBVIOUS
<1>t. ASSUME NEW i \in 1 .. O PROVE o[i].type = "selnode"
  <2>1. o[i] \in SelRecs  OBVIOUS
  <2> QED BY <2>1 DEF SelRecs
<1> HIDE DEF F, O, fo
<1> DEFINE k == [i \in 0 .. F + O |-> IF i <= F THEN h[i] ELSE g[i - F]]
<1>1. k \in [0 .. F + O -> SUBSET Node]  BY <1>0, <1>h, <1>g
<1>2. k[0] = {}  BY <1>0, <1>h
<1>3. k[F + O] = g[O]  BY <1>0, <1>g
<1>4. ASSUME NEW i \in 1 .. F + O
      PROVE  k[i] = shown(k[i - 1], fo[i]) /\ (fo[i].type = "seq" => fo[i].truth = k[i])
  <2>1. CASE i <= F
    <3>1. i \in 1 .. F /\ k[i] = h[i] /\ k[i - 1] = h[i - 1]  BY <2>1, <1>0
    <3> QED BY <3>1, <1>b, <1>h
  <2>2. CASE i > F
    <3>1. PICK j \in 1 .. O : i = F + j  BY <2>2, <1>0
    <3>2. k[i] = g[j] /\ k[i - 1] = g[j - 1]
      <4>1. k[i] = g[j]  BY <3>1, <1>0
      <4>2. CASE j = 1  BY <4>1, <4>2, <3>1, <1>0, <1>g
      <4>3. CASE j # 1  BY <4>1, <4>3, <3>1, <1>0
      <4> QED BY <4>2, <4>3
    <3>3. fo[i] = o[j] /\ fo[i].type = "selnode"  BY <3>1, <1>c, <1>t
    <3>4. shown(k[i - 1], fo[i]) = Toggle(k[i - 1], fo[i].node)  BY <3>3 DEF shown
    <3> QED BY <3>1, <3>2, <3>3, <3>4, <1>g
  <2> QED BY <2>1, <2>2, <1>0
<1> HIDE DEF k
<1>5. Story(fo, k)  BY <1>1, <1>2, <1>4, <1>a DEF Story
<1> QED BY <1>3, <1>5, <1>a DEF fo, O

LEMMA SelectType ==
    ASSUME Good, NEW t, Whole(t), select(t), met' \in BOOLEAN, skewed' \in BOOLEAN,
           Tidy(t) \/ met'
    PROVE  TypeOK' /\ SelectionOk' /\ FileOk'
<1>1. t \in Sel  BY DEF Whole
<1>2. /\ sn' = [t EXCEPT !.out = <<>>] /\ file' = written(t) /\ mode \in {"off", "rec"}
      /\ UNCHANGED <<apart, at, loop, carry, reel, reel_pos, flyby_len, flyby_pos, mode>>
  BY DEF select, playback, reels
<1>3. /\ sn' \in Sel /\ sn'.out = <<>> /\ sn'.list = t.list /\ sn'.flag = t.flag
      /\ sn'.count = t.count
  <2>1. sn' = [list |-> t.list, flag |-> t.flag, count |-> t.count, out |-> <<>>]
    BY <1>1, <1>2 DEF Sel
  <2> QED BY <2>1, <1>1 DEF Sel
<1>4. SelectionOk'  BY <1>2, <1>3 DEF SelectionOk, Whole, Tidy
<1>5. file' \in Seq(SelRecs \cup States) /\ Len(file) <= Len(file')
      /\ (file # <<>> => file' # <<>> /\ file'[1] = file[1]) /\ (file = <<>> => file' = <<>>)
  <2>1. CASE ~(mode = "rec" /\ ~apart)  BY <2>1, <1>2 DEF written, Good, TypeOK
  <2>2. CASE mode = "rec" /\ ~apart
    <3>1. file' = file \o t.out /\ file # <<>>  BY <2>2, <1>2 DEF written, Good, FileOk
    <3>2. file \in Seq(SelRecs \cup States)  BY DEF Good, TypeOK
    <3>3. t.out \in Seq(SelRecs)  BY <1>1 DEF Sel
    <3>4. t.out \in Seq(SelRecs \cup States)
      <4>1. \A i \in 1 .. Len(t.out) : t.out[i] \in SelRecs \cup States  BY <3>3
      <4> QED BY <3>3, <4>1
    <3>5. Len(file) \in Nat /\ Len(file) # 0  BY <3>1, <3>2
    <3> QED BY <3>1, <3>2, <3>4, <3>5, Joined
  <2> QED BY <2>1, <2>2
<1>6. TypeOK'  BY <1>2, <1>3, <1>5 DEF Good, TypeOK
<1>7. FileOk'  BY <1>2, <1>5 DEF Good, FileOk
<1> QED BY <1>4, <1>6, <1>7

LEMMA SelectStory ==
    ASSUME Good, NEW t \in Sel, select(t), skewed => skewed',
           \/ Kept(sn, t)
           \/ ~skewed' => (file' = file /\ (t.out = <<>> => t.list = sn.list))
    PROVE  StoryOk'
<1> SUFFICES ASSUME ~skewed' PROVE \E h : Told(h)'  BY DEF StoryOk
<1>1. PICK h : Told(h)  BY DEF Good, StoryOk
<1>2. /\ sn' = [t EXCEPT !.out = <<>>] /\ file' = written(t) /\ mode \in {"off", "rec"}
      /\ UNCHANGED <<apart, at, carry, mode>>
  BY DEF select, playback, reels
<1>3. sn'.list = t.list  BY <1>2 DEF Sel
<1>4. CASE ~(mode = "rec" /\ ~apart)
  <2>1. file' = file  BY <1>2, <1>4 DEF written
  <2>2. Told(h)'  BY <2>1, <1>1, <1>2, <1>4 DEF Told
  <2> QED BY <2>2
<1>5. CASE mode = "rec" /\ ~apart
  <2>1. file' = file \o t.out  BY <1>2, <1>5 DEF written
  <2>2. Uniq(sn) /\ ToSet(sn.list) = h[Len(file)] /\ Story(file, h)  BY <1>1, <1>5 DEF Told, Uniq
  <2>3. file \in Seq(Record) /\ t.out \in Seq(SelRecs)  BY DEF Good, TypeOK, Record, Sel
  <2>4. CASE Kept(sn, t)
    <3>1. Uniq(t) /\ Wrote(ToSet(sn.list), t)  BY <2>4, <2>2 DEF Kept
    <3>2. PICK g \in [0 .. Len(t.out) -> SUBSET Node] :
             /\ g[0] = h[Len(file)]
             /\ \A i \in 1 .. Len(t.out) : g[i] = Toggle(g[i - 1], t.out[i].node)
             /\ g[Len(t.out)] = ToSet(t.list)
      BY <3>1, <2>2 DEF Wrote
    <3>3. PICK k : Story(file', k) /\ k[Len(file')] = ToSet(t.list)
      BY <3>2, <2>1, <2>2, <2>3, StoryMore, ZenonT(60)
    <3>4. Told(k)'  BY <3>1, <3>3, <1>2, <1>3, <1>5 DEF Told, Uniq
    <3> QED BY <3>4
  <2>5. CASE file' = file /\ (t.out = <<>> => t.list = sn.list)
    <3>1. t.out = <<>>
      <4>1. Len(file') = Len(file) + Len(t.out) /\ Len(file) \in Nat /\ Len(t.out) \in Nat
        BY <2>1, <2>3
      <4>2. Len(t.out) = 0  BY <4>1, <2>5
      <4> QED BY <4>2, <2>3
    <3>2. Told(h)'  BY <3>1, <2>5, <1>1, <1>2, <1>3 DEF Told
    <3> QED BY <3>2
  <2> QED BY <2>4, <2>5
<1> QED BY <1>4, <1>5
-----------------------------------------------------------------------------
(* The playback.                                                           *)

LEMMA ToggleTidy ==
    ASSUME NEW t, Tidy(t), NEW n \in Node, NEW v, v = sn_toggle(t, n)
    PROVE  Tidy(v) /\ ToSet(v.list) = Toggle(ToSet(t.list), n)
<1>1. Whole(t) /\ t \in Sel /\ Uniq(t)  BY DEF Tidy, Whole, Uniq
<1>2. Contains(t.list, n) <=> n \in ToSet(t.list)  BY <1>1, ContainsSet DEF Sel
<1>3. CASE n \in ToSet(t.list)
  <2>1. v = sn_del(t, n)  BY <1>2, <1>3 DEF sn_toggle
  <2> QED BY <2>1, <1>1, <1>3, DelWhole DEF Toggle
<1>4. CASE n \notin ToSet(t.list)
  <2>1. v = sn_insert(t, n)  BY <1>2, <1>4 DEF sn_toggle
  <2>2. Tidy(v)  BY <2>1, <1>1, <1>4, InsertWhole
  <2>3. ToSet(v.list) = ToSet(t.list) \cup {n}  BY <2>1, <1>1, InsertOp
  <2> QED BY <2>2, <2>3, <1>4 DEF Toggle
<1> QED BY <1>3, <1>4

LEMMA Replay ==
    ASSUME file \in Seq(Record), NEW s, Tidy(s), NEW p \in 0 .. Len(file),
           NEW q \in p .. Len(file), NEW v, v = replayed(s, p + 1, q)
    PROVE  /\ Tidy(v) /\ v.out = <<>>
           /\ \A h : /\ Story(file, h) /\ ToSet(s.list) = h[p]
                     /\ \A i \in p + 1 .. q : file[i].type # "init"
                     => ToSet(v.list) = h[q]
<1> DEFINE cs == SubSeq(file, p + 1, q)
           u == calls(s, cs)
           L == q - p
<1>0. p \in Nat /\ q \in Nat /\ p <= q /\ q <= Len(file) /\ Len(file) \in Nat /\ L \in Nat
  OBVIOUS
<1>1. Len(cs) = L /\ \A i \in 1 .. L : cs[i] = file[p + i]
  <2>1. p + 1 \in Nat \ {0} /\ q \in (p + 1) - 1 .. Len(file) /\ (p + 1) - 1 = p  BY <1>0
  <2>2. /\ Len(cs) = q - ((p + 1) - 1)
        /\ \A i \in 1 .. q - ((p + 1) - 1) : cs[i] = file[((p + 1) - 1) + i]
    BY <2>1, Part
  <2> QED BY <2>1, <2>2
<1>v. v = [u EXCEPT !.out = <<>>]  BY DEF replayed
<1> HIDE DEF cs, L
<1>2. ASSUME NEW i \in 1 .. L, NEW t, Tidy(t)
      PROVE  /\ Tidy(call(t, cs[i]))
             /\ file[p + i].type = "selnode" =>
                    ToSet(call(t, cs[i]).list) = Toggle(ToSet(t.list), file[p + i].node)
             /\ file[p + i].type # "selnode" => call(t, cs[i]) = t
  <2>1. p + i \in 1 .. Len(file) /\ cs[i] = file[p + i]  BY <1>0, <1>1 DEF L
  <2>2. file[p + i] \in Record  BY <2>1
  <2>3. CASE cs[i] \in SelRecs
    <3>1. cs[i].type = "selnode" /\ cs[i].node \in Node  BY <2>3 DEF SelRecs
    <3>2. call(t, cs[i]) = sn_toggle(t, cs[i].node)  BY <3>1 DEF call, IsState
    <3> QED BY <2>1, <3>1, <3>2, <1>2, ToggleTidy
  <2>4. CASE cs[i] \in States
    <3>1. cs[i].type \in {"init", "seq"}  BY <2>4 DEF States
    <3>2. call(t, cs[i]) = t  BY <3>1 DEF call, IsState
    <3> QED BY <2>1, <3>1, <3>2, <1>2
  <2> QED BY <2>1, <2>2, <2>3, <2>4 DEF Record
<1>3. Tidy(u)
  <2> DEFINE T == [k \in 0 .. L |-> {t \in Sel : Tidy(t)}]
  <2>1. s \in T[0]  BY <1>0 DEF Tidy, Whole
  <2>2. ASSUME NEW i \in 1 .. L, NEW t \in T[i - 1] PROVE call(t, cs[i]) \in T[i]
    <3>1. i - 1 \in 0 .. L /\ i \in 0 .. L  BY <1>0
    <3>2. Tidy(call(t, cs[i]))  BY <3>1, <2>2, <1>2
    <3> QED BY <3>1, <3>2 DEF Tidy, Whole
  <2> HIDE DEF T
  <2>3. u \in T[L]  BY <2>1, <2>2, <1>0, <1>1, CallsLead
  <2> QED BY <2>3, <1>0 DEF T
<1>4. ASSUME NEW h, Story(file, h), ToSet(s.list) = h[p],
             \A i \in p + 1 .. q : file[i].type # "init"
      PROVE  ToSet(u.list) = h[q]
  <2> DEFINE T == [k \in 0 .. L |-> {t \in Sel : Tidy(t) /\ ToSet(t.list) = h[p + k]}]
  <2>1. s \in T[0]
    <3>1. p + 0 = p  BY <1>0
    <3> QED BY <3>1, <1>0, <1>4 DEF Tidy, Whole
  <2>2. ASSUME NEW i \in 1 .. L, NEW t \in T[i - 1] PROVE call(t, cs[i]) \in T[i]
    <3>1. /\ i - 1 \in 0 .. L /\ i \in 0 .. L /\ p + i \in 1 .. Len(file)
          /\ p + i \in p + 1 .. q /\ (p + i) - 1 = p + (i - 1)
      BY <1>0 DEF L
    <3>2. Tidy(t) /\ ToSet(t.list) = h[(p + i) - 1]  BY <3>1, <2>2
    <3>3. h[p + i] = shown(h[(p + i) - 1], file[p + i])  BY <3>1, <1>4 DEF Story
    <3>4. file[p + i].type \in {"seq", "selnode"}
      <4>1. file[p + i] \in Record /\ file[p + i].type # "init"  BY <3>1, <1>4
      <4> QED BY <4>1 DEF Record, SelRecs, States
    <3>5. Tidy(call(t, cs[i]))  BY <3>2, <1>2
    <3>6. ToSet(call(t, cs[i]).list) = h[p + i]
      <4>1. CASE file[p + i].type = "seq"
        <5>1. h[p + i] = h[(p + i) - 1]  BY <4>1, <3>3 DEF shown
        <5>2. call(t, cs[i]) = t  BY <4>1, <3>2, <1>2
        <5> QED BY <5>1, <5>2, <3>2
      <4>2. CASE file[p + i].type = "selnode"
        <5>1. h[p + i] = Toggle(h[(p + i) - 1], file[p + i].node)  BY <4>2, <3>3 DEF shown
        <5>2. ToSet(call(t, cs[i]).list) = Toggle(ToSet(t.list), file[p + i].node)
          BY <4>2, <3>2, <1>2
        <5> QED BY <5>1, <5>2, <3>2
      <4> QED BY <4>1, <4>2, <3>4
    <3>7. call(t, cs[i]) \in Sel  BY <3>5 DEF Tidy, Whole
    <3> QED BY <3>1, <3>5, <3>6, <3>7
  <2> HIDE DEF T
  <2>3. u \in T[L]  BY <2>1, <2>2, <1>0, <1>1, CallsLead
  <2>4. p + L = q  BY <1>0 DEF L
  <2> QED BY <2>3, <2>4, <1>0 DEF T
<1>5. v.list = u.list /\ Tidy(v) /\ v.out = <<>>
  <2>1. u \in Sel  BY <1>3 DEF Tidy, Whole
  <2> HIDE DEF u
  <2>2. v = [list |-> u.list, flag |-> u.flag, count |-> u.count, out |-> <<>>]
    BY <2>1, <1>v DEF Sel
  <2>n. <<>> \in Seq(SelRecs)  OBVIOUS
  <2>u. u.list \in Seq(Node) /\ u.flag \in SUBSET Node /\ u.count \in Int  BY <2>1 DEF Sel
  <2>3. v \in Sel  BY ONLY <2>n, <2>u, <2>2 DEF Sel
  <2>4. v.list = u.list /\ v.flag = u.flag /\ v.count = u.count /\ v.out = <<>>  BY <2>2
  <2>5. /\ u.count = Len(u.list) /\ u.flag \subseteq ToSet(u.list) /\ IsInjective(u.list)
        /\ u.flag = ToSet(u.list)
    BY <1>3 DEF Tidy, Whole
  <2> QED BY <2>3, <2>4, <2>5 DEF Tidy, Whole
<1> QED BY <1>4, <1>5

-----------------------------------------------------------------------------
(* Every step keeps the invariant.                                         *)

LEMMA Begin == Init => Good
<1> SUFFICES ASSUME Init PROVE Good  OBVIOUS
<1>1. /\ sn = Nothing /\ mode = "off" /\ file = <<>> /\ apart = FALSE /\ at = 0 /\ loop = FALSE
      /\ reel = 0 /\ reel_pos = -1 /\ flyby_len = 0 /\ flyby_pos = 0
      /\ met = FALSE /\ skewed = FALSE /\ carry = {}
  BY DEF Init
<1>2. sn.list = <<>> /\ sn.flag = {} /\ sn.count = 0 /\ sn.out = <<>>  BY <1>1 DEF Nothing
<1>3. sn \in Sel
  <2>1. <<>> \in Seq(Node) /\ <<>> \in Seq(SelRecs) /\ 0 \in Int  OBVIOUS
  <2> QED BY <2>1, <1>1 DEF Sel, Nothing
<1>4. ToSet(sn.list) = {} /\ IsInjective(sn.list)  BY <1>2 DEF ToSet, IsInjective
<1>5. Tidy(sn)  BY <1>2, <1>3, <1>4 DEF Tidy, Whole
<1>s. Whole(sn)  BY <1>5 DEF Tidy
<1>6. SelectionOk  BY <1>5, <1>s DEF SelectionOk
<1>7. TypeOK
  <2>1. <<>> \in Seq(SelRecs \cup States) /\ Len(<<>>) = 0 /\ 0 \in 0 .. 0  OBVIOUS
  <2>2. file \in Seq(SelRecs \cup States) /\ at \in 0 .. Len(file)  BY <2>1, <1>1
  <2>3. {apart, loop, met, skewed} \subseteq BOOLEAN /\ carry \subseteq Node  BY <1>1
  <2>4. mode \in {"off", "rec", "play", "dead"}  BY <1>1
  <2>5. reel \in Nat /\ reel_pos \in Int /\ flyby_len \in Nat /\ flyby_pos \in Nat  BY <1>1
  <2> QED BY <2>2, <2>3, <2>4, <2>5, <1>2, <1>3 DEF TypeOK
<1>8. FileOk  BY <1>1 DEF FileOk
<1>9. StoryOk
  <2> DEFINE h == [i \in 0 .. 0 |-> {}]
  <2>1. h \in [0 .. 0 -> SUBSET Node] /\ h[0] = {}  OBVIOUS
  <2>2. Len(file) = 0  BY <1>1
  <2> HIDE DEF h
  <2>3. Story(file, h)  BY <2>1, <2>2 DEF Story
  <2>4. Told(h)  BY <2>3, <1>1 DEF Told
  <2> QED BY <2>4 DEF StoryOk
<1> QED BY <1>6, <1>7, <1>8, <1>9 DEF Good

LEMMA SelectGood ==
    ASSUME Good, NEW t, Kept(sn, t), select(t), UNCHANGED skewed,
           \/ met' = met
           \/ met' = FALSE /\ Tidy(t)
    PROVE  Good'
<1>1. Whole(t) /\ t \in Sel /\ (Tidy(sn) => Tidy(t))  BY DEF Kept, Whole
<1>2. met' \in BOOLEAN /\ skewed' \in BOOLEAN  BY DEF Good, TypeOK
<1>3. Tidy(t) \/ met'  BY <1>1 DEF Good, SelectionOk
<1>4. TypeOK' /\ SelectionOk' /\ FileOk'  BY <1>1, <1>2, <1>3, SelectType
<1>5. StoryOk'  BY <1>1, SelectStory
<1> QED BY <1>4, <1>5 DEF Good

LEMMA Inputs ==
    ASSUME Good,
           \/ \E n \in Node : gscb_node(n) \/ gscb_node_shift(n) \/ uinpcb_gotonode(n)
           \/ key_c \/ key_all
           \/ \E way \in Ways : gl_spkeyh_node(way) \/ gl_spkeyh_node_shift(way)
    PROVE  Good'
<1>0. Whole(sn) /\ sn.out = <<>> /\ Kept(sn, sn)  BY KeptSelf DEF Good, TypeOK, SelectionOk
<1>1. ASSUME NEW n \in Node, gscb_node(n) PROVE Good'
  <2>1. Kept(sn, sn_set(sn, n)) /\ Tidy(sn_set(sn, n))  BY <1>0, KeptSet
  <2>2. select(sn_set(sn, n)) /\ met' = FALSE /\ UNCHANGED skewed  BY <1>1 DEF gscb_node
  <2> QED BY <2>1, <2>2, SelectGood
<1>2. ASSUME NEW n \in Node, gscb_node_shift(n) PROVE Good'
  <2>1. Kept(sn, sn_toggle(sn, n))  BY <1>0, KeptToggle
  <2>2. select(sn_toggle(sn, n)) /\ met' = met /\ UNCHANGED skewed  BY <1>2 DEF gscb_node_shift
  <2> QED BY <2>1, <2>2, SelectGood
<1>3. ASSUME NEW n \in Node, uinpcb_gotonode(n) PROVE Good'
  <2>1. Kept(sn, sn_add(sn, n))  BY <1>0, KeptAdd
  <2>2. select(sn_add(sn, n)) /\ met' = met /\ UNCHANGED skewed  BY <1>3 DEF uinpcb_gotonode
  <2> QED BY <2>1, <2>2, SelectGood
<1>4. ASSUME key_c PROVE Good'
  <2>1. Kept(sn, sn_clear(sn)) /\ Tidy(sn_clear(sn))  BY <1>0, KeptClear
  <2>2. select(sn_clear(sn)) /\ met' = FALSE /\ UNCHANGED skewed  BY <1>4 DEF key_c
  <2> QED BY <2>1, <2>2, SelectGood
<1>5. ASSUME key_all PROVE Good'
  <2>1. Kept(sn, sn_addallvis(sn))  BY <1>0, KeptAllVis
  <2>2. select(sn_addallvis(sn)) /\ met' = met /\ UNCHANGED skewed  BY <1>5 DEF key_all
  <2> QED BY <2>1, <2>2, SelectGood
<1>6. ASSUME NEW way \in Ways, gl_spkeyh_node_shift(way) PROVE Good'
  <2>1. Kept(sn, spread(sn, way))  BY <1>0, KeptSpread
  <2>2. select(spread(sn, way)) /\ met' = met /\ UNCHANGED skewed
    BY <1>6 DEF gl_spkeyh_node_shift
  <2> QED BY <2>1, <2>2, SelectGood
<1>7. ASSUME NEW way \in Ways, gl_spkeyh_node(way) PROVE Good'
  <2> DEFINE v == moved(sn, way)
  <2>1. Whole(v) /\ (Tidy(sn) /\ ~meets(sn, way) => Tidy(v)) /\ (v.out = <<>> => v.list = sn.list)
    BY <1>0, MovedOp
  <2>2. /\ select(v) /\ met' = (met \/ meets(sn, way)) /\ skewed' = (skewed \/ file' # file)
    BY <1>7 DEF gl_spkeyh_node
  <2>3. met' \in BOOLEAN /\ skewed' \in BOOLEAN /\ (skewed => skewed')
    <3>1. met \in BOOLEAN /\ skewed \in BOOLEAN  BY DEF Good, TypeOK
    <3>2. meets(sn, way) \in BOOLEAN  BY DEF meets
    <3> QED BY <3>1, <3>2, <2>2
  <2> HIDE DEF v
  <2>4. Tidy(v) \/ met'  BY <2>1, <2>2 DEF Good, SelectionOk
  <2>5. TypeOK' /\ SelectionOk' /\ FileOk'  BY <2>1, <2>2, <2>3, <2>4, SelectType
  <2>6. ~skewed' => file' = file /\ (v.out = <<>> => v.list = sn.list)  BY <2>1, <2>2
  <2>7. StoryOk'  BY <2>1, <2>2, <2>3, <2>6, SelectStory DEF Whole
  <2> QED BY <2>5, <2>7 DEF Good
<1> QED BY <1>1, <1>2, <1>3, <1>4, <1>5, <1>6, <1>7

LEMMA StoryState ==
    ASSUME NEW f \in Seq(Record), NEW r \in States, NEW h, Story(f, h),
           r.type = "seq" => r.truth = h[Len(f)]
    PROVE  \E k : /\ Story(Append(f, r), k)
                  /\ k[Len(f) + 1] = IF r.type = "init" THEN {} ELSE h[Len(f)]
<1> DEFINE F == Len(f)
           fr == Append(f, r)
<1>0. F \in Nat  OBVIOUS
<1>a. Len(fr) = F + 1 /\ fr[F + 1] = r /\ \A i \in 1 .. F : fr[i] = f[i]
  <2>1. r \in Record  BY DEF Record
  <2> QED BY <2>1
<1>h. /\ h \in [0 .. F -> SUBSET Node] /\ h[0] = {}
      /\ \A i \in 1 .. F : h[i] = shown(h[i - 1], f[i]) /\ (f[i].type = "seq" => f[i].truth = h[i])
  BY DEF Story
<1>r. r.type \in {"init", "seq"} /\ (r.type = "seq" => r.truth = h[F])  BY DEF States
<1> HIDE DEF F, fr
<1> DEFINE last == IF r.type = "init" THEN {} ELSE h[F]
           k == [i \in 0 .. F + 1 |-> IF i <= F THEN h[i] ELSE last]
<1>1. last \in SUBSET Node /\ last = shown(h[F], r)
  <2>1. h[F] \in SUBSET Node  BY <1>0, <1>h
  <2>2. CASE r.type = "init"  BY <2>2 DEF shown
  <2>3. CASE r.type = "seq"  BY <2>1, <2>3 DEF shown
  <2> QED BY <2>2, <2>3, <1>r
<1>l. r.type = "seq" => r.truth = last  BY <1>r
<1> HIDE DEF last
<1>2. k \in [0 .. F + 1 -> SUBSET Node]  BY <1>0, <1>h, <1>1
<1>3. k[0] = {} /\ k[F + 1] = last  BY <1>0, <1>h
<1>4. ASSUME NEW i \in 1 .. F + 1
      PROVE  k[i] = shown(k[i - 1], fr[i]) /\ (fr[i].type = "seq" => fr[i].truth = k[i])
  <2>1. CASE i <= F
    <3>1. i \in 1 .. F /\ k[i] = h[i] /\ k[i - 1] = h[i - 1]  BY <2>1, <1>0
    <3> QED BY <3>1, <1>a, <1>h
  <2>2. CASE i > F
    <3>1. i = F + 1 /\ k[i] = last /\ k[i - 1] = h[F]  BY <2>2, <1>0
    <3> QED BY <3>1, <1>a, <1>1, <1>l
  <2> QED BY <2>1, <2>2, <1>0
<1> HIDE DEF k
<1>5. Story(fr, k)  BY <1>2, <1>3, <1>4, <1>a DEF Story
<1> QED BY <1>3, <1>5 DEF fr, last, F

LEMMA BeginRec == ASSUME Good, begin_rec PROVE Good'
<1> DEFINE l == sn.list
           L == Len(l)
           r == StateRec("init", sn)
           f == Append(file, r)
           o == [i \in DOMAIN l |-> SelRec(l[i])]
<1>0. sn \in Sel /\ l \in Seq(Node) /\ L \in Nat /\ DOMAIN l = 1 .. L  BY DEF Good, TypeOK, Sel
<1>1. /\ mode = "off" /\ mode' = "rec" /\ skewed' = (skewed \/ ~IsInjective(l))
      /\ UNCHANGED <<sn, met, apart, at, loop, carry, reel, reel_pos, flyby_len, flyby_pos>>
  BY DEF begin_rec, selection, playback, reels
<1>2. file' = f \o o  BY DEF begin_rec
<1>3. file \in Seq(Record) /\ ~apart /\ at = 0 /\ (file # <<>> => file[1].type = "init")
  BY <1>1 DEF Good, TypeOK, FileOk, Record
<1>4. r \in States /\ r.type = "init" /\ r \in Record
  <2>1. ToSet(l) \subseteq Node  BY <1>0, ListSet
  <2> QED BY <2>1 DEF StateRec, States, Record
<1>5. o \in Seq(SelRecs) /\ Len(o) = L /\ \A i \in 1 .. L : o[i] = SelRec(l[i])
  <2>1. \A i \in 1 .. L : SelRec(l[i]) \in SelRecs  BY <1>0 DEF SelRec, SelRecs
  <2> QED BY <2>1, <1>0
<1> HIDE DEF l, L, r, o
<1>6. f \in Seq(Record) /\ Len(f) = Len(file) + 1 /\ f[1].type = "init"
  <2>0. Len(file) \in Nat  BY <1>3
  <2>1. f \in Seq(Record) /\ Len(f) = Len(file) + 1  BY <1>3, <1>4
  <2>2. file = <<>> => f[1] = r  BY <1>4
  <2>3. file # <<>> => f[1] = file[1]
    <3>1. SUFFICES ASSUME file # <<>> PROVE f[1] = file[1]  OBVIOUS
    <3>2. 1 \in 1 .. Len(file)  BY <3>1, <2>0, <1>3
    <3> QED BY <3>2, <1>3, <1>4
  <2> HIDE DEF f
  <2>4. f[1].type = "init"  BY <2>2, <2>3, <1>3, <1>4
  <2> QED BY <2>1, <2>4
<1>7. o \in Seq(Record)
  <2>1. \A i \in 1 .. Len(o) : o[i] \in Record  BY <1>5 DEF Record
  <2> QED BY <2>1, <1>5
<1> HIDE DEF f
<1>8. /\ file' \in Seq(Record) /\ Len(file) <= Len(file') /\ file' # <<>>
      /\ file'[1].type = "init"
  <2>0. Len(file) \in Nat /\ Len(f) \in Nat /\ L \in Nat /\ 1 \in 1 .. Len(f)  BY <1>0, <1>3, <1>6
  <2>1. file' \in Seq(Record)  BY <1>2, <1>6, <1>7, Joined
  <2>2. Len(file') = Len(f) + L  BY <1>2, <1>5, <1>6, <1>7, Joined
  <2>3. file'[1] = f[1]  BY <2>0, <1>2, <1>6, <1>7, Joined
  <2>4. file' # <<>>  BY <2>0, <2>2, <1>6
  <2> QED BY <2>0, <2>1, <2>2, <2>3, <2>4, <1>6
<1>9. TypeOK'
  <2>1. skewed' \in BOOLEAN  BY <1>1 DEF Good, TypeOK, IsInjective
  <2> QED BY <2>1, <1>1, <1>8 DEF Good, TypeOK, Record
<1>10. SelectionOk'  BY <1>1 DEF Good, SelectionOk, Whole, Tidy
<1>11. FileOk'  BY <1>1, <1>3, <1>8 DEF FileOk
<1>12. StoryOk'
  <2> SUFFICES ASSUME ~skewed' PROVE \E k : Told(k)'  BY DEF StoryOk
  <2>1. ~skewed /\ IsInjective(l)  BY <1>1
  <2>2. PICK h : Story(file, h)  BY <2>1 DEF Good, StoryOk, Told
  <2>3. PICK k : Story(f, k) /\ k[Len(f)] = {}
    BY <2>2, <1>3, <1>4, <1>6, StoryState DEF f
  <2> DEFINE g == [i \in 0 .. L |-> {l[j] : j \in 1 .. i}]
  <2>4. g \in [0 .. L -> SUBSET Node] /\ g[0] = {} /\ g[L] = ToSet(l)
    <3>1. \A i \in 0 .. L : {l[j] : j \in 1 .. i} \subseteq Node  BY <1>0
    <3>2. {l[j] : j \in 1 .. L} = ToSet(l)  BY <1>0 DEF ToSet
    <3> QED BY <3>1, <3>2, <1>0
  <2>5. ASSUME NEW i \in 1 .. L PROVE g[i] = Toggle(g[i - 1], o[i].node)
    <3>1. o[i].node = l[i]  BY <1>5 DEF SelRec
    <3>2. g[i] = {l[j] : j \in 1 .. i} /\ g[i - 1] = {l[j] : j \in 1 .. i - 1}  BY <1>0
    <3>3. l[i] \notin {l[j] : j \in 1 .. i - 1}
      <4>1. \A j \in 1 .. i - 1 : l[j] # l[i]  BY <2>1, <1>0 DEF IsInjective
      <4> QED BY <4>1
    <3>4. {l[j] : j \in 1 .. i} = {l[j] : j \in 1 .. i - 1} \cup {l[i]}  BY <1>0
    <3> QED BY <3>1, <3>2, <3>3, <3>4 DEF Toggle
  <2> HIDE DEF g
  <2>6. PICK m : Story(file', m) /\ m[Len(file')] = ToSet(l)
    <3>1. g \in [0 .. Len(o) -> SUBSET Node] /\ g[0] = k[Len(f)]  BY <2>3, <2>4, <1>5
    <3>2. \A i \in 1 .. Len(o) : g[i] = Toggle(g[i - 1], o[i].node)  BY <2>5, <1>5
    <3>3. \E m : Story(f \o o, m) /\ m[Len(f \o o)] = g[Len(o)]
      BY <3>1, <3>2, <2>3, <1>5, <1>6, StoryMore, ZenonT(60)
    <3> QED BY <3>3, <2>4, <1>2, <1>5
  <2>7. Told(m)'  BY <2>1, <2>6, <1>1 DEF Told, l
  <2> QED BY <2>7
<1> QED BY <1>9, <1>10, <1>11, <1>12 DEF Good

LEMMA WriteSeq == ASSUME Good, flyby_writeseq PROVE Good'
<1> DEFINE r == StateRec("seq", sn)
<1>1. /\ mode = "rec" /\ ~apart /\ file' = Append(file, r)
      /\ UNCHANGED <<sn, met, apart, skewed, at, loop, carry, reel, reel_pos, flyby_len, flyby_pos, mode>>
  BY DEF flyby_writeseq, selection, playback, reels
<1>2. file \in Seq(Record) /\ file # <<>> /\ file[1].type = "init"
  BY <1>1 DEF Good, TypeOK, FileOk, Record
<1>3. r \in States /\ r.type = "seq" /\ r.truth = ToSet(sn.list) /\ r \in Record
  <2>1. ToSet(sn.list) \subseteq Node  BY ListSet DEF Good, TypeOK
  <2> QED BY <2>1 DEF StateRec, States, Record
<1> HIDE DEF r
<1>4. /\ file' \in Seq(Record) /\ Len(file') = Len(file) + 1 /\ Len(file) \in Nat
      /\ file' # <<>> /\ file'[1] = file[1]
  <2>1. Len(file) \in Nat /\ 1 \in 1 .. Len(file)  BY <1>2
  <2>2. file' \in Seq(Record) /\ Len(file') = Len(file) + 1 /\ file'[1] = file[1]
    BY <2>1, <1>1, <1>2, <1>3
  <2> QED BY <2>1, <2>2
<1>5. TypeOK'  BY <1>1, <1>4 DEF Good, TypeOK, Record
<1>6. SelectionOk'  BY <1>1 DEF Good, SelectionOk, Whole, Tidy
<1>7. FileOk'  BY <1>1, <1>2, <1>4 DEF Good, FileOk
<1>8. StoryOk'
  <2> SUFFICES ASSUME ~skewed' PROVE \E k : Told(k)'  BY DEF StoryOk
  <2>1. PICK h : Told(h)  BY <1>1 DEF Good, StoryOk
  <2>2. Story(file, h) /\ IsInjective(sn.list) /\ ToSet(sn.list) = h[Len(file)]
    BY <2>1, <1>1 DEF Told
  <2>3. PICK k : Story(file', k) /\ k[Len(file) + 1] = h[Len(file)]
    BY <2>2, <1>1, <1>2, <1>3, StoryState
  <2>4. Told(k)'  BY <2>2, <2>3, <1>1, <1>4 DEF Told
  <2> QED BY <2>4
<1> QED BY <1>5, <1>6, <1>7, <1>8 DEF Good

LEMMA EndRec == ASSUME Good, end_rec PROVE Good'
<1>1. /\ mode = "rec" /\ mode' = "off" /\ apart' = FALSE
      /\ UNCHANGED <<sn, met, file, skewed, at, loop, carry, reel, reel_pos, flyby_len, flyby_pos>>
  BY DEF end_rec, selection, playback, reels
<1>2. TypeOK'  BY <1>1 DEF Good, TypeOK
<1>3. SelectionOk'  BY <1>1 DEF Good, SelectionOk, Whole, Tidy, end_rec
<1>4. FileOk'  BY <1>1 DEF Good, FileOk
<1>5. StoryOk'
  <2> SUFFICES ASSUME ~skewed' PROVE \E k : Told(k)'  BY DEF StoryOk
  <2>1. PICK h : Told(h)  BY <1>1 DEF Good, StoryOk
  <2>2. Told(h)'  BY <2>1, <1>1 DEF Told
  <2> QED BY <2>2
<1> QED BY <1>2, <1>3, <1>4, <1>5 DEF Good

LEMMA Clear == ASSUME Good, flyby_clear PROVE Good'
<1>1. /\ mode \in {"off", "rec"} /\ file' = <<>> /\ skewed' = FALSE /\ apart' = (mode = "rec")
      /\ UNCHANGED <<sn, met, at, loop, carry, reel, reel_pos, flyby_len, flyby_pos, mode>>
  BY DEF flyby_clear, selection, playback, reels
<1>0. at = 0  BY <1>1 DEF Good, FileOk
<1>2. TypeOK'
  <2>1. file' \in Seq(SelRecs \cup States) /\ at' \in 0 .. Len(file')  BY <1>0, <1>1
  <2>2. apart' \in BOOLEAN /\ skewed' \in BOOLEAN  BY <1>1
  <2> QED BY <2>1, <2>2, <1>1 DEF Good, TypeOK
<1>3. SelectionOk'  BY <1>1 DEF Good, SelectionOk, Whole, Tidy
<1>4. FileOk'  BY <1>0, <1>1 DEF Good, FileOk
<1>5. StoryOk'
  <2> DEFINE h == [i \in 0 .. 0 |-> {}]
  <2>1. h \in [0 .. 0 -> SUBSET Node] /\ h[0] = {}  OBVIOUS
  <2>2. Len(file') = 0  BY <1>1
  <2> HIDE DEF h
  <2>3. Story(file', h)  BY <2>1, <2>2 DEF Story
  <2>4. Told(h)'  BY <2>3, <1>1 DEF Told
  <2> QED BY <2>4 DEF StoryOk
<1> QED BY <1>2, <1>3, <1>4, <1>5 DEF Good

LEMMA BeginPlay == ASSUME Good, NEW l \in BOOLEAN, NEW r \in Reels, begin_play(l, r) PROVE Good'
<1> DEFINE v == sn_clear(sn)
<1>1. /\ mode = "off" /\ file # <<>> /\ mode' = "play" /\ at' = 0 /\ loop' = l /\ carry' = {}
      /\ reel' = r /\ met' = FALSE /\ UNCHANGED <<file, apart, skewed>>
      /\ sn' = [v EXCEPT !.out = <<>>]
  BY DEF begin_play, recording
<1>2. Tidy(v) /\ v \in Sel /\ v.list = <<>>
  <2>1. Whole(sn) /\ sn \in Sel  BY DEF Good, SelectionOk, Whole
  <2> QED BY <2>1, ClearTidy, ClearOp
<1> HIDE DEF v
<1>3. Tidy(sn') /\ sn'.out = <<>> /\ sn'.list = <<>>
  <2>1. sn' = [list |-> v.list, flag |-> v.flag, count |-> v.count, out |-> <<>>]
    BY <1>1, <1>2 DEF Sel
  <2>2. v.list \in Seq(Node) /\ v.flag \in SUBSET Node /\ v.count \in Int  BY <1>2 DEF Sel
  <2>3. <<>> \in Seq(SelRecs)  OBVIOUS
  <2>4. sn' \in Sel  BY ONLY <2>1, <2>2, <2>3 DEF Sel
  <2>5. /\ v.count = Len(v.list) /\ v.flag \subseteq ToSet(v.list) /\ IsInjective(v.list)
        /\ v.flag = ToSet(v.list)
    BY <1>2 DEF Tidy, Whole
  <2>6. sn'.list = v.list /\ sn'.flag = v.flag /\ sn'.count = v.count /\ sn'.out = <<>>  BY <2>1
  <2> QED BY <2>4, <2>5, <2>6, <1>2 DEF Tidy, Whole
<1>4. /\ reel' \in Nat /\ reel_pos' \in Int /\ flyby_len' \in Nat /\ flyby_pos' \in Nat
  <2>1. /\ r \in Nat /\ reel_pos \in Int /\ flyby_len \in Nat /\ flyby_pos \in Nat
    BY FlybyReplayAssumption DEF Good, TypeOK
  <2>2. CASE r = 0  BY <2>1, <2>2, <1>1 DEF begin_play
  <2>3. CASE r # 0
    <3>1. flyby_len' = flyby_calclen /\ flyby_pos' = 0 /\ reel_pos' = reel_advance(-1, r)
      BY <2>3 DEF begin_play
    <3>2. flyby_calclen \in Nat
      <4>1. file \in Seq(Record)  BY DEF Good, TypeOK, Record
      <4>2. IsFiniteSet(1 .. Len(file)) /\ DOMAIN file = 1 .. Len(file)  BY <4>1, FS_Interval
      <4>3. IsFiniteSet({i \in DOMAIN file : IsState(file[i])})  BY <4>2, FS_Subset
      <4> QED BY <4>3, FS_CardinalityType DEF flyby_calclen
    <3>3. reel_advance(-1, r) \in Int  BY <2>1 DEF reel_advance
    <3> QED BY <2>1, <3>1, <3>2, <3>3, <1>1
  <2> QED BY <2>2, <2>3
<1>5. TypeOK'
  <2>1. at' \in 0 .. Len(file')  BY <1>1 DEF Good, TypeOK
  <2>2. sn' \in Sel  BY <1>3 DEF Tidy, Whole
  <2> QED BY <2>1, <2>2, <1>1, <1>3, <1>4 DEF Good, TypeOK
<1>6. SelectionOk'  BY <1>3 DEF SelectionOk, Tidy
<1>7. FileOk'  BY <1>1 DEF Good, FileOk
<1>8. StoryOk'
  <2> SUFFICES ASSUME ~skewed' PROVE \E k : Told(k)'  BY DEF StoryOk
  <2>1. PICK h : Story(file, h) /\ h[0] = {}  BY <1>1 DEF Good, StoryOk, Told, Story
  <2>2. ToSet(sn'.list) = {}  BY <1>3 DEF ToSet
  <2>3. Told(h)'  BY <2>1, <2>2, <1>1 DEF Told
  <2> QED BY <2>3
<1> QED BY <1>5, <1>6, <1>7, <1>8 DEF Good

LEMMA LeafType ==
    ASSUME reel \in Nat, flyby_len \in Nat, flyby_pos \in Nat, reel_pos \in Int,
           NEW pos \in Nat, NEW rpos \in Int, leaf(pos, rpos)
    PROVE  /\ flyby_pos' \in Nat /\ reel_pos' \in Int /\ mode' \in {mode, "dead"}
<1>1. CASE reel = 0  BY <1>1 DEF leaf
<1>2. CASE reel # 0 /\ flyby_len \div reel = 0  BY <1>2 DEF leaf
<1>3. CASE reel # 0 /\ flyby_len \div reel # 0
  <2>1. /\ mode' = mode /\ flyby_pos' = pos + 1
        /\ reel_pos' = IF pos % (flyby_len \div reel) = 0 THEN reel_advance(rpos, reel) ELSE rpos
    BY <1>3 DEF leaf
  <2>2. reel_advance(rpos, reel) \in Int  BY DEF reel_advance
  <2> QED BY <2>1, <2>2
<1> QED BY <1>1, <1>2, <1>3

(* A frame of the playback: i is where a state was read, and the selection *)
(* is either what the story tells, or where that is not known, carry.      *)
LEMMA ShowGood ==
    ASSUME Good, mode = "play", NEW i \in 1 .. Len(file), IsState(file[i]), at' = i,
           Tidy(sn'), sn'.out = <<>>, NEW pos \in Nat, NEW rpos \in Int, leaf(pos, rpos),
           carry' = IF file[i].type = "init" THEN ToSet(sn'.list) ELSE carry,
           file[i].type = "init" \/ \A h : Told(h) /\ carry = {} => ToSet(sn'.list) = h[i],
           UNCHANGED <<recording, loop, met, reel, flyby_len>>
    PROVE  Good'
<1>1. UNCHANGED <<file, apart, skewed, loop, met, reel, flyby_len>>  BY DEF recording
<1>2. /\ reel \in Nat /\ flyby_len \in Nat /\ flyby_pos \in Nat /\ reel_pos \in Int
      /\ sn' \in Sel /\ carry \subseteq Node /\ file \in Seq(Record)
  BY DEF Good, TypeOK, Tidy, Whole, Record
<1>3. flyby_pos' \in Nat /\ reel_pos' \in Int /\ mode' \in {mode, "dead"}  BY <1>2, LeafType
<1>4. carry' \subseteq Node  BY <1>2, ListSet
<1>5. TypeOK'  BY <1>1, <1>2, <1>3, <1>4 DEF Good, TypeOK
<1>6. SelectionOk'  BY DEF SelectionOk, Tidy
<1>7. FileOk'
  <2>1. ~apart /\ file # <<>> /\ file[1].type = "init"  BY DEF Good, FileOk
  <2> QED BY <2>1, <1>1, <1>3 DEF FileOk
<1>8. StoryOk'
  <2> SUFFICES ASSUME ~skewed' PROVE \E k : Told(k)'  BY DEF StoryOk
  <2>1. PICK h : Told(h)  BY <1>1 DEF Good, StoryOk
  <2>2. Story(file, h)  BY <2>1 DEF Told
  <2>3. carry' = {} => ToSet(sn'.list) = h[i]
    <3>1. CASE file[i].type = "init"
      <4>1. h[i] = {}  BY <3>1, <2>2 DEF Story, shown
      <4> QED BY <4>1, <3>1
    <3>2. CASE file[i].type # "init"  BY <3>2, <2>1
    <3> QED BY <3>1, <3>2
  <2>4. Told(h)'  BY <2>2, <2>3, <1>1, <1>3 DEF Told
  <2> QED BY <2>4
<1> QED BY <1>5, <1>6, <1>7, <1>8 DEF Good

LEMMA PlayTidy ==
    ASSUME Good, mode = "play"
    PROVE  /\ file \in Seq(Record) /\ Len(file) \in Nat /\ at \in 0 .. Len(file) /\ Tidy(sn)
           /\ Len(file) > 0 /\ file[1].type = "init"
<1>1. file \in Seq(Record) /\ at \in 0 .. Len(file) /\ Tidy(sn)
  BY DEF Good, TypeOK, SelectionOk, Record
<1>2. file # <<>> /\ file[1].type = "init"  BY DEF Good, FileOk
<1> QED BY <1>1, <1>2

LEMMA Read == ASSUME Good, flyby_read PROVE Good'
<1>1. mode = "play" /\ UNCHANGED <<recording, loop, met, reel, flyby_len>>  BY DEF flyby_read
<1>2. PICK i \in frames(at) :
        /\ \A j \in frames(at) : i <= j
        /\ at' = i
        /\ sn' = replayed(sn, at + 1, i)
        /\ carry' = IF file[i].type = "init" THEN ToSet(sn'.list) ELSE carry
        /\ leaf(flyby_pos, reel_pos)
  BY DEF flyby_read
<1>3. /\ file \in Seq(Record) /\ Len(file) \in Nat /\ at \in 0 .. Len(file) /\ Tidy(sn)
  BY <1>1, PlayTidy
<1>4. i \in at + 1 .. Len(file) /\ IsState(file[i])  BY <1>2 DEF frames
<1>5. i \in at .. Len(file) /\ i \in 1 .. Len(file)  BY <1>3, <1>4
<1> DEFINE v == replayed(sn, at + 1, i)
<1>r. /\ Tidy(v) /\ v.out = <<>>
      /\ \A h : /\ Story(file, h) /\ ToSet(sn.list) = h[at]
                /\ \A j \in at + 1 .. i : file[j].type # "init"
                => ToSet(v.list) = h[i]
  BY ONLY <1>3, <1>5, Replay
<1>v. sn' = v  BY <1>2
<1> HIDE DEF v
<1>6. Tidy(sn') /\ sn'.out = <<>>  BY <1>r, <1>v
<1>7. file[i].type = "init" \/ \A h : Told(h) /\ carry = {} => ToSet(sn'.list) = h[i]
  <2> SUFFICES ASSUME file[i].type # "init", NEW h, Told(h), carry = {}
               PROVE  ToSet(sn'.list) = h[i]
    OBVIOUS
  <2>1. Story(file, h) /\ ToSet(sn.list) = h[at]  BY <1>1 DEF Told
  <2>2. \A j \in at + 1 .. i : file[j].type # "init"
    <3> SUFFICES ASSUME NEW j \in at + 1 .. i, j # i PROVE file[j].type # "init"  OBVIOUS
    <3>1. j \in at + 1 .. Len(file) /\ ~(i <= j)  BY <1>3, <1>5
    <3>2. ~IsState(file[j])  BY <3>1, <1>2 DEF frames
    <3> QED BY <3>2 DEF IsState
  <2> QED BY <2>1, <2>2, <1>r, <1>v
<1>8. flyby_pos \in Nat /\ reel_pos \in Int  BY DEF Good, TypeOK
<1> QED BY <1>1, <1>2, <1>4, <1>5, <1>6, <1>7, <1>8, ShowGood

LEMMA Rewind == ASSUME Good, rewind PROVE Good'
<1>1. /\ mode = "play" /\ leaf(0, -1) /\ UNCHANGED <<recording, loop, met, reel, flyby_len>>
  BY DEF rewind
<1>2. PICK i \in frames(0) :
        /\ \A j \in frames(0) : i <= j
        /\ at' = i
        /\ sn' = replayed(replayed(sn, at + 1, Len(file)), 1, i)
        /\ carry' = IF file[i].type = "init" THEN ToSet(sn'.list) ELSE carry
  BY DEF rewind
<1>3. /\ file \in Seq(Record) /\ Len(file) \in Nat /\ at \in 0 .. Len(file) /\ Tidy(sn)
      /\ Len(file) > 0 /\ file[1].type = "init"
  BY <1>1, PlayTidy
<1>4. i = 1
  <2>1. 1 \in frames(0)  BY <1>3 DEF frames, IsState
  <2>2. i \in 1 .. Len(file)  BY <1>3 DEF frames
  <2> QED BY <2>1, <2>2, <1>2, <1>3
<1>5. 1 \in 1 .. Len(file) /\ IsState(file[1])  BY <1>3 DEF IsState
<1> DEFINE u == replayed(sn, at + 1, Len(file))
<1>6. Tidy(u)
  <2>1. Len(file) \in at .. Len(file)  BY <1>3
  <2> QED BY <2>1, <1>3, Replay
<1>7. sn' = replayed(u, 0 + 1, 1)  BY <1>2, <1>4
<1> HIDE DEF u
<1>8. Tidy(sn') /\ sn'.out = <<>>
  <2>1. 0 \in 0 .. Len(file) /\ 1 \in 0 .. Len(file)  BY <1>3
  <2> DEFINE v == replayed(u, 0 + 1, 1)
  <2>2. Tidy(v) /\ v.out = <<>>  BY ONLY <2>1, <1>3, <1>6, Replay
  <2>3. sn' = v  BY <1>7
  <2> HIDE DEF v
  <2> QED BY <2>2, <2>3
<1>9. 0 \in Nat /\ -1 \in Int  OBVIOUS
<1> QED BY <1>1, <1>2, <1>3, <1>4, <1>5, <1>8, <1>9, ShowGood

LEMMA End ==
    ASSUME Good, mode = "play", flyby_end, Tidy(sn'), sn'.out = <<>>
    PROVE  Good'
<1>1. /\ mode' = "off" /\ at' = 0 /\ loop' = FALSE /\ carry' = {} /\ reel' = 0
      /\ UNCHANGED <<file, apart, skewed, met, reel_pos, flyby_len, flyby_pos>>
  BY DEF flyby_end, recording
<1>2. TypeOK'
  <2>1. sn' \in Sel /\ at' \in 0 .. Len(file')  BY <1>1 DEF Tidy, Whole, Good, TypeOK
  <2> QED BY <2>1, <1>1 DEF Good, TypeOK
<1>3. SelectionOk'  BY DEF SelectionOk, Tidy
<1>4. FileOk'  BY <1>1 DEF Good, FileOk
<1>5. StoryOk'
  <2> SUFFICES ASSUME ~skewed' PROVE \E k : Told(k)'  BY DEF StoryOk
  <2>1. PICK h : Story(file, h)  BY <1>1 DEF Good, StoryOk, Told
  <2>2. Told(h)'  BY <2>1, <1>1 DEF Told
  <2> QED BY <2>2
<1> QED BY <1>2, <1>3, <1>4, <1>5 DEF Good

LEMMA Ends == ASSUME Good, end_of_file \/ gl_keyh_actflyby PROVE Good'
<1>1. CASE end_of_file
  <2>1. mode = "play" /\ flyby_end /\ sn' = replayed(sn, at + 1, Len(file))
    BY <1>1 DEF end_of_file
  <2>2. file \in Seq(Record) /\ Len(file) \in Nat /\ at \in 0 .. Len(file) /\ Tidy(sn)
    BY <2>1, PlayTidy
  <2>3. Len(file) \in at .. Len(file)  BY <2>2
  <2> DEFINE v == replayed(sn, at + 1, Len(file))
  <2>r. Tidy(v) /\ v.out = <<>>  BY ONLY <2>2, <2>3, Replay
  <2>v. sn' = v  BY <2>1
  <2> HIDE DEF v
  <2>4. Tidy(sn') /\ sn'.out = <<>>  BY <2>r, <2>v
  <2> QED BY <2>1, <2>4, End
<1>2. CASE gl_keyh_actflyby
  <2>1. mode = "play" /\ flyby_end /\ sn' = sn  BY <1>2 DEF gl_keyh_actflyby
  <2>2. Tidy(sn) /\ sn.out = <<>>  BY <2>1, PlayTidy DEF Good, TypeOK
  <2>3. Tidy(sn') /\ sn'.out = <<>>  BY <2>1, <2>2 DEF Tidy, Whole
  <2> QED BY <2>1, <2>3, End
<1> QED BY <1>1, <1>2

LEMMA Keep == Good /\ [Next]_vars => Good'
<1> SUFFICES ASSUME Good, [Next]_vars PROVE Good'  OBVIOUS
<1>1. CASE UNCHANGED vars
  <2>1. UNCHANGED <<sn, met, file, apart, skewed, at, loop, carry, reel, reel_pos, flyby_len,
                    flyby_pos, mode>>
    BY <1>1 DEF vars, selection, recording, playback, reels
  <2>2. TypeOK'  BY <2>1 DEF Good, TypeOK
  <2>3. SelectionOk'  BY <2>1 DEF Good, SelectionOk, Whole, Tidy
  <2>4. FileOk'  BY <2>1 DEF Good, FileOk
  <2>5. StoryOk'
    <3> SUFFICES ASSUME ~skewed' PROVE \E k : Told(k)'  BY DEF StoryOk
    <3>1. PICK h : Told(h)  BY <2>1 DEF Good, StoryOk
    <3>2. Told(h)'  BY <3>1, <2>1 DEF Told
    <3> QED BY <3>2
  <2> QED BY <2>2, <2>3, <2>4, <2>5 DEF Good
<1>2. CASE \/ \E n \in Node : gscb_node(n) \/ gscb_node_shift(n) \/ uinpcb_gotonode(n)
           \/ key_c \/ key_all
           \/ \E way \in Ways : gl_spkeyh_node(way) \/ gl_spkeyh_node_shift(way)
  BY <1>2, Inputs
<1>3. CASE begin_rec  BY <1>3, BeginRec
<1>4. CASE flyby_writeseq  BY <1>4, WriteSeq
<1>5. CASE end_rec  BY <1>5, EndRec
<1>6. CASE flyby_clear  BY <1>6, Clear
<1>7. CASE \E l \in BOOLEAN, r \in Reels : begin_play(l, r)  BY <1>7, BeginPlay
<1>8. CASE flyby_read  BY <1>8, Read
<1>9. CASE rewind  BY <1>9, Rewind
<1>10. CASE end_of_file \/ gl_keyh_actflyby  BY <1>10, Ends
<1> QED BY <1>1, <1>2, <1>3, <1>4, <1>5, <1>6, <1>7, <1>8, <1>9, <1>10 DEF Next

-----------------------------------------------------------------------------
(* The reel.                                                               *)

LEMMA Products ==
    ASSUME NEW a \in Nat, NEW b \in Nat, NEW e \in Nat, a < b, e > 0
    PROVE  /\ a * e \in Nat /\ b * e \in Nat /\ a * e + e <= b * e
<1>1. a * e \in Nat /\ b * e \in Nat  OBVIOUS
<1>2. PICK d \in Nat : b = a + 1 + d
  <2>1. b - a - 1 \in Nat /\ b = a + 1 + (b - a - 1)  OBVIOUS
  <2> QED BY <2>1
<1>3. b * e = a * e + e + d * e /\ d * e \in Nat  BY <1>2
<1> QED BY <1>1, <1>3

LEMMA NotTimes ==
    ASSUME NEW a \in Nat, NEW k \in Nat, NEW e \in Nat, e > 0, a % e # 0
    PROVE  a # k * e
<1>1. (k * e) % e = 0  OBVIOUS
<1> QED BY <1>1

LEMMA Shares ==
    ASSUME NEW l \in Nat, NEW r \in Nat, r > 0
    PROVE  /\ l \div r \in Nat /\ r * (l \div r) <= l
OBVIOUS

LEMMA StatesMore ==
    ASSUME file \in Seq(Record), NEW p \in 0 .. Len(file), NEW i \in p + 1 .. Len(file),
           IsState(file[i]), \A j \in p + 1 .. i - 1 : ~IsState(file[j])
    PROVE  /\ Cardinality(states(p)) \in Nat
           /\ Cardinality(states(i)) = Cardinality(states(p)) + 1
<1>0. Len(file) \in Nat /\ p \in Nat /\ i \in Nat  OBVIOUS
<1>1. IsFiniteSet(states(p))
  <2>1. IsFiniteSet(1 .. p)  BY <1>0, FS_Interval
  <2> QED BY <2>1, FS_Subset DEF states
<1>2. states(i) = states(p) \cup {i} /\ i \notin states(p)  BY <1>0 DEF states
<1> QED BY <1>1, <1>2, FS_AddElement, FS_CardinalityType

LEMMA ReelStep ==
    ASSUME reel \in Nat, reel > 0, flyby_len \in Nat, NEW pos \in Nat, NEW rpos,
           leaf(pos, rpos), mode' # "dead",
           \/ rpos \in 0 .. reel - 1 /\ (rpos = reel - 1 \/ pos <= (rpos + 1) * every)
           \/ rpos = -1 /\ pos = 0
    PROVE  /\ every > 0 /\ flyby_pos' = pos + 1 /\ reel_pos' \in 0 .. reel - 1
           /\ reel_pos' = reel - 1 \/ flyby_pos' <= (reel_pos' + 1) * every
<1> DEFINE e == every
<1>1. e \in Nat /\ e > 0
  <2>1. flyby_len \div reel \in Nat  BY Shares
  <2>2. flyby_len \div reel # 0  BY DEF leaf
  <2> QED BY <2>1, <2>2 DEF every
<1>2. /\ flyby_pos' = pos + 1
      /\ reel_pos' = IF pos % e = 0 THEN reel_advance(rpos, reel) ELSE rpos
  BY <1>1 DEF leaf, every
<1> HIDE DEF e
<1>3. CASE rpos = -1 /\ pos = 0
  <2>1. pos % e = 0  BY <1>1, <1>3
  <2>2. reel_pos' = 0  BY <2>1, <1>2, <1>3 DEF reel_advance
  <2>3. flyby_pos' = 1 /\ (0 + 1) * e = e  BY <1>1, <1>2, <1>3
  <2> QED BY <2>2, <2>3, <1>1, <1>2 DEF e
<1>4. CASE rpos = reel - 1
  <2>1. reel_pos' = reel - 1  BY <1>2, <1>4 DEF reel_advance
  <2> QED BY <2>1, <1>1, <1>2 DEF e
<1>5. CASE rpos \in 0 .. reel - 1 /\ rpos # reel - 1 /\ pos <= (rpos + 1) * e
  <2>0. rpos \in Nat /\ rpos + 1 \in Nat /\ rpos + 2 \in Nat /\ rpos + 1 < reel  BY <1>5
  <2>1. CASE pos % e = 0
    <3>1. reel_pos' = rpos + 1  BY <2>0, <2>1, <1>2 DEF reel_advance
    <3>2. (rpos + 1) * e \in Nat /\ (rpos + 2) * e \in Nat /\ (rpos + 1) * e + e <= (rpos + 2) * e
      BY <2>0, <1>1, Products
    <3>3. (rpos + 1) + 1 = rpos + 2  BY <2>0
    <3>4. pos + 1 <= ((rpos + 1) + 1) * e  BY <3>2, <3>3, <1>1, <1>5
    <3> QED BY <3>1, <3>4, <2>0, <1>1, <1>2 DEF e
  <2>2. CASE pos % e # 0
    <3>1. reel_pos' = rpos  BY <2>2, <1>2
    <3>2. pos # (rpos + 1) * e  BY <2>0, <2>2, <1>1, NotTimes
    <3>3. (rpos + 1) * e \in Nat  BY <2>0, <1>1
    <3>4. pos + 1 <= (rpos + 1) * e  BY <3>2, <3>3, <1>5
    <3> QED BY <3>1, <3>4, <1>1, <1>2, <1>5 DEF e
  <2> QED BY <2>1, <2>2
<1> QED BY <1>3, <1>4, <1>5 DEF e

LEMMA ReelKeep == Good /\ ReelOk /\ [Next]_vars => ReelOk'
<1> SUFFICES ASSUME Good, ReelOk, [Next]_vars, mode' = "play", reel' > 0
             PROVE  /\ flyby_len' = Cardinality(states(Len(file)))'
                    /\ flyby_pos' = Cardinality(states(at))'
                    /\ reel_pos' \in 0 .. reel' - 1
                    /\ at' > 0 => every' > 0
                    /\ reel_pos' = reel' - 1 \/ flyby_pos' <= (reel_pos' + 1) * every'
  BY DEF ReelOk
<1>0. /\ reel \in Nat /\ flyby_len \in Nat /\ flyby_pos \in Nat /\ reel_pos \in Int
      /\ file \in Seq(Record)
  BY DEF Good, TypeOK, Record
<1>1. ASSUME mode = "play", UNCHANGED <<file, at, reel, reel_pos, flyby_len, flyby_pos>>
      PROVE  ReelOk'
  BY <1>1 DEF ReelOk, states, every
<1>2. CASE UNCHANGED vars
  <2>1. UNCHANGED <<mode, file, at, reel, reel_pos, flyby_len, flyby_pos>>
    BY <1>2 DEF vars, recording, playback, reels
  <2>2. ReelOk'  BY <2>1, <1>1
  <2> QED BY <2>2 DEF ReelOk
<1>3. ASSUME NEW l \in BOOLEAN, NEW r \in Reels, begin_play(l, r) PROVE ReelOk'
  <2>1. /\ at' = 0 /\ reel' = r /\ r \in Nat /\ r > 0 /\ file' = file
    BY <1>3, FlybyReplayAssumption DEF begin_play, recording
  <2>2. flyby_len' = flyby_calclen /\ flyby_pos' = 0 /\ reel_pos' = reel_advance(-1, r)
    BY <1>3, <2>1 DEF begin_play
  <2>3. flyby_len' = Cardinality(states(Len(file)))'
    <3>1. DOMAIN file = 1 .. Len(file)  BY <1>0
    <3> QED BY <3>1, <2>1, <2>2 DEF flyby_calclen, states
  <2>4. Cardinality(states(at))' = 0
    <3>1. states(at)' = {}  BY <2>1 DEF states
    <3> QED BY <3>1, FS_EmptySet
  <2>5. reel_pos' = 0  BY <2>1, <2>2 DEF reel_advance
  <2>6. flyby_pos' <= (reel_pos' + 1) * every'
    <3>1. flyby_len' \in Nat
      <4>1. IsFiniteSet(1 .. Len(file))  BY <1>0, FS_Interval
      <4>2. IsFiniteSet(states(Len(file)))  BY <4>1, FS_Subset DEF states
      <4>3. Cardinality(states(Len(file))) \in Nat  BY <4>2, FS_CardinalityType
      <4> QED BY <4>3, <2>3, <2>1 DEF states
    <3>2. every' \in Nat  BY <3>1, <2>1, Shares DEF every
    <3> QED BY <3>2, <2>2, <2>5
  <2> QED BY <2>1, <2>2, <2>3, <2>4, <2>5, <2>6 DEF ReelOk
<1>4. ASSUME flyby_read PROVE ReelOk'
  <2>1. /\ mode = "play" /\ UNCHANGED <<file, reel, flyby_len>>
    BY <1>4 DEF flyby_read, recording
  <2>2. PICK i \in frames(at) : /\ \A j \in frames(at) : i <= j
                                /\ at' = i
                                /\ leaf(flyby_pos, reel_pos)
    BY <1>4 DEF flyby_read
  <2>3. at \in 0 .. Len(file) /\ Len(file) \in Nat  BY <1>0 DEF Good, TypeOK
  <2>4. i \in at + 1 .. Len(file) /\ IsState(file[i])  BY <2>2 DEF frames
  <2>5. ASSUME NEW j \in at + 1 .. i - 1 PROVE ~IsState(file[j])
    <3>1. j \in at + 1 .. Len(file) /\ ~(i <= j)  BY <2>3, <2>4
    <3> QED BY <3>1, <2>2 DEF frames
  <2>6. reel > 0 /\ flyby_len = Cardinality(states(Len(file))) /\ flyby_pos = Cardinality(states(at))
        /\ reel_pos \in 0 .. reel - 1
        /\ (reel_pos = reel - 1 \/ flyby_pos <= (reel_pos + 1) * every)
    BY <2>1 DEF ReelOk
  <2>7. Cardinality(states(i)) = flyby_pos + 1  BY <2>3, <2>4, <2>5, <2>6, <1>0, StatesMore
  <2>8. /\ every > 0 /\ flyby_pos' = flyby_pos + 1 /\ reel_pos' \in 0 .. reel - 1
        /\ reel_pos' = reel - 1 \/ flyby_pos' <= (reel_pos' + 1) * every
    BY <2>2, <2>6, <1>0, ReelStep
  <2>9. every' = every /\ states(Len(file))' = states(Len(file)) /\ states(at)' = states(i)
    BY <2>1, <2>2 DEF every, states
  <2> QED BY <2>1, <2>6, <2>7, <2>8, <2>9 DEF ReelOk
<1>5. ASSUME rewind PROVE ReelOk'
  <2>1. /\ mode = "play" /\ UNCHANGED <<file, reel, flyby_len>> /\ leaf(0, -1)
    BY <1>5 DEF rewind, recording
  <2>2. PICK i \in frames(0) : (\A j \in frames(0) : i <= j) /\ at' = i
    BY <1>5 DEF rewind
  <2>3. Len(file) \in Nat /\ Len(file) > 0 /\ file[1].type = "init"  BY <2>1, PlayTidy
  <2>4. i = 1
    <3>1. 1 \in frames(0)  BY <2>3 DEF frames, IsState
    <3>2. i \in 1 .. Len(file)  BY <2>3 DEF frames
    <3> QED BY <3>1, <3>2, <2>2, <2>3
  <2>5. Cardinality(states(1)) = 1
    <3>1. states(1) = {1}  BY <2>3 DEF states, IsState
    <3> QED BY <3>1, FS_Singleton
  <2>6. reel > 0 /\ flyby_len = Cardinality(states(Len(file)))  BY <2>1 DEF ReelOk
  <2>7. /\ every > 0 /\ flyby_pos' = 0 + 1 /\ reel_pos' \in 0 .. reel - 1
        /\ reel_pos' = reel - 1 \/ flyby_pos' <= (reel_pos' + 1) * every
    <3>1. 0 \in Nat  OBVIOUS
    <3> QED BY <3>1, <2>1, <2>6, <1>0, ReelStep
  <2>8. every' = every /\ states(Len(file))' = states(Len(file)) /\ states(at)' = states(1)
    BY <2>1, <2>2, <2>4 DEF every, states
  <2> QED BY <2>1, <2>5, <2>6, <2>7, <2>8 DEF ReelOk
<1>6. CASE \/ \E n \in Node : gscb_node(n) \/ gscb_node_shift(n) \/ uinpcb_gotonode(n)
           \/ key_c \/ key_all
           \/ \E way \in Ways : gl_spkeyh_node(way) \/ gl_spkeyh_node_shift(way)
  BY <1>6 DEF gscb_node, gscb_node_shift, uinpcb_gotonode, key_c, key_all, gl_spkeyh_node,
              gl_spkeyh_node_shift, select
<1>7. CASE begin_rec \/ flyby_writeseq \/ end_rec \/ flyby_clear \/ end_of_file \/ gl_keyh_actflyby
  BY <1>7 DEF begin_rec, flyby_writeseq, end_rec, flyby_clear, end_of_file, gl_keyh_actflyby,
              flyby_end
<1>8. ReelOk'
  BY <1>2, <1>3, <1>4, <1>5, <1>6, <1>7 DEF Next, ReelOk
<1> QED BY <1>8 DEF ReelOk

-----------------------------------------------------------------------------
(* The results.                                                            *)

LEMMA Always == Spec => [](Good /\ ReelOk)
<1>1. Init => ReelOk  BY DEF Init, ReelOk
<1> QED BY <1>1, Begin, Keep, ReelKeep, PTL DEF Spec

(* Whatever the order of clicks, keys, recordings and playbacks, nselnodes *)
(* is the length of the list and NF_SELNODE never stays on a node that is  *)
(* not in it; and a node is listed twice, or listed without the flag, only *)
(* after an arrow key has moved a node onto a selected one (selnode.c).    *)
THEOREM SelectionStaysWhole == Spec => []SelectionWhole
<1>1. Good => SelectionWhole
  BY DEF Good, SelectionOk, Tidy, Whole, SelectionWhole
<1> QED BY <1>1, Always, PTL

(* A frame of a playback shows the nodes as selected that were selected    *)
(* when it was recorded, however many recordings the file holds and        *)
(* wherever the playback is, unless a selection was left over where the    *)
(* recording begins or an arrow key wrote it (flyby.c:306, selnode.c:42).  *)
THEOREM FramesReplayed == Spec => []ReplaySelects
<1>1. Good => ReplaySelects
  <2> SUFFICES ASSUME Good, carry = {}, ~skewed, mode = "play", at > 0, file[at].type = "seq"
               PROVE  ToSet(sn.list) = file[at].truth
    BY DEF ReplaySelects, ReplayExact
  <2>1. PICK h : Told(h)  BY DEF Good, StoryOk
  <2>2. Story(file, h) /\ ToSet(sn.list) = h[at]  BY <2>1 DEF Told
  <2>3. at \in 1 .. Len(file)
    <3>1. at \in 0 .. Len(file) /\ Len(file) \in Nat  BY PlayTidy
    <3> QED BY <3>1
  <2>4. file[at].truth = h[at]  BY <2>2, <2>3 DEF Story
  <2> QED BY <2>2, <2>4
<1> QED BY <1>1, Always, PTL

(* At the last frame of a playback, in any round of a loop, the reel shows *)
(* its last frame, for every number of flyby frames and every length of    *)
(* the reel the program survives (flyby.c:385).                            *)
THEOREM ReelGoesThrough == Spec => []ReelReachesEnd
<1>1. Good /\ ReelOk => ReelReachesEnd
  <2> SUFFICES ASSUME Good, ReelOk, mode = "play", at > 0, frames(at) = {}, reel > 0,
                      reel_pos # reel - 1
               PROVE  FALSE
    BY DEF ReelReachesEnd
  <2>1. /\ reel \in Nat /\ flyby_len \in Nat /\ at \in 0 .. Len(file) /\ Len(file) \in Nat
    BY PlayTidy DEF Good, TypeOK
  <2>2. /\ flyby_len = Cardinality(states(Len(file))) /\ flyby_pos = Cardinality(states(at))
        /\ reel_pos \in 0 .. reel - 1 /\ every > 0 /\ flyby_pos <= (reel_pos + 1) * every
    BY DEF ReelOk
  <2>3. states(Len(file)) = states(at)  BY <2>1 DEF states, frames
  <2>4. every \in Nat /\ reel * every <= flyby_len  BY <2>1, Shares DEF every
  <2>5. reel_pos + 1 \in Nat /\ reel_pos + 1 < reel  BY <2>1, <2>2
  <2>6. (reel_pos + 1) * every + every <= reel * every  BY <2>1, <2>2, <2>4, <2>5, Products
  <2>7. (reel_pos + 1) * every \in Nat /\ reel * every \in Nat  BY <2>1, <2>4, <2>5
  <2> HIDE DEF every
  <2> QED BY <2>1, <2>2, <2>3, <2>4, <2>6, <2>7
<1> QED BY <1>1, Always, PTL

=============================================================================
